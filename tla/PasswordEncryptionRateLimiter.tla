-------------------- MODULE PasswordEncryptionRateLimiter --------------------
(***************************************************************************)
(* The process-wide limiter that lets at most one password encryption per  *)
(* CPU core, and at most one per user name, run at a time                  *)
(* (src/PasswordEncryptionRateLimiter.cpp).  Every HTTP worker thread that *)
(* has to derive a key from a password calls                               *)
(* waitForFreeSlotAndRunEncryption; the call polls for a slot until it     *)
(* either ran createKey or waited too long.                                *)
(*                                                                         *)
(* The mutex of MultithreadContainer only protects straight-line code, so  *)
(* each critical section is one action: Check (lines 36-40 or 36-48) and   *)
(* Release (lines 42-44).  createKey and the sleep run without the mutex.  *)
(***************************************************************************)
EXTENDS Integers, FiniteSets

CONSTANTS
    Threads,    \* the worker threads that may call the limiter
    Users,      \* the user names they call it with
    CpuCount,   \* Poco::Environment::processorCount()
    MaxWait     \* the patience of a waiter: 100 s, counted in sleeps of 200 ms

ASSUME CpuCountAssumption == CpuCount \in Nat \ {0}
ASSUME MaxWaitAssumption  == MaxWait \in Nat
ASSUME ThreadsAssumption  == IsFiniteSet(Threads)
ASSUME UsersAssumption    == IsFiniteSet(Users)

VARIABLES
    mRunningEncryptions,  \* the user names that own a slot
    limPc,                \* where each thread is in the call
    limUser,              \* the user name of each thread's (last) call
    waited,               \* how long each thread has waited in this call
    leaked                \* history: the names whose createKey threw

limVars == <<mRunningEncryptions, limPc, limUser, waited, leaked>>

LimStates == {"idle", "check", "createKey", "release", "sleep",
              "done", "timedOut", "failed"}

LimTypeOK ==
    /\ mRunningEncryptions \in SUBSET Users
    /\ limPc \in [Threads -> LimStates]
    /\ limUser \in [Threads -> Users]
    /\ waited \in [Threads -> 0 .. MaxWait + 1]
    /\ leaked \in SUBSET Users

LimInit ==
    /\ mRunningEncryptions = {}
    /\ limPc = [t \in Threads |-> "idle"]
    /\ limUser \in [Threads -> Users]
    /\ waited = [t \in Threads |-> 0]
    /\ leaked = {}

-----------------------------------------------------------------------------
(* waitForFreeSlotAndRunEncryption is entered; the timeout clock starts. *)
Call(t, u) ==
    /\ limPc[t] = "idle"
    /\ limPc' = [limPc EXCEPT ![t] = "check"]
    /\ limUser' = [limUser EXCEPT ![t] = u]
    /\ waited' = [waited EXCEPT ![t] = 0]
    /\ UNCHANGED <<mRunningEncryptions, leaked>>

(* The test of lines 37-38: a core is free, and this name is not running. *)
FreeSlotForMutant_NoNameTest(u) == Cardinality(mRunningEncryptions) < CpuCount
FreeSlotForMutant_OffByOne(u) ==
    /\ Cardinality(mRunningEncryptions) <= CpuCount
    /\ u \notin mRunningEncryptions
FreeSlotFor(u) ==
    /\ Cardinality(mRunningEncryptions) < CpuCount
    /\ u \notin mRunningEncryptions

(* checkForFreeSlotAndRunEncryption up to its unlock: the name is inserted *)
(* or the check fails and the caller goes to sleep.                        *)
Check(t) ==
    /\ limPc[t] = "check"
    /\ IF FreeSlotFor(limUser[t])
       THEN /\ mRunningEncryptions' = mRunningEncryptions \cup {limUser[t]}
            /\ limPc' = [limPc EXCEPT ![t] = "createKey"]
       ELSE /\ limPc' = [limPc EXCEPT ![t] = "sleep"]
            /\ UNCHANGED mRunningEncryptions
    /\ UNCHANGED <<limUser, waited, leaked>>

(* createKey returns, without the mutex. *)
CreateKey(t) ==
    /\ limPc[t] = "createKey"
    /\ limPc' = [limPc EXCEPT ![t] = "release"]
    /\ UNCHANGED <<mRunningEncryptions, limUser, waited, leaked>>

(* createKey throws: nothing catches it here, lines 42-44 are skipped and  *)
(* the name stays in mRunningEncryptions.                                  *)
CreateKeyThrows(t) ==
    /\ limPc[t] = "createKey"
    /\ limPc' = [limPc EXCEPT ![t] = "failed"]
    /\ leaked' = leaked \cup {limUser[t]}
    /\ UNCHANGED <<mRunningEncryptions, limUser, waited>>

(* Lines 42-45: the slot is given back and the call returns. *)
ReleaseMutant_NoErase(t) ==
    /\ limPc[t] = "release"
    /\ limPc' = [limPc EXCEPT ![t] = "done"]
    /\ UNCHANGED <<mRunningEncryptions, limUser, waited, leaked>>
Release(t) ==
    /\ limPc[t] = "release"
    /\ mRunningEncryptions' = mRunningEncryptions \ {limUser[t]}
    /\ limPc' = [limPc EXCEPT ![t] = "done"]
    /\ UNCHANGED <<limUser, waited, leaked>>

(* Lines 26-28: the sleep takes at least one interval and, on a loaded     *)
(* machine, any number of them; the timeout is tested before the next      *)
(* check, so it is thrown even if a slot became free during the sleep.     *)
WakeUpMutant_NoTimeout(t) ==
    /\ limPc[t] = "sleep"
    /\ limPc' = [limPc EXCEPT ![t] = "check"]
    /\ waited' = [waited EXCEPT ![t] = @ + 1]
    /\ UNCHANGED <<mRunningEncryptions, limUser, leaked>>
WakeUpMutant_TimeoutIgnored(t) ==
    /\ limPc[t] = "sleep"
    /\ limPc' = [limPc EXCEPT ![t] = "check"]
    /\ UNCHANGED <<mRunningEncryptions, limUser, leaked, waited>>
WakeUp(t) ==
    /\ limPc[t] = "sleep"
    /\ \E w \in waited[t] + 1 .. MaxWait + 1 :
          /\ waited' = [waited EXCEPT ![t] = w]
          /\ limPc' = [limPc EXCEPT ![t] =
                          IF w > MaxWait THEN "timedOut" ELSE "check"]
    /\ UNCHANGED <<mRunningEncryptions, limUser, leaked>>

(* The caller consumes the outcome of its call; the local timer is gone. *)
Return(t) ==
    /\ limPc[t] \in {"done", "timedOut", "failed"}
    /\ limPc' = [limPc EXCEPT ![t] = "idle"]
    /\ waited' = [waited EXCEPT ![t] = 0]
    /\ UNCHANGED <<mRunningEncryptions, limUser, leaked>>

(* One step of a call that is under way. *)
LimStep(t) ==
    Check(t) \/ CreateKey(t) \/ CreateKeyThrows(t) \/ Release(t) \/ WakeUp(t)

LimNext ==
    \E t \in Threads : (\E u \in Users : Call(t, u)) \/ LimStep(t) \/ Return(t)

LimSpec == LimInit /\ [][LimNext]_limVars

-----------------------------------------------------------------------------
Encrypting == {t \in Threads : limPc[t] \in {"createKey", "release"}}

(* The set of running names is exactly the names of the threads between    *)
(* insert (line 39) and erase (line 43), plus the names leaked by a throw  *)
(* of createKey: no other path loses or keeps a slot.                      *)
SlotsExact == mRunningEncryptions = {limUser[t] : t \in Encrypting} \cup leaked

(* No two threads ever derive a key for the same name at the same time     *)
(* (the find of line 38 and the insert of line 39 are one critical         *)
(* section).                                                               *)
OneEncryptionPerUser ==
    \A t1, t2 \in Encrypting : limUser[t1] = limUser[t2] => t1 = t2

(* At most one thread per CPU core derives a key, leaked slots included in *)
(* the count (line 37).                                                    *)
EncryptionsBounded ==
    /\ Cardinality(mRunningEncryptions) <= CpuCount
    /\ Cardinality(Encrypting) <= CpuCount

(* A slot whose createKey threw is never handed out again: the name can    *)
(* not be encrypted any more until the process restarts (line 41 has no    *)
(* handler).                                                               *)
LeakedSlotIsFinal == \A t \in Encrypting : limUser[t] \notin leaked

(* Whoever enters waitForFreeSlotAndRunEncryption comes out of it, with    *)
(* its key, with the createKey exception or with                           *)
(* PasswordEncryptionRateLimitException (lines 25-30), even if every slot  *)
(* is leaked.                                                              *)
EveryCallReturns ==
    \A t \in Threads :
        (limPc[t] = "check") ~> (limPc[t] \in {"done", "timedOut", "failed"})
=============================================================================
