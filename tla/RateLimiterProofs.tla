-------------------------- MODULE RateLimiterProofs --------------------------
(***************************************************************************)
(* Proofs about PasswordEncryptionRateLimiter for any finite set of        *)
(* threads and user names, any number of CPU cores and any patience.       *)
(*                                                                         *)
(* OneEncryptionPerUser and EncryptionsBounded are not inductive: they     *)
(* need to know that a name outside mRunningEncryptions belongs to no      *)
(* encrypting thread (SlotsExact), and Release needs to know that the name *)
(* it erases is neither leaked nor in use by another thread.               *)
(***************************************************************************)
EXTENDS PasswordEncryptionRateLimiter, FunctionTheorems, FiniteSetTheorems, TLAPS

(* The inductive invariant of the limiter. *)
LimInv ==
    /\ LimTypeOK
    /\ SlotsExact
    /\ OneEncryptionPerUser
    /\ LeakedSlotIsFinal
    /\ Cardinality(mRunningEncryptions) <= CpuCount

(* The set of running names is finite and its cardinality is a number: it  *)
(* only ever holds user names.                                             *)
LEMMA RunningFinite ==
    ASSUME LimTypeOK
    PROVE  /\ IsFiniteSet(mRunningEncryptions)
           /\ Cardinality(mRunningEncryptions) \in Nat
<1>1. mRunningEncryptions \in SUBSET Users
    BY DEF LimTypeOK
<1>2. IsFiniteSet(mRunningEncryptions)
    BY <1>1, FS_Subset, UsersAssumption
<1> QED BY <1>2, FS_CardinalityType

(* The initial state, no slot taken, satisfies the inductive invariant. *)
LEMMA LimInitInv == LimInit => LimInv
<1> SUFFICES ASSUME LimInit PROVE LimInv
    OBVIOUS
<1>1. LimTypeOK
    BY MaxWaitAssumption DEF LimInit, LimTypeOK, LimStates
<1>2. Encrypting = {}
    BY DEF LimInit, Encrypting
<1>3. SlotsExact /\ OneEncryptionPerUser /\ LeakedSlotIsFinal
    BY <1>2 DEF SlotsExact, OneEncryptionPerUser, LeakedSlotIsFinal, LimInit
<1>4. Cardinality(mRunningEncryptions) <= CpuCount
    BY FS_EmptySet, CpuCountAssumption DEF LimInit
<1> QED BY <1>1, <1>3, <1>4 DEF LimInv

(* A step that moves a thread without touching the slots, between two      *)
(* places outside createKey and release, or between those two places,      *)
(* changes nothing the invariant speaks of.                                *)
LEMMA SlotsUntouched ==
    ASSUME LimInv, LimTypeOK', Encrypting' = Encrypting,
           UNCHANGED <<mRunningEncryptions, leaked>>,
           \A t \in Encrypting : limUser'[t] = limUser[t]
    PROVE  LimInv'
<1>1. {limUser'[t] : t \in Encrypting'} = {limUser[t] : t \in Encrypting}
    OBVIOUS
<1>2. SlotsExact'
    BY <1>1 DEF LimInv, SlotsExact
<1>3. OneEncryptionPerUser'
    BY DEF LimInv, OneEncryptionPerUser
<1>4. LeakedSlotIsFinal'
    BY DEF LimInv, LeakedSlotIsFinal
<1> QED BY <1>2, <1>3, <1>4 DEF LimInv

(* Every step of every thread preserves the inductive invariant. *)
LEMMA LimNextInv == LimInv /\ [LimNext]_limVars => LimInv'
<1> SUFFICES ASSUME LimInv, [LimNext]_limVars PROVE LimInv'
    OBVIOUS
<1>t. LimTypeOK
    BY DEF LimInv
<1>1. ASSUME NEW t \in Threads, NEW u \in Users, Call(t, u) PROVE LimInv'
    <2>1. LimTypeOK'
        BY <1>t, <1>1, MaxWaitAssumption DEF LimTypeOK, LimStates, Call
    <2>2. Encrypting' = Encrypting
        BY <1>t, <1>1 DEF Encrypting, Call, LimTypeOK
    <2>3. \A s \in Encrypting : limUser'[s] = limUser[s]
        BY <1>t, <1>1 DEF Encrypting, Call, LimTypeOK
    <2> QED BY <2>1, <2>2, <2>3, <1>1, SlotsUntouched DEF Call
<1>2. ASSUME NEW t \in Threads, Check(t) PROVE LimInv'
    <2>1. CASE FreeSlotFor(limUser[t])
        <3>1. LimTypeOK'
            BY <1>t, <1>2, <2>1 DEF LimTypeOK, LimStates, Check
        <3>2. /\ Encrypting' = Encrypting \cup {t}
              /\ limUser' = limUser
              /\ leaked' = leaked
              /\ mRunningEncryptions' = mRunningEncryptions \cup {limUser[t]}
            BY <1>t, <1>2, <2>1 DEF Encrypting, Check, LimTypeOK
        <3>3. limUser[t] \notin mRunningEncryptions
            BY <2>1 DEF FreeSlotFor
        <3>4. SlotsExact'
            BY <3>2 DEF LimInv, SlotsExact
        <3>5. OneEncryptionPerUser' /\ LeakedSlotIsFinal'
            BY <3>2, <3>3
            DEF LimInv, SlotsExact, OneEncryptionPerUser, LeakedSlotIsFinal
        <3>6. Cardinality(mRunningEncryptions') <= CpuCount
            <4>1. Cardinality(mRunningEncryptions \cup {limUser[t]})
                      = Cardinality(mRunningEncryptions) + 1
                BY <3>3, <1>t, RunningFinite, FS_AddElement
            <4>2. Cardinality(mRunningEncryptions) < CpuCount
                BY <2>1 DEF FreeSlotFor
            <4> QED BY <4>1, <4>2, <3>2, <1>t, RunningFinite, CpuCountAssumption
        <3> QED BY <3>1, <3>4, <3>5, <3>6 DEF LimInv
    <2>2. CASE ~FreeSlotFor(limUser[t])
        <3>1. LimTypeOK'
            BY <1>t, <1>2, <2>2 DEF LimTypeOK, LimStates, Check
        <3>2. Encrypting' = Encrypting
            BY <1>t, <1>2, <2>2 DEF Encrypting, Check, LimTypeOK
        <3> QED BY <3>1, <3>2, <1>2, <2>2, SlotsUntouched DEF Check
    <2> QED BY <2>1, <2>2
<1>3. ASSUME NEW t \in Threads, CreateKey(t) PROVE LimInv'
    <2>1. LimTypeOK'
        BY <1>t, <1>3 DEF LimTypeOK, LimStates, CreateKey
    <2>2. Encrypting' = Encrypting
        BY <1>t, <1>3 DEF Encrypting, CreateKey, LimTypeOK
    <2> QED BY <2>1, <2>2, <1>3, SlotsUntouched DEF CreateKey
<1>4. ASSUME NEW t \in Threads, CreateKeyThrows(t) PROVE LimInv'
    <2>1. LimTypeOK'
        BY <1>t, <1>4 DEF LimTypeOK, LimStates, CreateKeyThrows
    <2>2. /\ t \in Encrypting
          /\ Encrypting' = Encrypting \ {t}
          /\ limUser' = limUser
          /\ leaked' = leaked \cup {limUser[t]}
          /\ mRunningEncryptions' = mRunningEncryptions
        BY <1>t, <1>4 DEF Encrypting, CreateKeyThrows, LimTypeOK
    <2>3. SlotsExact'
        BY <2>2 DEF LimInv, SlotsExact
    <2>4. OneEncryptionPerUser' /\ LeakedSlotIsFinal'
        BY <2>2 DEF LimInv, OneEncryptionPerUser, LeakedSlotIsFinal
    <2> QED BY <2>1, <2>2, <2>3, <2>4 DEF LimInv
<1>5. ASSUME NEW t \in Threads, Release(t) PROVE LimInv'
    <2>1. LimTypeOK'
        BY <1>t, <1>5 DEF LimTypeOK, LimStates, Release
    <2>2. /\ t \in Encrypting
          /\ Encrypting' = Encrypting \ {t}
          /\ limUser' = limUser
          /\ leaked' = leaked
          /\ mRunningEncryptions' = mRunningEncryptions \ {limUser[t]}
        BY <1>t, <1>5 DEF Encrypting, Release, LimTypeOK
    <2>3. limUser[t] \notin leaked
        BY <2>2 DEF LimInv, LeakedSlotIsFinal
    <2>4. \A s \in Encrypting : s # t => limUser[s] # limUser[t]
        BY <2>2 DEF LimInv, OneEncryptionPerUser
    <2>5. SlotsExact'
        BY <2>2, <2>3, <2>4 DEF LimInv, SlotsExact
    <2>6. OneEncryptionPerUser' /\ LeakedSlotIsFinal'
        BY <2>2 DEF LimInv, OneEncryptionPerUser, LeakedSlotIsFinal
    <2>7. Cardinality(mRunningEncryptions') <= CpuCount
        <3>1. Cardinality(mRunningEncryptions \ {limUser[t]})
                  <= Cardinality(mRunningEncryptions)
            BY <1>t, RunningFinite, FS_Subset
        <3>2. Cardinality(mRunningEncryptions') \in Nat
            BY <2>1, RunningFinite, FS_CardinalityType, <2>2, <1>t, FS_RemoveElement
        <3> QED BY <3>1, <3>2, <2>2, <1>t, RunningFinite, CpuCountAssumption
                DEF LimInv
    <2> QED BY <2>1, <2>5, <2>6, <2>7 DEF LimInv
<1>6. ASSUME NEW t \in Threads, WakeUp(t) PROVE LimInv'
    <2>1. LimTypeOK'
        BY <1>t, <1>6, MaxWaitAssumption DEF LimTypeOK, LimStates, WakeUp
    <2>2. Encrypting' = Encrypting
        BY <1>t, <1>6 DEF Encrypting, WakeUp, LimTypeOK
    <2> QED BY <2>1, <2>2, <1>6, SlotsUntouched DEF WakeUp
<1>7. ASSUME NEW t \in Threads, Return(t) PROVE LimInv'
    <2>1. LimTypeOK'
        BY <1>t, <1>7, MaxWaitAssumption DEF LimTypeOK, LimStates, Return
    <2>2. Encrypting' = Encrypting
        BY <1>t, <1>7 DEF Encrypting, Return, LimTypeOK
    <2> QED BY <2>1, <2>2, <1>7, SlotsUntouched DEF Return
<1>8. CASE UNCHANGED limVars
    <2>1. LimTypeOK' /\ Encrypting' = Encrypting /\ limUser' = limUser
        BY <1>t, <1>8 DEF LimTypeOK, limVars, Encrypting
    <2> QED BY <2>1, <1>8, SlotsUntouched DEF limVars
<1> QED
    BY <1>1, <1>2, <1>3, <1>4, <1>5, <1>6, <1>7, <1>8 DEF LimNext, LimStep

(* The inductive invariant holds in every reachable state. *)
LEMMA LimInvAlways == LimSpec => []LimInv
BY LimInitInv, LimNextInv, PTL DEF LimSpec

(* Counting: the encrypting threads inject into the running names, so      *)
(* there are at most CpuCount of them.                                     *)
LEMMA InvImpliesBounded == LimInv => EncryptionsBounded
<1> SUFFICES ASSUME LimInv PROVE EncryptionsBounded
    OBVIOUS
<1>t. LimTypeOK
    BY DEF LimInv
<1> DEFINE f == [t \in Encrypting |-> limUser[t]]
<1>1. f \in [Encrypting -> mRunningEncryptions]
    BY DEF LimInv, SlotsExact
<1>2. f \in Injection(Encrypting, mRunningEncryptions)
    BY <1>1 DEF LimInv, OneEncryptionPerUser, Injection, IsInjective
<1>3. IsFiniteSet(Encrypting)
    BY FS_Subset, ThreadsAssumption DEF Encrypting
<1>4. Cardinality(Encrypting) <= Cardinality(mRunningEncryptions)
    BY <1>2, <1>t, RunningFinite, FS_Injection
<1>5. Cardinality(Encrypting) \in Nat
    BY <1>3, FS_CardinalityType
<1> QED
    BY <1>4, <1>5, <1>t, RunningFinite, CpuCountAssumption
    DEF EncryptionsBounded, LimInv

(* Type correctness of the limiter's state. *)
THEOREM LimTypeCorrect == LimSpec => []LimTypeOK
<1>1. LimInv => LimTypeOK
    BY DEF LimInv
<1> QED BY <1>1, LimInvAlways, PTL

(* checkForFreeSlotAndRunEncryption keeps its promise for every number of  *)
(* cores: never more encryptions at once than cores.                       *)
THEOREM LimiterCorrect == LimSpec => []EncryptionsBounded
<1> QED BY InvImpliesBounded, LimInvAlways, PTL

(* No two threads ever derive a key for the same user name.                *)
THEOREM NoDoubleEncryption == LimSpec => []OneEncryptionPerUser
<1>1. LimInv => OneEncryptionPerUser
    BY DEF LimInv
<1> QED BY <1>1, LimInvAlways, PTL

(* mRunningEncryptions says exactly which names are being encrypted or     *)
(* were left behind by an encryption that threw.                           *)
THEOREM SlotsAreExact == LimSpec => []SlotsExact
<1>1. LimInv => SlotsExact
    BY DEF LimInv
<1> QED BY <1>1, LimInvAlways, PTL

(* Without a handler around createKey (line 41) the name of a failed       *)
(* encryption never gets a slot again.                                     *)
THEOREM LeakIsPermanent == LimSpec => []LeakedSlotIsFinal
<1>1. LimInv => LeakedSlotIsFinal
    BY DEF LimInv
<1> QED BY <1>1, LimInvAlways, PTL
=============================================================================
