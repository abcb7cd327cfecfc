-------------------------- MODULE KeyedMutexProofs ---------------------------
(* Proofs about KeyedMutex, for any callers, keys and mutexes. *)
EXTENDS KeyedMutex, TLAPS

\* The places at which a caller holds km.mu.
InMu(c) == pc[c] \in {"lookup", "create", "lock_unmu", "find", "unlock_unmu"}

\* km.mu is held exactly by the caller that works on the map.
MuOwner == \A c \in Caller : InMu(c) <=> mu = c

\* Keys have mutexes of their own, made before they are used.
OwnMutex == /\ \A k \in Key : locks[k] # Nil => locks[k] \in heap
            /\ \A k, l \in Key : locks[k] = locks[l] /\ locks[k] # Nil => k = l

\* What a caller's local variable and the map say at each place of Lock and Unlock.
Places == \A c \in Caller :
    /\ pc[c] = "create" => locks[key[c]] = Nil
    /\ pc[c] \in {"lock_unmu", "acquire"} => locks[key[c]] # Nil /\ lock[c] = locks[key[c]]
    /\ Inside(c) => locks[key[c]] # Nil /\ locks[key[c]] \in locked
    /\ pc[c] \in {"unlock_unmu", "release"} => lock[c] = locks[key[c]]

IInv == TypeOK /\ MuOwner /\ OwnMutex /\ Places /\ MutualExclusion /\ NoPanic

------------------------------------------------------------------------------
LEMMA InitIInv == Init => IInv
BY NilAssumption
   DEF Init, IInv, TypeOK, PC, MuOwner, InMu, OwnMutex, Places, MutualExclusion, NoPanic, Inside

\* One step of any caller preserves the inductive invariant.
LEMMA NextIInv == IInv /\ [Next]_vars => IInv'
<1> USE NilAssumption DEF IInv, TypeOK, PC, Goto
<1> SUFFICES ASSUME IInv, [Next]_vars PROVE IInv'
    OBVIOUS
<1>0. CASE UNCHANGED vars
    BY <1>0 DEF vars, MuOwner, InMu, OwnMutex, Places, MutualExclusion, NoPanic, Inside
<1>1. ASSUME NEW c \in Caller, Lock(c) PROVE IInv'
    BY <1>1 DEF Lock, MuOwner, InMu, OwnMutex, Places, MutualExclusion, NoPanic, Inside
<1>2. ASSUME NEW c \in Caller, LockMu(c) PROVE IInv'
    BY <1>2 DEF LockMu, TakeMu, MuOwner, InMu, OwnMutex, Places, MutualExclusion, NoPanic, Inside
<1>3. ASSUME NEW c \in Caller, Lookup(c) PROVE IInv'
    BY <1>3 DEF Lookup, MuOwner, InMu, OwnMutex, Places, MutualExclusion, NoPanic, Inside
<1>4. ASSUME NEW c \in Caller, Create(c) PROVE IInv'
    BY <1>4 DEF Create, MuOwner, InMu, OwnMutex, Places, MutualExclusion, NoPanic, Inside
<1>5. ASSUME NEW c \in Caller, LockUnmu(c) PROVE IInv'
    BY <1>5 DEF LockUnmu, MuOwner, InMu, OwnMutex, Places, MutualExclusion, NoPanic, Inside
<1>6. ASSUME NEW c \in Caller, Acquire(c) PROVE IInv'
    BY <1>6 DEF Acquire, MuOwner, InMu, OwnMutex, Places, MutualExclusion, NoPanic, Inside
<1>7. ASSUME NEW c \in Caller, Unlock(c) PROVE IInv'
    BY <1>7 DEF Unlock, MuOwner, InMu, OwnMutex, Places, MutualExclusion, NoPanic, Inside
<1>8. ASSUME NEW c \in Caller, UnlockMu(c) PROVE IInv'
    BY <1>8 DEF UnlockMu, TakeMu, MuOwner, InMu, OwnMutex, Places, MutualExclusion, NoPanic, Inside
<1>9. ASSUME NEW c \in Caller, Find(c) PROVE IInv'
    BY <1>9 DEF Find, MuOwner, InMu, OwnMutex, Places, MutualExclusion, NoPanic, Inside
<1>10. ASSUME NEW c \in Caller, UnlockUnmu(c) PROVE IInv'
    BY <1>10 DEF UnlockUnmu, MuOwner, InMu, OwnMutex, Places, MutualExclusion, NoPanic, Inside
<1>11. ASSUME NEW c \in Caller, Release(c) PROVE IInv'
    BY <1>11 DEF Release, MuOwner, InMu, OwnMutex, Places, MutualExclusion, NoPanic, Inside
<1> QED
    BY <1>0, <1>1, <1>2, <1>3, <1>4, <1>5, <1>6, <1>7, <1>8, <1>9, <1>10, <1>11 DEF Next, Step

\* IInv is an invariant of KeyedMutex.
LEMMA Inductive == Safe => []IInv
<1>1. Init => IInv
    BY InitIInv
<1>2. IInv /\ [Next]_vars => IInv'
    BY NextIInv
<1> QED
    BY <1>1, <1>2, PTL DEF Safe

\* The type invariant, for any callers, keys and mutexes.
THEOREM TypeCorrect == Safe => []TypeOK
<1>1. IInv => TypeOK
    BY DEF IInv
<1> QED
    BY <1>1, Inductive, PTL

\* Lock and Unlock give mutual exclusion per key: it is the fact that every
\* check-then-act of CreateGrant relies on.
THEOREM Exclusion == Safe => []MutualExclusion
<1>1. IInv => MutualExclusion
    BY DEF IInv
<1> QED
    BY <1>1, Inductive, PTL

\* The panic of Unlock and the runtime's "unlock of unlocked mutex" are unreachable
\* for callers that unlock the key they locked.
THEOREM UnlockIsSafe == Safe => []NoPanic
<1>1. IInv => NoPanic
    BY DEF IInv
<1> QED
    BY <1>1, Inductive, PTL

\* A caller never waits on a mutex that is no longer the map's mutex of its key.
THEOREM SameMutex == Safe => []OneMutexPerKey
<1>1. IInv => OneMutexPerKey
    BY DEF IInv, Places, OneMutexPerKey
<1> QED
    BY <1>1, Inductive, PTL

------------------------------------------------------------------------------
(* Refinement: KeyedMutex implements the safety part of KeyLock. *)

\* Only three steps show: the call of Lock, the locking of the key's mutex and
\* its unlocking.  The others are stutters of the abstract lock.
LEMMA StepRefines == IInv /\ [Next]_vars => [Abstract!Next]_(Abstract!lvars)
<1> USE DEF IInv, TypeOK, PC, Goto, Inside, status, Abstract!lvars
<1> SUFFICES ASSUME IInv, [Next]_vars
             PROVE  Abstract!Next \/ UNCHANGED Abstract!lvars
    OBVIOUS
<1>0. CASE UNCHANGED vars
    BY <1>0 DEF vars
<1>1. ASSUME NEW c \in Caller, Lock(c) PROVE Abstract!Next
  <2>1. Abstract!Request(c)
    BY <1>1 DEF Lock, Abstract!Request
  <2> QED
    BY <2>1 DEF Abstract!Next
<1>2. ASSUME NEW c \in Caller, Acquire(c) PROVE Abstract!Next
  <2>1. \A d \in Caller : Inside(d) => key[d] # key[c]
    BY <1>2 DEF Acquire, Places
  <2>2. Abstract!Enter(c)
    BY <1>2, <2>1 DEF Acquire, Abstract!Enter
  <2> QED
    BY <2>2 DEF Abstract!Next
<1>3. ASSUME NEW c \in Caller, Release(c) PROVE Abstract!Next
  <2>1. lock[c] \in locked
    BY <1>3 DEF Release, Places
  <2>2. Abstract!Leave(c)
    BY <1>3, <2>1 DEF Release, Abstract!Leave
  <2> QED
    BY <2>2 DEF Abstract!Next
<1>4. ASSUME NEW c \in Caller,
             \/ LockMu(c) \/ Lookup(c) \/ Create(c) \/ LockUnmu(c)
             \/ Unlock(c) \/ UnlockMu(c) \/ UnlockUnmu(c)
      PROVE  UNCHANGED Abstract!lvars
    BY <1>4 DEF LockMu, Lookup, Create, LockUnmu, Unlock, UnlockMu, UnlockUnmu
<1>5. ASSUME NEW c \in Caller, Find(c) PROVE UNCHANGED Abstract!lvars
    BY <1>5 DEF Find, Places
<1> QED
    BY <1>0, <1>1, <1>2, <1>3, <1>4, <1>5 DEF Next, Step

\* Every behaviour of KeyedMutex is one of the per-key lock.
THEOREM Refinement == Safe => Abstract!Safe
<1>1. Init => Abstract!Init
    BY DEF Init, Abstract!Init, status
<1>2. IInv /\ [Next]_vars => [Abstract!Next]_(Abstract!lvars)
    BY StepRefines
<1> QED
    BY <1>1, <1>2, Inductive, PTL DEF Safe, Abstract!Safe
==============================================================================
