----------------------------- MODULE KeyedMutex ------------------------------
(***************************************************************************)
(* KeyedMutex of mysql/utils.go, one action per step of Lock and Unlock    *)
(* between which another goroutine can run.  A key's mutex is made by the  *)
(* first Lock of the key and stays in the map for the life of the process. *)
(* Mutexes are objects: "lock" is the pointer a call holds in its local    *)
(* variable, "locks" the map, "heap" the mutexes made so far and "locked"  *)
(* the mutexes that are locked.  A Go mutex does not know who locked it.   *)
(***************************************************************************)
EXTENDS Naturals

CONSTANTS Caller, Key, Mutex, Nil

ASSUME NilAssumption == Nil \notin Caller /\ Nil \notin Mutex

VARIABLES pc, key, lock, mu, locks, heap, locked

vars == <<pc, key, lock, mu, locks, heap, locked>>

PC == {"idle", "lock_mu", "lookup", "create", "lock_unmu", "acquire",
       "critical", "unlock_mu", "find", "unlock_unmu", "release", "panic"}

TypeOK == /\ pc \in [Caller -> PC]
          /\ key \in [Caller -> Key]
          /\ lock \in [Caller -> Mutex \cup {Nil}]
          /\ mu \in Caller \cup {Nil}
          /\ locks \in [Key -> Mutex \cup {Nil}]
          /\ heap \in SUBSET Mutex
          /\ locked \in SUBSET Mutex

Init == /\ pc = [c \in Caller |-> "idle"]
        /\ key \in [Caller -> Key]
        /\ lock = [c \in Caller |-> Nil]
        /\ mu = Nil
        /\ locks = [k \in Key |-> Nil]
        /\ heap = {}
        /\ locked = {}

Goto(c, from, to) == pc[c] = from /\ pc' = [pc EXCEPT ![c] = to]

\* Mutant: the map is read and written without km.mu.
TakeMuUnguarded(c) == mu' = c

TakeMu(c) == mu = Nil /\ mu' = c

------------------------------------------------------------------------------
(* Lock(key) *)

Lock(c) == /\ Goto(c, "idle", "lock_mu")
           /\ \E k \in Key : key' = [key EXCEPT ![c] = k]
           /\ UNCHANGED <<lock, mu, locks, heap, locked>>

LockMu(c) == /\ Goto(c, "lock_mu", "lookup")
             /\ TakeMu(c)
             /\ UNCHANGED <<key, lock, locks, heap, locked>>

\* Mutant: Lock takes it that the key has a mutex.
LookupOnly(c) == /\ Goto(c, "lookup", "lock_unmu")
                 /\ lock' = [lock EXCEPT ![c] = locks[key[c]]]
                 /\ UNCHANGED <<key, mu, locks, heap, locked>>

\* lock, exists := km.locks[key]
Lookup(c) == /\ Goto(c, "lookup", IF locks[key[c]] = Nil THEN "create" ELSE "lock_unmu")
             /\ lock' = [lock EXCEPT ![c] = locks[key[c]]]
             /\ UNCHANGED <<key, mu, locks, heap, locked>>

\* Mutant: the new mutex is not put in the map.
CreateUnmapped(c) == /\ Goto(c, "create", "lock_unmu")
                     /\ \E m \in Mutex \ heap : /\ heap' = heap \cup {m}
                                                /\ lock' = [lock EXCEPT ![c] = m]
                     /\ UNCHANGED <<key, mu, locks, locked>>

\* lock = &sync.Mutex{}; km.locks[key] = lock
Create(c) == /\ Goto(c, "create", "lock_unmu")
             /\ \E m \in Mutex \ heap : /\ heap' = heap \cup {m}
                                        /\ lock' = [lock EXCEPT ![c] = m]
                                        /\ locks' = [locks EXCEPT ![key[c]] = m]
             /\ UNCHANGED <<key, mu, locked>>

LockUnmu(c) == /\ Goto(c, "lock_unmu", "acquire")
               /\ mu' = Nil
               /\ UNCHANGED <<key, lock, locks, heap, locked>>

\* Mutant: lock.TryLock(), and Lock returns without the key when it fails.
TryAcquire(c) == /\ Goto(c, "acquire", IF lock[c] \in locked THEN "idle" ELSE "critical")
                 /\ locked' = locked \cup {lock[c]}
                 /\ UNCHANGED <<key, lock, mu, locks, heap>>

\* Mutant: lock.RLock(), which other readers do not exclude.
AcquireShared(c) == /\ Goto(c, "acquire", "critical")
                    /\ locked' = locked \cup {lock[c]}
                    /\ UNCHANGED <<key, lock, mu, locks, heap>>

\* lock.Lock(): waits until the mutex of the key is free
Acquire(c) == /\ Goto(c, "acquire", "critical")
              /\ lock[c] \notin locked
              /\ locked' = locked \cup {lock[c]}
              /\ UNCHANGED <<key, lock, mu, locks, heap>>

------------------------------------------------------------------------------
(* Unlock(key): CreateGrant and DeleteGrant defer it with the key they locked *)

Unlock(c) == /\ Goto(c, "critical", "unlock_mu")
             /\ UNCHANGED <<key, lock, mu, locks, heap, locked>>

UnlockMu(c) == /\ Goto(c, "unlock_mu", "find")
               /\ TakeMu(c)
               /\ UNCHANGED <<key, lock, locks, heap, locked>>

\* panic("unlock of unlocked mutex") leaves km.mu locked
Find(c) == /\ Goto(c, "find", IF locks[key[c]] = Nil THEN "panic" ELSE "unlock_unmu")
           /\ lock' = [lock EXCEPT ![c] = locks[key[c]]]
           /\ UNCHANGED <<key, mu, locks, heap, locked>>

\* Mutant: Unlock removes the mutex from the map, to keep the map small.
UnlockForgets(c) == /\ Goto(c, "unlock_unmu", "release")
                    /\ mu' = Nil
                    /\ locks' = [locks EXCEPT ![key[c]] = Nil]
                    /\ UNCHANGED <<key, lock, heap, locked>>

UnlockUnmu(c) == /\ Goto(c, "unlock_unmu", "release")
                 /\ mu' = Nil
                 /\ UNCHANGED <<key, lock, locks, heap, locked>>

\* lock.Unlock() of a mutex nobody holds is a fatal error of the Go runtime
Release(c) == /\ Goto(c, "release", IF lock[c] \in locked THEN "idle" ELSE "panic")
              /\ locked' = locked \ {lock[c]}
              /\ UNCHANGED <<key, lock, mu, locks, heap>>

------------------------------------------------------------------------------
Step(c) == \/ LockMu(c) \/ Lookup(c) \/ Create(c) \/ LockUnmu(c) \/ Acquire(c)
           \/ UnlockMu(c) \/ Find(c) \/ UnlockUnmu(c) \/ Release(c)

Next == \E c \in Caller : Lock(c) \/ Unlock(c) \/ Step(c)

Safe == Init /\ [][Next]_vars

(***************************************************************************)
(* A goroutine that can run is run, and the handler that holds a key ends  *)
(* (its statements carry a context with a timeout).  sync.Mutex hands a    *)
(* mutex to the longest waiter once that one has waited for 1ms, so a      *)
(* caller does not lose every race for a mutex that is free again and      *)
(* again: strong fairness for the three steps that wait for a mutex.       *)
(***************************************************************************)
Fairness == \A c \in Caller : /\ WF_vars(Step(c) \/ Unlock(c))
                              /\ SF_vars(LockMu(c))
                              /\ SF_vars(Acquire(c))
                              /\ SF_vars(UnlockMu(c))

Spec == Safe /\ Fairness

------------------------------------------------------------------------------
(* Properties *)

\* The steps of a caller between the end of its Lock and the end of its Unlock.
Inside(c) == pc[c] \in {"critical", "unlock_mu", "find", "unlock_unmu", "release"}

\* Two callers never hold the same key: the two-level locking, the map and the
\* moment at which a key's mutex is made do what CreateGrant's comment needs of
\* them, namely that its check and its GRANT are not interleaved with another's.
MutualExclusion == \A c, d \in Caller : Inside(c) /\ Inside(d) /\ key[c] = key[d] => c = d

\* Unlock never meets a key without a mutex, nor a mutex that is not locked: the
\* panic in Unlock, which would leave the map's mutex locked for ever, is dead code.
NoPanic == \A c \in Caller : pc[c] # "panic"

\* A caller that waits for its key's mutex or holds it works on the one mutex that
\* the map has for that key, so the mutex of a key is never replaced under a caller.
OneMutexPerKey ==
    \A c \in Caller : pc[c] \in {"lock_unmu", "acquire", "release"} => lock[c] = locks[key[c]]

\* A caller that asks for a key gets it, whatever the other callers do.
LockReturns == \A c \in Caller : pc[c] = "lock_mu" ~> pc[c] = "critical"

(* The abstract lock it implements. *)
status == [c \in Caller |-> IF pc[c] = "idle" THEN "idle"
                            ELSE IF Inside(c) THEN "holding" ELSE "waiting"]

Abstract == INSTANCE KeyLock WITH wanted <- key

\* KeyedMutex implements the per-key lock, its liveness included.
ImplementsKeyLock == Abstract!Spec
==============================================================================
