-------------------------- MODULE ConnectionsProofs --------------------------
(* Proofs about Connections, for any handlers, versions, conn_params and limits. *)
EXTENDS Connections, TLAPS

Holds(h) == pc[h] \in {"lookup", "dial", "version"}

\* connectionCacheMtx is held by the handler that looks up or connects, and the DSN
\* it computed under the mutex is still the configuration's.
MtxOwner == \A h \in Handler : Holds(h) => mtx = h /\ dsn[h] = mode

\* Who connects has missed the cache.
Missed == \A h \in Handler : pc[h] \in {"dial", "version"} => cache[mode] = 0

\* The configuration is written by the making of the first pool, whose DSN was the
\* configured one; a second pool is made under the DSN written then.
Progress == /\ Len(pools) = 0 => mode = UserMode
            /\ Len(pools) > 0 => mode = ModeFor(version) /\ cache[UserMode] # 0
            /\ Len(pools) = 2 => cache[mode] # 0
            /\ \A i \in 1 .. Len(pools) : pools[i] = ModeFor(version)

\* A handler that has a database has one of the pools.
HasDb == \A h \in Handler :
             \/ pc[h] \in {"ready", "busy"}
             \/ call[h] = "version" /\ pc[h] \in {"lock", "lookup", "dial", "version"}
             => db[h] # 0

\* Outages are counted once a pool has been made.
Counted == Len(pools) > 0 /\ ~up => faults > 0

IInv == /\ TypeOK /\ MtxOwner /\ Missed /\ Progress /\ HasDb /\ Counted
        /\ TwoPools /\ PanicNeedsFailure

------------------------------------------------------------------------------
LEMMA ModeType == ASSUME NEW v PROVE ModeFor(v) \in Modes
BY DEF ModeFor, Modes

LEMMA UpToTwo == ASSUME NEW n \in Nat, n <= 2 PROVE n \in {0, 1, 2}
OBVIOUS

\* Pools are counted in naturals, and there are none, one or two.
LEMMA Lengths == TypeOK /\ TwoPools => Len(pools) \in {0, 1, 2}
<1> SUFFICES ASSUME TypeOK, TwoPools PROVE Len(pools) \in {0, 1, 2}
    OBVIOUS
<1>1. Len(pools) \in Nat
    BY DEF TypeOK
<1>2. Len(pools) <= 2
    BY DEF TwoPools
<1> QED
    BY <1>1, <1>2, UpToTwo

LEMMA InitIInv == Init => IInv
<1> SUFFICES ASSUME Init PROVE IInv
    OBVIOUS
<1> USE DEF Init
<1>1. pools = <<>> /\ Len(pools) = 0
    OBVIOUS
<1>2. TypeOK
  <2>1. pools \in Seq(Modes)
    BY <1>1
  <2>2. cache \in [Modes -> 0 .. Len(pools)] /\ db \in [Handler -> 0 .. Len(pools)]
    BY <1>1
  <2>3. UserMode \in Modes
    BY DEF Modes
  <2>4. tries \in [Handler -> 0 .. MaxAttempts] /\ faults \in 0 .. MaxFaults
    BY ConnectionsAssumption
  <2> QED
    BY <2>1, <2>2, <2>3, <2>4 DEF TypeOK, PC
<1>3. MtxOwner /\ Missed /\ HasDb
    BY DEF MtxOwner, Holds, Missed, HasDb
<1>4. Progress /\ Counted /\ TwoPools /\ PanicNeedsFailure
    BY <1>1 DEF Progress, Counted, TwoPools, PanicNeedsFailure
<1> QED
    BY <1>2, <1>3, <1>4 DEF IInv

\* A step that makes no pool and leaves configuration, cache and faults as they are,
\* or counts a fault, keeps what IInv says of them.
LEMMA NoNewPool ==
    ASSUME IInv, UNCHANGED <<version, mode, cache, pools, panicked>>,
           faults' \in Nat, faults' >= faults,
           ~up' => ~up \/ faults' > 0
    PROVE  (Progress /\ Counted /\ TwoPools /\ PanicNeedsFailure)'
<1> QED
    BY ConnectionsAssumption DEF IInv, TypeOK, Progress, Counted, TwoPools, PanicNeedsFailure

LEMMA NextIInv == IInv /\ [Next]_vars => IInv'
<1> USE ConnectionsAssumption DEF IInv, Goto
<1> SUFFICES ASSUME IInv, [Next]_vars PROVE IInv'
    OBVIOUS
<1>0. CASE UNCHANGED vars
    BY <1>0 DEF vars, TypeOK, PC, MtxOwner, Holds, Missed, Progress, HasDb, Counted, TwoPools,
                PanicNeedsFailure
<1>1. CASE Toggle
  <2>1. TypeOK'
    BY <1>1 DEF Toggle, Fault, TypeOK
  <2>2. (MtxOwner /\ Missed /\ HasDb)'
    BY <1>1 DEF Toggle, MtxOwner, Holds, Missed, HasDb
  <2>3. (Progress /\ Counted /\ TwoPools /\ PanicNeedsFailure)'
    BY <1>1, NoNewPool DEF Toggle, Fault, TypeOK
  <2> QED
    BY <2>1, <2>2, <2>3
<1>2. ASSUME NEW h \in Handler, Begin(h) \/ Take(h) \/ Give(h) \/ Again(h) PROVE IInv'
  <2> USE <1>2 DEF Begin, Take, Give, Again
  <2>1. TypeOK'
    BY DEF TypeOK, PC
  <2>2. (MtxOwner /\ Missed)'
    BY DEF MtxOwner, Holds, Missed, TypeOK
  <2>3. HasDb'
    BY DEF HasDb, TypeOK
  <2>4. (Progress /\ Counted /\ TwoPools /\ PanicNeedsFailure)'
    BY NoNewPool DEF TypeOK
  <2> QED
    BY <2>1, <2>2, <2>3, <2>4
<1>3. ASSUME NEW h \in Handler, Lock(h) PROVE IInv'
  <2> USE <1>3 DEF Lock
  <2>1. TypeOK'
    BY DEF TypeOK, PC
  <2>2. (MtxOwner /\ Missed)'
    BY DEF MtxOwner, Holds, Missed, TypeOK
  <2>3. HasDb'
    BY DEF HasDb, TypeOK
  <2>4. (Progress /\ Counted /\ TwoPools /\ PanicNeedsFailure)'
    BY NoNewPool DEF TypeOK
  <2> QED
    BY <2>1, <2>2, <2>3, <2>4
<1>4. ASSUME NEW h \in Handler, Hit(h) PROVE IInv'
  <2> USE <1>4 DEF Hit, Return
  <2>1. TypeOK'
    BY DEF TypeOK, PC
  <2>2. (MtxOwner /\ Missed)'
    BY DEF MtxOwner, Holds, Missed, TypeOK
  <2>3. HasDb'
    BY DEF HasDb, TypeOK
  <2>4. (Progress /\ Counted /\ TwoPools /\ PanicNeedsFailure)'
    BY NoNewPool DEF TypeOK
  <2> QED
    BY <2>1, <2>2, <2>3, <2>4
<1>5. ASSUME NEW h \in Handler, Miss(h) \/ Dial(h) \/ Retry(h) PROVE IInv'
  <2> USE <1>5 DEF Miss, Dial, Retry
  <2>1. TypeOK'
    <3>1. CASE Miss(h)
      BY <3>1 DEF TypeOK, PC
    <3>2. CASE Dial(h)
      BY <3>2 DEF TypeOK, PC
    <3>3. CASE Retry(h)
      <4>1. tries[h] + 1 \in 0 .. MaxAttempts
        BY <3>3 DEF TypeOK
      <4> QED
        BY <3>3, <4>1 DEF TypeOK, PC
    <3> QED
      BY <1>5, <3>1, <3>2, <3>3
  <2>2. (MtxOwner /\ Missed)'
    BY DEF MtxOwner, Holds, Missed, TypeOK
  <2>3. HasDb'
    BY DEF HasDb, TypeOK
  <2>4. (Progress /\ Counted /\ TwoPools /\ PanicNeedsFailure)'
    BY NoNewPool DEF TypeOK
  <2> QED
    BY <2>1, <2>2, <2>3, <2>4
\* A failure panics only in the call for the version, which follows one for the
\* database: a pool exists, and only one because this call is connecting.
<1>6. ASSUME NEW h \in Handler, DialFails(h) \/ VersionFails(h) PROVE IInv'
  <2> USE <1>6 DEF DialFails, VersionFails, Fail, Fault
  <2>1. TypeOK'
    <3>1. faults' \in 0 .. MaxFaults
      BY DEF TypeOK
    <3>2. pc' \in [Handler -> PC] /\ panicked' \in BOOLEAN /\ mtx' = Nil
      BY DEF TypeOK, PC
    <3> QED
      BY <3>1, <3>2 DEF TypeOK
  <2>2. (MtxOwner /\ Missed)'
    BY DEF MtxOwner, Holds, Missed, TypeOK
  <2>3. HasDb'
    BY DEF HasDb, TypeOK
  <2>4. (Progress /\ Counted /\ TwoPools)'
    BY DEF Progress, Counted, TwoPools, TypeOK
  <2>5. ASSUME call[h] = "version" PROVE Len(pools) = 1 /\ faults' > 0
    <3>1. cache[mode] = 0 /\ db[h] # 0
      BY <2>5 DEF Missed, HasDb
    <3>2. Len(pools) > 0 /\ Len(pools) # 2
      BY <3>1 DEF TypeOK, Progress
    <3>3. Len(pools) = 1
      BY <3>2, Lengths
    <3> QED
      BY <3>3 DEF TypeOK, Counted
  <2>6. PanicNeedsFailure'
    BY <2>5 DEF PanicNeedsFailure
  <2> QED
    BY <2>1, <2>2, <2>3, <2>4, <2>6
<1>7. ASSUME NEW h \in Handler, Open(h), ~panicked PROVE IInv'
  <2> DEFINE M == ModeFor(version)
             n == Len(pools)
  <2>0. /\ pc[h] = "version" /\ mtx' = Nil /\ dsn' = dsn /\ version' = version /\ up' = up
        /\ panicked' = panicked /\ faults' = faults /\ tries' = tries
        /\ pc' \in [Handler -> PC] /\ call' \in [Handler -> {"db", "version"}]
        /\ \A g \in Handler \ {h} : pc'[g] = pc[g] /\ call'[g] = call[g]
    BY <1>7 DEF Open, Return, TypeOK, PC
  <2>1. /\ mode' = M /\ M \in Modes /\ Len(pools') = n + 1 /\ pools' \in Seq(Modes)
        /\ \A i \in 1 .. n : pools'[i] = pools[i]
        /\ pools'[n + 1] = M
    BY <1>7, ModeType DEF Open, TypeOK
  <2>2. cache' = [cache EXCEPT ![mode] = n + 1] /\ cache[mode] = 0
    BY <1>7, <2>1 DEF Open, MtxOwner, Holds, Missed
  <2>3. n \in {0, 1}
    <3>1. n # 2
      BY <2>2 DEF Progress
    <3> QED
      BY <3>1, Lengths
  <2>4. \/ db' = db
        \/ db' = [db EXCEPT ![h] = n + 1]
    BY <1>7, <2>1 DEF Open, Return
  <2>5. \A g \in Handler : db'[g] = db[g] \/ db'[g] = n + 1
    BY <2>4 DEF TypeOK
  <2>6. pc'[h] \in {"ready", "lock"} /\ (call[h] = "version" \/ db'[h] = n + 1)
    BY <1>7, <2>1 DEF Open, Return, TypeOK
  <2>7. /\ mode \in Modes /\ cache \in [Modes -> 0 .. n] /\ db \in [Handler -> 0 .. n]
        /\ pools \in Seq(Modes) /\ UserMode \in Modes
    BY DEF TypeOK, Modes
  <2> HIDE DEF M, n
  <2>8. TypeOK'
    <3>1. cache' \in [Modes -> 0 .. n + 1]
      BY <2>2, <2>3, <2>7
    <3>2. db' \in [Handler -> 0 .. n + 1]
      BY <2>3, <2>4, <2>7
    <3> QED
      BY <2>0, <2>1, <3>1, <3>2 DEF TypeOK
  <2>9. (MtxOwner /\ Missed)'
    BY <2>0, <2>6 DEF MtxOwner, Holds, Missed
  <2>10. HasDb'
    <3>1. \A g \in Handler : db[g] # 0 => db'[g] # 0
      BY <2>3, <2>5
    <3>2. db'[h] # 0
      BY <2>0, <2>3, <2>6, <3>1 DEF HasDb
    <3> QED
      BY <2>0, <3>1, <3>2 DEF HasDb
  <2>11. Progress'
    <3>1. n = 0 => mode = UserMode
      BY DEF Progress, n
    <3>2. n = 1 => mode = M /\ cache[UserMode] # 0
      BY DEF Progress, M, n
    <3>3. cache'[UserMode] # 0
      BY <2>2, <2>3, <2>7, <3>1, <3>2
    <3>4. n + 1 = 2 => cache'[M] # 0
      BY <2>2, <2>3, <2>7, <3>2
    <3>5. \A i \in 1 .. n + 1 : pools'[i] = M
      BY <2>1, <2>3 DEF Progress, M, n
    <3> QED
      BY <2>0, <2>1, <2>3, <3>3, <3>4, <3>5 DEF Progress, M
  <2>12. (Counted /\ TwoPools /\ PanicNeedsFailure)'
    <3>1. ~up' => faults' > 0
      BY <1>7, <2>0 DEF Open
    <3> QED
      BY <1>7, <2>0, <2>1, <2>3, <3>1 DEF Counted, TwoPools, PanicNeedsFailure
  <2> QED
    BY <2>8, <2>9, <2>10, <2>11, <2>12
<1> QED
    BY <1>0, <1>1, <1>2, <1>3, <1>4, <1>5, <1>6, <1>7 DEF Next, Connect, Ended

LEMMA Inductive == Safe => []IInv
<1>1. Init => IInv
    BY InitIInv
<1>2. IInv /\ [Next]_vars => IInv'
    BY NextIInv
<1> QED
    BY <1>1, <1>2, PTL DEF Safe

\* The type invariant.
THEOREM TypeCorrect == Safe => []TypeOK
<1>1. IInv => TypeOK
    BY DEF IInv
<1> QED
    BY <1>1, Inductive, PTL

\* Two pools per configuration is the most, for any number of handlers and however
\* often connecting fails and is tried again.
THEOREM AtMostTwoPools == Safe => []TwoPools
<1>1. IInv => TwoPools
    BY DEF IInv
<1> QED
    BY <1>1, Inductive, PTL

\* When the DSN with sql_mode is cached, connecting is over for good.
THEOREM Settled == Safe => []SettledForGood
<1>1. IInv => SettledForGood
    BY DEF IInv, Missed, SettledForGood
<1> QED
    BY <1>1, Inductive, PTL

\* Whatever conn_params say, statements run with the sql_mode for the server's version.
THEOREM SqlModeOfVersion == Safe => []RightSqlMode
<1>1. IInv => RightSqlMode
  <2> SUFFICES ASSUME IInv, NEW h \in Handler, pc[h] = "busy"
               PROVE  pools[db[h]] = ModeFor(version)
    BY DEF RightSqlMode
  <2>1. db[h] # 0 /\ db[h] \in 0 .. Len(pools) /\ Len(pools) \in {0, 1, 2}
    BY Lengths DEF IInv, HasDb, TypeOK
  <2>2. db[h] \in 1 .. Len(pools)
    BY <2>1
  <2> QED
    BY <2>2 DEF IInv, Progress
<1> QED
    BY <1>1, Inductive, PTL

\* The panic of getVersionFromMeta needs a failure between the first pool and the second.
THEOREM PanicOnlyAfterFailure == Safe => []PanicNeedsFailure
<1>1. IInv => PanicNeedsFailure
    BY DEF IInv
<1> QED
    BY <1>1, Inductive, PTL
==============================================================================
