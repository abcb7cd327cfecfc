----------------------------- MODULE Connections -----------------------------
(***************************************************************************)
(* How handlers get at the database: getDatabaseFromMeta and               *)
(* getVersionFromMeta (mysql/utils.go), the process-wide cache of          *)
(* connection pools and the connecting with retries below them             *)
(* (mysql/provider.go).                                                    *)
(*                                                                         *)
(* The cache is keyed by the DSN at the time of the call, and making a     *)
(* connection writes sql_mode into the configuration the DSN is formatted  *)
(* from.  Everything else in the DSN is fixed, so a DSN is the value of    *)
(* sql_mode, Nil when it is not set.  One provider configuration.          *)
(***************************************************************************)
EXTENDS Integers, Sequences, FiniteSets

CONSTANTS
    Handler,       \* the goroutines terraform has the provider run
    Versions,      \* versions the server may have: 10000 * major + 100 * minor + patch
    UserMode,      \* sql_mode of the provider's conn_params, Nil when it has none
    MaxOpenConns,  \* the provider's max_open_conns
    MaxAttempts,   \* attempts that fit in connect_retry_timeout_sec
    MaxFaults,     \* bound on outages and refusals
    Nil

ASSUME ConnectionsAssumption ==
    /\ Versions \subseteq Nat
    /\ MaxOpenConns \in Int /\ MaxAttempts \in Nat /\ MaxFaults \in Nat
    /\ Nil \notin Handler

VARIABLES
    version,   \* the server's version
    up,        \* whether the server can be reached
    mode,      \* conf.Config.Params["sql_mode"]
    cache,     \* connectionCache: DSN -> index in pools, 0 when there is none
    pools,     \* the pools made so far: the DSN each was opened with
    mtx,       \* who holds connectionCacheMtx
    pc, call,  \* call[h]: "db" or "version", the function that is connecting
    dsn,       \* dsn[h]: local variable of connectToMySQLInternal
    db,        \* db[h]: the pool getDatabaseFromMeta returned
    tries,     \* tries[h]: attempts of the current RetryContext
    panicked,  \* log.Panicf has ended the provider
    faults

vars == <<version, up, mode, cache, pools, mtx, pc, call, dsn, db, tries, panicked, faults>>

NoAutoCreateUser == "'NO_AUTO_CREATE_USER'"
Empty == "''"

\* setSQLModeParam
ModeFor(v) == IF v >= 50705 /\ v < 80000 THEN NoAutoCreateUser ELSE Empty

Modes == {NoAutoCreateUser, Empty, UserMode}

\* configureConnectionPool
MaxOpen == IF MaxOpenConns > 0 THEN MaxOpenConns ELSE 1

PC == {"idle", "lock", "lookup", "dial", "version", "ready", "busy", "failed"}

TypeOK ==
    /\ version \in Versions /\ up \in BOOLEAN /\ panicked \in BOOLEAN
    /\ mode \in Modes
    /\ pools \in Seq(Modes)
    /\ cache \in [Modes -> 0 .. Len(pools)]
    /\ mtx \in Handler \cup {Nil}
    /\ pc \in [Handler -> PC]
    /\ call \in [Handler -> {"db", "version"}]
    /\ dsn \in [Handler -> Modes]
    /\ db \in [Handler -> 0 .. Len(pools)]
    /\ tries \in [Handler -> 0 .. MaxAttempts]
    /\ faults \in 0 .. MaxFaults

Init ==
    /\ version \in Versions
    /\ up \in BOOLEAN
    /\ mode = UserMode
    /\ cache = [m \in Modes |-> 0]
    /\ pools = <<>>
    /\ mtx = Nil
    /\ pc = [h \in Handler |-> "idle"]
    /\ call = [h \in Handler |-> "db"]
    /\ dsn = [h \in Handler |-> UserMode]
    /\ db = [h \in Handler |-> 0]
    /\ tries = [h \in Handler |-> 0]
    /\ panicked = FALSE
    /\ faults = 0

Goto(h, from, to) == pc[h] = from /\ pc' = [pc EXCEPT ![h] = to]

Fault == faults < MaxFaults /\ faults' = faults + 1

------------------------------------------------------------------------------
(* connectToMySQLInternal, under connectionCacheMtx *)

Begin(h) ==
    /\ Goto(h, "idle", "lock")
    /\ call' = [call EXCEPT ![h] = "db"]
    /\ UNCHANGED <<version, up, mode, cache, pools, mtx, dsn, db, tries, panicked, faults>>

\* Mutant: no connectionCacheMtx.
LockUnguarded(h) ==
    /\ Goto(h, "lock", "lookup")
    /\ mtx' = h
    /\ dsn' = [dsn EXCEPT ![h] = mode]
    /\ UNCHANGED <<version, up, mode, cache, pools, call, db, tries, panicked, faults>>

Lock(h) ==
    /\ Goto(h, "lock", "lookup")
    /\ mtx = Nil
    /\ mtx' = h
    /\ dsn' = [dsn EXCEPT ![h] = mode]
    /\ UNCHANGED <<version, up, mode, cache, pools, call, db, tries, panicked, faults>>

\* The pool p goes to the caller.  Most handlers ask for the version next, some
\* use the database at once.
Return(h, p) ==
    /\ mtx' = Nil
    /\ \/ /\ call[h] = "db"
          /\ db' = [db EXCEPT ![h] = p]
          /\ \/ pc' = [pc EXCEPT ![h] = "ready"] /\ UNCHANGED call
             \/ pc' = [pc EXCEPT ![h] = "lock"] /\ call' = [call EXCEPT ![h] = "version"]
       \/ /\ call[h] = "version"
          /\ pc' = [pc EXCEPT ![h] = "ready"]
          /\ UNCHANGED <<call, db>>

\* Mutant: getDatabaseFromMeta panics too.
FailPanics(h) ==
    /\ mtx' = Nil
    /\ pc' = [pc EXCEPT ![h] = "failed"]
    /\ panicked' = TRUE

\* getDatabaseFromMeta hands the error on, getVersionFromMeta panics.
Fail(h) ==
    /\ mtx' = Nil
    /\ pc' = [pc EXCEPT ![h] = "failed"]
    /\ panicked' = (call[h] = "version")

Hit(h) ==
    /\ pc[h] = "lookup"
    /\ cache[dsn[h]] # 0
    /\ Return(h, cache[dsn[h]])
    /\ UNCHANGED <<version, up, mode, cache, pools, dsn, tries, panicked, faults>>

Miss(h) ==
    /\ Goto(h, "lookup", "dial")
    /\ cache[dsn[h]] = 0
    /\ tries' = [tries EXCEPT ![h] = 0]
    /\ UNCHANGED <<version, up, mode, cache, pools, mtx, call, dsn, db, panicked, faults>>

------------------------------------------------------------------------------
(* createNewConnection *)

Dial(h) ==
    /\ Goto(h, "dial", "version")
    /\ up
    /\ UNCHANGED <<version, up, mode, cache, pools, mtx, call, dsn, db, tries, panicked, faults>>

\* Mutant: the timeout is not looked at.
RetryPastTimeout(h) ==
    /\ pc[h] = "dial"
    /\ ~up
    /\ tries' = [tries EXCEPT ![h] = @ + 1]
    /\ UNCHANGED <<version, up, mode, cache, pools, mtx, pc, call, dsn, db, panicked, faults>>

\* Mutant: every attempt has the whole timeout again.
RetryAnew(h) ==
    /\ pc[h] = "dial"
    /\ ~up /\ tries[h] < MaxAttempts
    /\ UNCHANGED vars

\* The server cannot be reached: retryable
Retry(h) ==
    /\ pc[h] = "dial"
    /\ ~up /\ tries[h] < MaxAttempts
    /\ tries' = [tries EXCEPT ![h] = @ + 1]
    /\ UNCHANGED <<version, up, mode, cache, pools, mtx, pc, call, dsn, db, panicked, faults>>

\* The time is over, or an error that is not retried: the server refuses the
\* credentials, or the handler's context is cancelled.
DialFails(h) ==
    /\ pc[h] = "dial"
    /\ \/ ~up /\ tries[h] = MaxAttempts /\ UNCHANGED faults
       \/ Fault
    /\ Fail(h)
    /\ UNCHANGED <<version, up, mode, cache, pools, call, dsn, db, tries>>

\* Mutant: the connection is not put in the cache.
OpenUncached(h) ==
    /\ pc[h] = "version"
    /\ up
    /\ mode' = ModeFor(version)
    /\ pools' = Append(pools, mode')
    /\ Return(h, Len(pools'))
    /\ UNCHANGED <<version, up, cache, dsn, tries, panicked, faults>>

\* Mutant: the pool is opened before setSQLModeParam.
OpenEarly(h) ==
    /\ pc[h] = "version"
    /\ up
    /\ mode' = ModeFor(version)
    /\ pools' = Append(pools, mode)
    /\ cache' = [cache EXCEPT ![dsn[h]] = Len(pools')]
    /\ Return(h, Len(pools'))
    /\ UNCHANGED <<version, up, dsn, tries, panicked, faults>>

\* serverVersion succeeds: the pool is opened with the DSN as it is after
\* setSQLModeParam, and cached under the DSN of the lookup.
Open(h) ==
    /\ pc[h] = "version"
    /\ up
    /\ mode' = ModeFor(version)
    /\ pools' = Append(pools, mode')
    /\ cache' = [cache EXCEPT ![dsn[h]] = Len(pools')]
    /\ Return(h, Len(pools'))
    /\ UNCHANGED <<version, up, dsn, tries, panicked, faults>>

VersionFails(h) ==
    /\ pc[h] = "version"
    /\ (~up /\ UNCHANGED faults) \/ Fault
    /\ Fail(h)
    /\ UNCHANGED <<version, up, mode, cache, pools, call, dsn, db, tries>>

------------------------------------------------------------------------------
(* A statement of the handler, on a connection of its pool (database/sql) *)

Users(i) == {h \in Handler : pc[h] = "busy" /\ db[h] = i}

Take(h) ==
    /\ Goto(h, "ready", "busy")
    /\ Cardinality(Users(db[h])) < MaxOpen
    /\ UNCHANGED <<version, up, mode, cache, pools, mtx, call, dsn, db, tries, panicked, faults>>

\* The handler goes on to its next statement or returns.
Give(h) ==
    /\ pc[h] = "busy"
    /\ \E to \in {"ready", "idle"} : pc' = [pc EXCEPT ![h] = to]
    /\ UNCHANGED <<version, up, mode, cache, pools, mtx, call, dsn, db, tries, panicked, faults>>

\* The handler has returned its error; terraform may run another operation.
Again(h) ==
    /\ Goto(h, "failed", "idle")
    /\ UNCHANGED <<version, up, mode, cache, pools, mtx, call, dsn, db, tries, panicked, faults>>

------------------------------------------------------------------------------
Toggle ==
    /\ up' = ~up
    /\ up => Fault
    /\ ~up => UNCHANGED faults
    /\ UNCHANGED <<version, mode, cache, pools, mtx, pc, call, dsn, db, tries, panicked>>

Connect(h) == \/ Lock(h) \/ Hit(h) \/ Miss(h) \/ Dial(h) \/ Retry(h) \/ DialFails(h)
              \/ Open(h) \/ VersionFails(h)

\* A panic in a goroutine ends the process.
Ended == panicked /\ UNCHANGED vars

Next ==
    \/ Ended
    \/ ~panicked /\ Toggle
    \/ \E h \in Handler : ~panicked /\ (Begin(h) \/ Connect(h) \/ Take(h) \/ Give(h) \/ Again(h))

Safe == Init /\ [][Next]_vars

\* Attempts and statements end (the driver and the contexts have timeouts), and a
\* goroutine waiting for the mutex, or for a connection of its pool, gets it in the
\* end: sync.Mutex and the queue of database/sql serve who has waited longest.
Spec == Safe /\ \A h \in Handler : /\ WF_vars(~panicked /\ (Connect(h) \/ Give(h)))
                                   /\ SF_vars(~panicked /\ Lock(h))
                                   /\ SF_vars(~panicked /\ Take(h))

------------------------------------------------------------------------------
(* Properties *)

\* Once the DSN of the configuration as the provider left it is cached, nobody
\* connects any more: no later handler can fail, wait for retries or panic.
SettledForGood == cache[mode] # 0 => \A h \in Handler : pc[h] \notin {"dial", "version"}

\* A configuration makes at most two pools, however handlers, failures and retries
\* interleave: one under the DSN as configured, one under the DSN with sql_mode.
TwoPools == Len(pools) <= 2

\* Every statement runs in a session with the sql_mode for the server's version.
RightSqlMode == \A h \in Handler : pc[h] = "busy" => pools[db[h]] = ModeFor(version)

\* The provider panics only when a server that had been reached was lost, or refused
\* it, before the second connection: never on a server that stays up.
PanicNeedsFailure == panicked => Len(pools) = 1 /\ faults > 0

\* A handler that wants the database gets it or an error, unless the provider has
\* panicked: an unreachable server holds the others up for a bounded time.
ConnectReturns ==
    \A h \in Handler : pc[h] = "lock" ~> pc[h] \in {"ready", "failed"} \/ panicked
==============================================================================
