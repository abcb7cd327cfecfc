# A verification project for terraform-provider-mysql

TLA+ modules of the provider's own logic (`src/mysql/`), the TLC runs that check
them on small instances, and theorems that TLAPS checks for every instance. Line
numbers are those of `src/` at the commit beside this directory. `PROJECT.json`
maps every definition to the lines it models.

## 1. The system

The provider is one Go process that terraform starts for a command and calls
over RPC. Terraform runs the operations of different resources concurrently,
each as a goroutine of the provider. A handler asks for a connection pool and
the server's version, sends a few SQL statements and reports what it did by what
it leaves in the `ResourceData`, which the SDK turns into the resource's next
state. There are three kinds of shared state: the memory of the process (the
connection cache, the keyed mutex, the configuration map), the MySQL server, and
terraform's state file.

| Component | State | Operations | Modelled in |
|---|---|---|---|
| `KeyedMutex` (`utils.go`) | map from key to mutex, a mutex for the map | `Lock`, `Unlock` | `KeyLock` (abstract), `KeyedMutex` |
| Connection cache (`provider.go`, `utils.go`) | `connectionCache`, its mutex, `sql_mode` in the shared configuration, pools | `getDatabaseFromMeta`, `getVersionFromMeta`, `connectToMySQLInternal`, `createNewConnection` | `Connections` |
| `mysql_grant` (`resource_grant.go`) | grant tables of the server, `grantCreateMutex`, state | Create, Read, Update, Delete, Import | `Grants`; grants of roles in `Objects` |
| `mysql_user` (`resource_user.go`) | accounts, state | Create, Read, Update, Delete, Import | `Users` |
| `mysql_user_password` (`resource_user_password.go`) | password of an account, state | Create and Update, Read, Delete | `Users` |
| `mysql_default_roles`, `mysql_role`, `mysql_database`, `mysql_sql` | the object on the server, state | Create, Read, Update, Delete, Import | `Objects` |
| `mysql_global_variable`, `mysql_rds_config`, `mysql_ti_config` | settings of the server, connections of the pool, state | Create, Read, Update, Delete, Import | `Settings` |
| Data sources (`mysql_databases`, `mysql_tables`) | none | one query | not modelled: nothing changes |
| Provider configuration (`provider.go`) | the configuration handlers get, a token, a dialer | `providerConfigure`, `shouldUseProxy`, `makeDialer`, `httpProxyDialer.Dial` | `Provider` |
| RDS Data API (`utils.go`) | none: a pool per call | `connectToRDSDataAPI` | `Provider` |
| Terraform, SDK, `database/sql`, the server | plans, state, pools, tables | | external, by what the provider relies on |

How they interact:

- Every handler goes through the connection cache, several times: connecting is
  serialised by `connectionCacheMtx`, retries included. Asking for the version
  after the database is a second lookup, with a DSN that may have changed.
- `CreateGrant` and `DeleteGrant` hold the `KeyedMutex` of their user or role
  while they check and change grants; `UpdateGrant` holds nothing.
- `mysql_user` and `mysql_user_password` write the same account. Terraform orders
  them only if one block refers to the other.
- `mysql_default_roles` stand on an account and on roles that other blocks make, grant
  and drop; an account that is replaced loses them.
- What `providerConfigure` computes once, the token among it, every later connection of
  the process uses, those that the pool opens by itself included.
- The SDK saves state after an error as well: a failed Create whose id is set is
  saved tainted, a failed Update is saved with the planned values
  (`vendor/.../helper/schema/resource.go`).

What is hard, and hard to test: interleavings of handlers between check and
statement; handlers that are several statements of which one may fail, or be run
by the server with its reply lost; crashes of the process; state that was read
at refresh and is used at apply; retries under a mutex; a version that decides
which statements run. `PROJECT.json` lists these at their lines under "hazards".

What makes the components correct:

- `KeyedMutex`: per-key exclusion, one mutex per key, no panic, everyone served.
- Connections: a bounded number of pools, each with the right `sql_mode`; every
  caller answered; the panic of `getVersionFromMeta` never without a failure.
- `mysql_grant`: the check for an existing grant holds until the GRANT; one row
  of the grant tables, one owner; state and server agree after a run; nothing is
  left after a destroy; repeated runs converge; every operation ends.
- The objects: what is declared is not dropped, nothing on the server is forgotten, runs
  converge, although statements fail, the process dies or somebody drops an object.
- The provider block: a connection takes the documented way, with a token that is valid
  where it is used, and making one ends.
- The resources of settings: declared values arrive whatever fails on the way; a
  removed resource leaves nothing behind.
- `mysql_user`, `mysql_user_password`: the account has the password that is
  declared; what is not about the password leaves it alone; the retained password
  works; accounts and state agree after failures; runs converge.

## 2. The modules

`MC...` modules hold the constants of the instances, `...Proofs` the theorems.

### KeyLock and KeyedMutex

`KeyLock` is what callers are promised: request a key, hold it alone, leave.
`KeyedMutex` is the code of `Lock` and `Unlock`, one action per step between two
points at which another goroutine may run: take `km.mu`, look up, make the
mutex, release `km.mu`, take the key's mutex, and back. Mutexes are objects in a
heap and a call remembers the pointer it looked up, so a mutex that is made
twice, or replaced in the map, would show. A Go mutex does not know its owner,
nor does `locked`. The refinement maps a caller at `idle` to idle, between the
acquisition of the key's mutex and its release to holding, otherwise to waiting.

Fairness: weak for a goroutine that can run and for the holder's leaving (its
statements end with their contexts); strong for the three steps that wait for a
mutex, because `sync.Mutex` hands a mutex to the longest waiter after 1 ms.

### Connections

One provider configuration. `mode` is `conf.Config.Params["sql_mode"]`, the only
part of the DSN that changes, so it stands for the DSN; `cache` maps DSNs to
`pools`; `mtx` is `connectionCacheMtx`. `Lock` takes the mutex and formats the
DSN, `Hit` and `Miss` are the lookup, `Dial`, `Retry` and `DialFails` the loop of
`retry.RetryContext`, `Open` the success (the version is read, `sql_mode` is set,
the pool is opened with the new DSN and cached under the old one), `VersionFails`
its error. `call` tells which function asked, since `getVersionFromMeta` panics on
an error and `getDatabaseFromMeta` returns it. `Take` and `Give` are a statement
on one of the `MaxOpen` connections of the pool. `Toggle` is the server going and
coming back.

Bounds: `MaxAttempts` is how many attempts fit in the retry timeout, `MaxFaults`
bounds outages and refusals together. Fairness: attempts and statements end,
because of driver and context timeouts; the mutex and the queue of `database/sql`
serve the longest waiter, hence strong fairness of `Lock` and `Take`. That the
server comes back is not assumed.

### Grants

A run of terraform refreshes all resources, plans, and applies the plans
concurrently; then comes the next run, with an edited configuration or the same.
`server[slot]` is a row of the grant tables for an account and an object, `cfg`
the configuration, `st` terraform's state, `holder` the keyed mutex, used through
its abstract form, since `KeyedMutex` implements that.

- Create: `CreateLock`, `Check` (SHOW GRANTS and `getMatchingGrant`; "already
  has" ends the handler), `Grant`, `ReadBack`.
- Update: `Revoke` and `Regrant`, from the difference of raw strings.
- Delete: `DeleteLock`, `Drop`, `Dropped`; a replacement goes on with Create.
- `ImportGrant` is `terraform import` between runs of a row that no resource has in the
  state, which is how a row that a lost reply has left comes back to it.
- `GivesUp`, `GrantFails`, `RevokeFails`, `DropFails`, `RefreshFails` and the
  second disjunct of `ReadBack` are the error returns. A failure is "rejected"
  (the server did nothing), "lost" or "drop_lost" (it did and the reply is lost),
  "readback" or a "crash" of the process.

A privilege list is a set of strings; `Canon` is `normalizePerms` but for the letters,
`Meaning` what the server makes of a list. `SamePrivileges` is `arePrivilegesSetsEqual`:
both lists are sorted, capitals first (`Place`), and compared in pairs without regard to
case, so lists of different lengths differ, and so do some that differ in letters only.
With `Percona`, SHOW GRANTS for a host prints also the
rows of host `%`.

Fairness: weak, per handler; a statement ends at the latest with its context.
Key waiting needs no strong fairness in this model, as in one run a key is
contended by finitely many operations, each of which takes it at most twice.

### Users

`mysql_user` and the `mysql_user_password` of the same account, over runs of
terraform as in Grants; `Casts` says which of them configurations have together.
`account[u]` is a row of `mysql.user` with current and
retained password, TLS requirement and one limit. The version is a variable that
the initial state chooses; `ReadsAccount`, `LimitsWithCreate`, `PasswordUnread`,
`DualPasswords` are the comparisons the code makes.

- `CreateUser`, then `CreateLimits` (GRANT USAGE, before 5.7.6) or `CreateTls`
  (ALTER USER of an AAD user). What differs is whether the id is set before or
  after the second statement.
- `UpdateUser` is one statement of the up to five of an update: `Due` is which
  are due, `Order` their order, `Altered` their effect. `NewPassword` is `newpw`.
- `DeleteUser`; a replacement goes on with `CreateUser`.
- `SetUserPassword`, `DeleteUserPassword`, `Skip` (a dependency has failed).
- `ReadUser` and `ReadUserPassword` are functions that `Refresh` applies. SHOW CREATE
  USER has the authentication string in one of two forms: `print_identified_with_as_hex`
  is set on one connection of the pool, and the statement may run on another, so from
  8.0.17 on either may come (`Forms`). `auth_string_hashed` and `auth_string_hex` are the
  two fields of `auth`; `AuthRead` sets one and empties the other. `AuthPlanned` is what
  `d.Get` returns in an update, where an attribute that the block lacks keeps the state's
  value, and `AuthString` which of the two UpdateUser repeats.
- `ImportUser` is `terraform import`: an empty state, read.

Fairness: weak, for the same reason as in Grants.

### Settings

Three resources of one shape: statements that set values, a read, statements that reset
them. What differs is kept apart by `Kind`. A `mysql_global_variable` reads back after
it has set (`ReadBack`). An error of the query clears the id; one before it
(`EndUnread`) keeps the id, and a new resource is saved tainted: the next run resets it
and sets it again (`Replace`). Its Delete returns no error of its statement
(`StatementFailure`), but every handler returns that of `getDatabaseFromMeta`
(`NoDatabase`). A `mysql_rds_config` is two statements in every handler. A `mysql_ti_config`
learns that a value was refused from SHOW WARNINGS (`ShowWarnings`), a statement of its
own: `Take` gives a statement the idle connection that was used last, or a new one, so it
may run on another connection than its SET CONFIG, or after another handler's statement
on the same one; `warned` are the connections whose last statement left something to
show. `SetWarns` is a SET CONFIG that an instance refuses, `SetFails` an error or a lost
reply.

A setting of TiKV or PD has a value on each instance of a cluster. A block is about one
(`at`) or all; `Targets` are the instances a statement sets. `Read` scans the first row of
SHOW CONFIG, of the instance that the id names or of the first instance there is
(`Shown`), and makes everything empty when there is no row (`Blank`): terraform then plans
to replace the resource, and DeleteConfigVariable refuses the empty type ("stuck").
Instances leave and join (`Leave`, `Join`). The last part of the id is the instance of the
last success: a change of `instance` that fails leaves the old one.

`Stored` is how the server shows a value, `Default` what a reset goes back to, `Kept` the
settings that the table of defaults exempts, `Untabled` those it does not have, which are
reset to the empty string. `Import` is `terraform import`. `Product` is what a behaviour
is about: a TiDB, Amazon's MySQL, a cluster of two instances, one with an untabled setting.

The model has at most two connections, since `database/sql` keeps two idle ones.
Fairness: weak; a handler that waits for a connection waits for finitely many statements.

### Objects

The resources that one statement makes and one unmakes: databases, roles, `mysql_sql`,
default roles, with the account and the grant of roles that these stand on. `server` is
what there is; `CanMake`, `CanAlter`, `CanDrop`, `Made`, `Unmade` are the server's
statements; the `Read...` operators are the Read handlers, `Planned` and `Save` what the
SDK writes. Terraform makes a block after those it refers to and unmakes it before them:
`Ready`, `Released`, and `Skip` when one of them has failed.

- `Create`, `Update`, `Delete` are one statement; a database and a grant are read after it
  (`ReadBack`). Each has its failures: refused, run with the reply lost, failed read.
  A database whose read failed is saved, tainted, and dropped in the next run.
- `Refresh`: any error of a role's SHOW GRANTS takes the role for gone ("unread").
- `Crash` is the end of the process before or after a statement; `Outside` is somebody
  who drops a database, role or account between runs; `Import` a `terraform import`.

A behaviour is about one of `Worlds`: databases whose blocks may take one name, in
character sets whose default collation SHOW CREATE DATABASE prints or not; an account;
pairs of statements of `mysql_sql`. Fairness: weak, as in Grants.

### Provider

What a provider block becomes, over the processes that terraform starts one after another.
`ConfOf` is `providerConfigure`: the network, the address, the token and the plugins that
may log in, from the endpoint's scheme and the options (`Branch`, `Address`).
`ShouldUseProxy`, `Excludes` and `Route` are `shouldUseProxy` and `makeDialer`, on
endpoints and patterns as sequences of tokens; `FromEnvironment` and `Bypassed` are what
`golang.org/x/net/proxy` does when the provider does not use its proxy.

`Call` is a handler's first connection, under `createNewConnection` with its retries;
`Reconnect` one that the pool makes later by itself. `Dial`, `Reply`, `ReadReply` are the
tunnel through an HTTP or a SOCKS5 proxy, either of which may stop answering (`silent`);
`Greet` is the server, which speaks first: a greeting that has arrived behind the reply of
an HTTP proxy goes into the `bufio.Reader` and is lost (`Swallowed`), while the SOCKS5
dialer reads no more than the reply. `Login` succeeds if the server accepts plugin and
token; `Expire` ends the token's life. `Timeout` is that of `RetryContext`, wherever the
first connection waits. `Cancel` is the end of a handler's context, which the driver sees
only when the connection is dialed, since `RegisterDialContext` gives the context to no
dialer: of the pool's connections it ends a handshake and no tunnel (`Hangs`). An RDS Data API client has neither dialer
nor retry (`CallApi`).

Fairness: weak for a step that can be taken, for the timers and for the next run of
terraform; none for somebody who kills a run that hangs.

## 3. The runs

| Run | Question | Result |
|---|---|---|
| `keyed_mutex` | Does the code of the keyed mutex implement the per-key lock, in every interleaving? Two callers, two keys, and a mutex more than keys, so that a second mutex for a key could be made. | holds |
| `connections` | Two handlers, a server on either side of each version bound, that comes, goes and refuses: pools, `sql_mode`, panics, and does every handler get an answer? | holds |
| `grants_conflict` | Two blocks for one row and one beside it, lists that share privileges and lists that do not; runs, edits, imports, one failure of any kind but a lost reply to a REVOKE: what can come between a check and its GRANT, and what lets a second block own a row? Only an update. | holds |
| `grants_live` | Lists whose spellings differ, one that small letters put in another order, doubled names, ALL PRIVILEGES, updates, replacements and deletions on a server that prints the rows of host `%` for every host, with a refused statement, a failed read-back or a lost reply of a REVOKE: do state and server agree after runs without failures, do all operations end, do repeated runs converge? | holds |
| `grants_role_and_user` | As `grants_conflict`, a role and a user that are one account | violated |
| `grants_update_gap` | As `grants_conflict`, an update that empties the row between its statements | violated |
| `grants_destroy` | As `grants_live`, ALL PRIVILEGES WITH GRANT OPTION | violated |
| `users` | A password set by `mysql_user_password` and a declared one, an authentication string in either form, an AAD user, tls_option, limits, two passwords, imports, at a version of each kind, with two failures | holds |
| `settings` | Two TiKV settings (one without a default) and a global variable whose declared form the server does not show, the two RDS settings, a setting of all or one of two instances, one that the table of defaults does not have; imports, two failures of different kinds, instances that leave and join among them: do removed resources leave nothing behind, and do repeated runs converge? | holds |
| `objects` | Two databases, an account with two roles, two scripts, with one failure, crash or interference: is what is declared ever dropped, is anything forgotten, do runs converge? | holds |
| `provider` | Endpoints of every scheme, with and without a port, every form of `no_proxy` pattern, four environments, two failures: which way do connections go, when are they refused, does making one end, does the next process connect? | holds |
| `users_switch` | As `users`, `password_wo` replaced by `plaintext_password` | violated |

Bounds. Two handlers are enough for a conflict over a key, a row or the cache;
the third resource of Grants shares the key but not the row (or the row's name
but not its host), so that neither key nor row stands for the other. Two edits
give create, update or replacement, and delete of one resource with another
resource's operation in between; an operation that follows a failure needs no
edit. One failure per behaviour (two in `users`, `settings` and `provider`) is what each
property speaks of: a failure and what concurrent and later operations make of what it
left. Runs of terraform are not bounded, nor are processes of the provider. The versions in `users` differ in every comparison the code makes.
Symmetry is not used, as the resources differ in what they declare.

In `connections` and `provider` one retry stands for all: a second one starts from the
same state. `SecondOwnerByUpdate` says that one row has one owner unless an update of the
other block has emptied it; `grants_update_gap` shows such an update. `StateIsTrue`,
`DestroyLeavesNothing`, `DestroyResets` and `PasswordIsDeclared` are stated for runs
without failures. `Converges` of Grants asks of a list that never equals what SHOW GRANTS
prints (`Respelled`) that it is on the server whenever a run has ended, since every run
revokes part of it and grants it again; without this exception TLC finds the violation.
`ConnectEnds` excepts the pool's connections behind a proxy that does not answer (`Hangs`).
`NoOrphan` of Users and `TlsConverges` are stated for servers from 5.7.6 on: before that a refused second statement
of `CreateUser` leaves an account that no state knows.

Every property has a mutant in `PROJECT.json`: a plausible error in the code for
which the same run reports the property violated.

## 4. Where code and text disagree

1. The lock of `CreateGrant` is keyed by how the block names the account, so a role
   `u` and the user `u`@`%` do not exclude each other (`grants_role_and_user`).
2. `UpdateGrant` takes no lock; a Create may find the row empty between its REVOKE
   and its GRANT (`grants_update_gap`).
3. Destroying ALL PRIVILEGES with `grant = true` leaves GRANT OPTION
   (`grants_destroy`).
4. `password_wo` replaced by `plaintext_password` empties the password
   (`users_switch`).

Met while modelling, with no run of their own:

- `normalizePerms` sorts with regard to case (`resource_grant.go:1161`) before lists are
  compared without (1175). A list such as `["select", "UPDATE"]`, in the order UPDATE,
  select, is never equal to SELECT, UPDATE of SHOW GRANTS, which then is the state (761):
  every run plans an update, revokes SELECT and grants the list again.
- After a crash or a lost reply of a GRANT the row is in no state, and every later
  Create is refused with "already has": `Converges` is checked without these two.
- After a lost reply of a REVOKE the resource stays in the state with an empty row,
  so that another block may take it: `grants_conflict` leaves this failure out.
- `max_open_conns` bounds the connections of one pool, and a configuration has two
  (`TwoPools`): the DSN that keys the cache is computed before `sql_mode` is put into it.
- `max_open_conns` of 0 or less means 1 in `configureConnectionPool`, and no limit
  in `website/docs/index.html.markdown:280`.
- A failed change of a password, or of a limit to or from 0, is never retried: the
  SDK saves the planned value and Read does not correct it. `retain_old_password`
  on a server without two passwords is such a failure.
- A `mysql_user_password` without a password generates one in every run; its
  documentation says only when tainted.
- A `mysql_ti_config` whose value is refused may be saved as set, and another one blamed,
  when handlers share the pool. The next refresh corrects the first; the second is
  created again, or stays set without a state when its block is removed meanwhile.
- A `mysql_global_variable` whose first read fails before its query is tainted: the next run
  sets the default value and then the declared one again.
- After an error of DeleteGlobalVariable's statement, or of the second statement of
  CreateRDSConfig, a value may stay that no state knows.
- `ReadUserPassword` scans its two columns into each other's variables.
- Before 5.7.1 `ReadUser` finds an account by its name with any host.
- A `mysql_user_password` that names its user by a literal may lose its password to
  a concurrent change of `tls_option`.
- `plaintext_password` replaced by an authentication string empties the password as in 4,
  until the next run: the configurations of `users` do not contain this change.
- On a server, or a connection, that prints the text form a changed `auth_string_hex` is
  never applied: the state's `auth_string_hashed`, which an empty one in the block does not
  replace, comes first (`Overridden`).
- `mysql_ti_config`: `type` is validated ignoring case, and "TiKV" is refused by Read and
  Delete. A changed `instance` leaves the old one set. What an instance that is not the
  first refused, with the warning missed, is never noticed. An instance that is gone makes
  its resource stuck: it can be neither deleted nor replaced. A setting without a known
  default can never be destroyed, and its warning may be blamed on another handler in
  every run.
- `mysql_role`: any error of Read takes the role for gone; its next CREATE is refused for
  ever, and there is no importer.
- `mysql_default_roles` of an account that was dropped outside cannot be deleted. The
  check of the version is "greater than 8.0.0" for roles and "at least" for default roles.
- `mysql_database`: a failed read after CREATE saves the new database as tainted, and the
  next run drops it. An empty `default_character_set`, or an alias of one, is an update in
  every run.
- `mysql_sql` is never read: what is dropped outside stays in the state, and its
  `delete_sql` is refused in every run.
- `no_proxy`: of `aws://` and `azure://` endpoints the scheme is taken for the host, so
  nothing but `*` and wildcards excludes them. A pattern with a port needs the port written
  in the endpoint. A pattern with an inner `*` matches anywhere in the name. An excluded
  host falls back to `proxy.FromEnvironment`, so a SOCKS proxy of ALL_PROXY is still used,
  with its own NO_PROXY, which does not understand `*`, `.domain` or `host:port`.
  Connections of the Cloud SQL connector and of sockets never use the proxy.
- "Native" and "Cleartext" pass the validation of `authentication_plugin` and enable neither.
- An `https://` proxy is spoken to in plain text. The greeting of the server may be lost
  behind the reply of an HTTP proxy. A connection of the pool behind a proxy that does not
  answer, HTTP or SOCKS5, hangs: the registered dialer drops the context
  (`provider.go:667`), neither dialer has a deadline, and only `RetryContext` has a timeout.
- `RegisterDialContext`, `RegisterTLSConfig` and the Cloud SQL driver are registered for the
  process, whatever the number of provider blocks.

## 5. The proofs

For all constants that satisfy the modules' named assumptions (which say what the
constants are, and that `Nil` is none of them), TLAPS checks what follows. Where a theorem
has a hypothesis about the constants, the paragraph says why the code needs it, and
`MCGrants`, `MCUsers` and `MCProvider` have an ASSUME, `Hypotheses`, which TLC evaluates:
it says which instances satisfy the hypothesis. Those of the runs that hold satisfy what the
theorems about their properties ask for, and each run that finds a violation fails it.

`KeyedMutexProofs`, any callers, keys and mutexes. Exclusion is not inductive by itself:
it needs that the mutex a caller waits for is the one in the map. `IInv` adds to the types
that `km.mu` is held by exactly the caller that works on the map (`MuOwner`), that keys
have mutexes of their own (`OwnMutex`), and what a call's local pointer, the map and
`locked` say at each place of Lock and Unlock, among them that the mutex of a key is
locked while a caller is inside (`Places`). From it `MutualExclusion`, `NoPanic`,
`OneMutexPerKey`, and the safety part of the refinement, step by step.

`ConnectionsProofs`, any handlers, versions, limits. `IInv` adds to the types who holds
the mutex and that its DSN is still the configuration's (`MtxOwner`), that who connects
has missed (`Missed`), that a handler with a database has one of the pools (`HasDb`), that
a server that is gone after the first pool was counted (`Counted`), and `Progress`, the
heart of it: the making of the first pool writes the configuration, a second one is made
under the DSN written then, and once that is cached there is no third. From it `TwoPools`,
`SettledForGood`, `RightSqlMode` and `PanicNeedsFailure`.

`GrantsProofs`, any resources, lists, failures, crashes and number of runs: types
(with `PlanInv`: no handler works without the configuration or the state it uses, which
is what the typing of `server` needs), and `OnlyUpdatesInterfere`, under the assumption
`KeyAgreement` that blocks of one row lock one key. The argument is `LockInv`: a handler
from its check or REVOKE to its end has its key, so that only an update can change
a row that another handler has found empty. `grants_role_and_user` shows that the
assumption is needed. And `SecondOwnerByUpdate`, when no reply to a REVOKE is lost and no
row has more than two blocks (a third one may enter beside a second owner that is there
already). `OwnInv` carries it: while a Create is on its way to its check, another block
that is in the state, or about to be, keeps the row from being empty, from the refresh on
(`ReadInv`) until its REVOKE is done, and its key with it from there to the end of its state;
so a check that finds the row empty proves that the other block is in no state.

`StateIsTrue` and `DestroyLeavesNothing` are proved where every row has one block (`Alone`)
and no list WITH GRANT OPTION names all privileges (`Revocable`; without it
`grants_destroy` is the counterexample). `ExactInv` says, while nothing has failed, what the
row of a block has at each place of its handlers: exactly what the state declares up to the
REVOKE of an update, no more than the new block declares between it and the GRANT, nothing
between the check of a Create and its GRANT. Two clauses are what makes it inductive.
`ToRevoke` and `ToGrant` are differences of raw strings, and they come out right only
because the state that an update starts from names no privilege twice (`Once`): either the
refresh has just made its list from SHOW GRANTS, or the list pairs off, name by name, with
what SHOW GRANTS prints. And a delete leaves nothing because what the
state has is `Sound`: it names something, and never all privileges WITH GRANT OPTION, of
which REVOKE ALL PRIVILEGES would leave the option behind. A server that prints the rows of
host `%` for other hosts changes none of it.

`SingleOwner` and `CheckHolds`, which two runs refute, are proved where the runs' causes are
excluded: blocks of one row lock one key (`KeyAgreement`), no reply to a REVOKE is lost
(`Kept`) and some privilege is in every list (`Common`), in so many words and never hidden
behind ALL PRIVILEGES. Any number of blocks may be for one row, and crashes, lost replies of
GRANT and failed reads may happen. `OwnerInv` says that a row with privileges has the common
one, which no update revokes, so that no update empties a row that a check could then find
free, and that at most one block of a row is in the state or between its check and its end.
The lists `Overlapping` have such a privilege, those of `grants_update_gap` have none.

`UsersProofs`, any accounts, blocks, casts, server versions, failures and number of runs:
types, with `HandlerInv`, which says at each place of a handler that the block, the state
and the account it works with are there, and that an update is only at a statement that is
due; no step of one resource takes away what another one works with. And `NoOrphan`:
`BothInv` says that, from 5.7.6 on and while statements are at most refused, a row of
`mysql.user` and a state go together at every place of a handler, except for an AAD user
between CREATE USER and ALTER USER, when the row is there and the state not yet: whatever
becomes of the second statement, the id is set. `CreateLimits`, where it is not, is never
reached. A `mysql_user_password` neither makes nor drops a row. `PasswordStays` is proved
for configurations where every `mysql_user_password` refers to its user (`Depends`), as the
runs have it: `AuthInv` says that until this run sets a password, the authentication strings
of the state are what its refresh read, or none, and that an AAD user has none and its state
knows it for one. Hence what ALTER USER repeats is the password there is. Without the
reference a `mysql_user_password` could set one between the refresh and that statement.
`OldPasswordWorks`, whatever fails and whoever else is at work, by `RetainInv`: until the
statement that sets the password is past, the string that the refresh has read is the
password, that statement makes it the old one, and neither ALTER USER ... REQUIRE nor the
limits touch either; DISCARD OLD PASSWORD comes before. The hypothesis `RetainsPassword` is
that a block with `retain_old_password` has no authentication string, since ALTER USER ... AS
sets one and retains nothing.

`PasswordProofs`, which goes on from `UsersProofs`: `PasswordIsDeclared`, for any accounts,
blocks, versions, runs and edits. `PassInv` has two halves. An account that only its
`mysql_user` sets the password of is `Own`: from the refresh to the statement that is due,
the state remembers the password there is, and which block declared it (`Remembers`); from
then on it is the block's (`Meets`). What makes that inductive is `PassedOver`, that no
statement which is due is skipped, and `NotRefused`, that while nothing fails none is
refused: there are always two passwords to retain. The account of a `mysql_user_password` is
`Set`: its password is the one in that resource's state, and the account goes away only with
it. Two hypotheses are about the blocks that one resource may have in turn. `OneWay`: a
`password_wo_version` stands for one `password_wo`, which is not replaced by another
attribute, nor is `plaintext_password` by an authentication string, because `newpw` is then
the emptied attribute; and a block that retains a password follows one that declares one.
`PassAlone`: a `mysql_user_password` is alone, refers to its user, whose block declares no
password and does not change `aad_identity`, which would replace the account. TLC finds a
counterexample as soon as any one of these clauses is dropped; `users_switch` is that of
`password_wo`.

`ObjectsProofs`, any blocks, things, character sets, failures and number of runs: types,
with `At`, what a handler works with at each place of it. `NoOrphan`, by `KnownInv`: while no
reply is lost and no process dies, each thing on the server that somebody did not bring
there has a resource that holds it, or is reading it back and about to. `DeclaredSurvives`,
by `UniqueInv`: no two resources hold one thing. That rests on `TrueInv`: from its refresh
to the end of the run what a resource holds is there (a `mysql_sql`, which reads nothing,
always), so the CREATE of another resource for the same thing is refused, and whoever drops
a thing drops it from its own state.

`SettingsProofs`, any resources, settings, clusters, failures and number of runs: types.
`DataInv` has what a handler works with (`At`), among it that no Delete comes to a read
back, and that the first instance that is up exists, which is what a read of all instances
shows. `PoolInv` is the discipline of the pool: the idle connections are distinct, none of
them is a handler's, and no two handlers have one. Without the first two a connection
could be given twice, and the last could not be shown to survive `Take`. A refresh that
fails ends the run of everybody, with no statement under way, since nothing is applied
before everything is read (`Phase`). And `DestroyResets`, under the assumptions `InCluster`
(a block names an instance that there is) and `Apart` (who cannot be reset, being untabled,
is alone on its server: the warning of its reset may be read by another handler, whose
Delete then fails). `Clean` is what holds while nothing has failed: no connection has a
warning to show, and each resource is `Tidy`: its state names an instance of one of its
blocks, a value that is not the default one is where the blocks put it and has a state or
a Create under way, and what a Delete has passed is reset. The lists of `settings` satisfy
both assumptions. `Untainted` says that nothing is replaced while nothing fails: what is
deleted was removed from the configuration.

`ProviderProofs`, any blocks, servers, attempts and failures: types, where no endpoint is
spelled with a `//` that is not its scheme's and `rds_iam_auth` is on an endpoint of scheme
`aws` or none (`Spelled`). What is to be shown is that every branch of `providerConfigure`
trims the scheme and adds a port where there is none, so that the address is a host of a
block and a port. `RouteIsMeant`: `shouldUseProxy` decides from prefixes, suffixes and
colons, and the theorem says that the outcome is what its comments promise (`Names`: `*`
is every host, a network its addresses, `.d` is `d` and what is under it, `*.d` what is
under it, a pattern with a port that endpoint, anything else that host), for hosts and
patterns of any tokens in the documented forms (`Documented`). The lemmas it rests on say
what `IsSuffix` and the cutting of the port mean for any sequences. `ViaIs` carries the
decision to the connections that the pool makes again. And `DeniedWhenExpired`, under
`TokensWanted` (a server that takes tokens asks for an authentication plugin that the
provider allows for them, as those of `provider` do). `ConfInv`: every handler has the
configuration that the block makes, and who was denied stays denied until the next process.
The heart of it is `TokenMatches`: the driver adds a port to the address that
`providerConfigure` has already added one to, and the token is for, without changing it.

Model-checked only: liveness (`LockReturns`, `ConnectReturns`, `OperationsEnd`, the
`Converges` of Grants, Settings and Objects, `TlsConverges`, `ConnectEnds`, `ComesBack`)
and the liveness of the refinement, which need ENABLED and fairness. Every invariant and
every action property that a run checks has a theorem.

## 6. Not modelled, and the plan

Not modelled:

- the data sources: one query, nothing changes;
- of grants, column lists and rows that SHOW GRANTS splits in two; the parsing of
  SHOW GRANTS is a function of the rows. A block with neither user nor role makes
  `CreateGrant` and `DeleteGrant` dereference nil: in every state, so no model is needed;
- MariaDB, TiDB and MAX_STATEMENT_TIME in users, and the deprecated `password`, which goes
  the way of `plaintext_password`;
- pools of attempts that failed and of the RDS Data API, which are never closed: the
  memory of a process that ends with the command; the goroutine of `RetryContext` that may
  outlive a cancelled context, whose results nobody reads; an upgrade of the server under
  a cached version, which needs to happen within one command;
- `conn_params`, `max_conn_lifetime_sec` (a `Reconnect` of Provider), the environments of
  Azure, the reading of certificates: values that are passed on;
- the table of defaults of `mysql_ti_config`: data, of which Settings tells apart a value,
  IGNOREONDESTROY and none;
- formatting and quoting of statements.

Next, in this order:

1. `Grants`: a third block of one row in `SecondOwner`.
2. `Settings`: `DestroyResets` where blocks that cannot be reset share a server.
3. `Connections`: a server that is upgraded under the provider.

The runs are kept few enough to be repeated together in minutes: what a new module asks
is put into one run that must hold and, where code and documentation disagree, one more.

## 7. Running it

    tlc -config Users.cfg MCUsers        # the module and .cfg of each run: PROJECT.json
    tlapm GrantsProofs.tla
