# cpp-rest-server in TLA+

A verification project for the REST server in `src/src`: TLA+ modules, TLC
configurations that check them on small instances, and theorems checked by
TLAPS. The repository is the reference; every definition is translated from
its source, and `PROJECT.json` (`map`) names the lines each one stands for.

Run things in this directory: `tlc -workers 2 -config MCLoginRaces.cfg
MCLoginSessions`, `tlapm LoginSessionsProofs.tla`.

## 1. The system

A single process. `main.cpp` opens one SQLite database through a pool of SOCI
sessions and starts restinio on a pool of as many threads as there are
sessions. A thread takes a request, `Handler::operator()` extracts its
parameters (URL, query, JSON body, bearer token) and calls the route's
function, which leases a session, runs SQL statements and returns a JSON
answer or throws an `Error`, which the Handler turns into an answer.

| component | state | operations | interacts with |
|---|---|---|---|
| permission algebra, `user.hpp:17-50,123-203` | none: masks over CREATE/READ/UPDATE/DELETE, a matrix group x column | `check_instance_permissions`, `erase_unauthorized_fields`, `move_safely` | the matrix is read from `users_permissions` / `photos_permissions` |
| authorised model access, `user.hpp:53-205`, `actions.hpp:26-98` | the model, the parameters (group, user id, owner field), the matrix | construct, fetch rows, erase, write | every route that touches a model |
| login and bearer tokens, `actions.hpp:100-131`, `user.hpp:98-113` | `users`, `auth_tokens`, `refresh_tokens`; tokens held by clients | `login`, check of a token | `/login` and every route with a token |
| `/users` routes, `routes.hpp:26-74` | `users` | list, get, register, modify, delete | permission algebra, tokens |
| session pool and threads, `main.cpp`, `handler.hpp` | free sessions, threads | lease, give back, answer | every route with a database |
| `/photos` routes, `routes.hpp:83-184` | `photos`, picture files, thumbnails | list, get, upload, modify, delete | permission algebra, file system |
| models and constraints, `model/*.hpp`, `models.hpp` | fields, set or unset | `from_json`, `to_json`, `unsatisfied_constraints`, conversion from rows | `/users`, `/photos`, the Handler |
| Handler pipeline and errors, `handler.hpp`, `errors.hpp` | the parameters of the request | extract, convert, call, map errors to answers | every route |
| router and reference, `router.hpp` | route table and its descriptions, constant once the server runs | register, match | `/help`, `/help_json` |
| command line, `utils.hpp`, `main.cpp` | the arguments found so far | scan the words | `main` |
| refresh tokens in use, date and name helpers, vendored headers, examples | | | |

What is hard in it:

- *Interleaving.* Every SQL statement is its own transaction. A handler is a
  sequence of statements and all handlers share the database: login is
  SELECT, DELETE, INSERT, DELETE, INSERT; a bearer's request is the check of
  the token, the SELECT of the permissions, the statement itself.
- *Failure.* No busy timeout is set, so a statement that meets a locked
  database fails at once. `login` ignores the failures of its two DELETEs and
  throws on the others; the process may stop between any two statements.
- *Authority.* A caller acts with the rights of a group, of the owner, or of
  both, and losing one right on the instance has to drop that role's rights on
  the fields. The matrix comes from a table and is not initialised: cells that
  the table leaves out hold garbage.
- *Files against rows.* An upload stores the picture and the thumbnail before it
  inserts the row, a deletion removes them before it deletes the row, and
  nothing is undone when a later step is refused or fails. Ids are drawn at
  random and not checked before the file is written.
- *Check, then act.* A registration asks for each unique field in a SELECT of
  its own and inserts later; the owner of a photo is read in one statement and
  acted on in another.
- *Values in statements.* Every statement is text, and a value stands in it
  between two quotes as it is (`actions.hpp:23,56,74,91,105`). Free text is limited
  in its length only (`models.hpp:12,15,16,19,28,30`), so an apostrophe in it makes
  another statement, or none, of an INSERT or UPDATE.
- *Shared objects.* Every row of a list is fetched into the same model object,
  and a NULL column leaves the earlier value where it is.
- *Requests as they are sent.* A field that cannot be converted is dropped
  without a word, numbers lose their high bits, and the model passes through
  JSON once more before the route sees it; an upload is read by two scans that
  stop at different parts; PUT and POST refuse by different rules; which error
  a client gets depends on the order of the catch clauses.
- *Resources.* Sessions are leased by a blocking constructor and given back by
  a destructor, also when a route throws.

What makes each component correct is stated by the properties of section 3;
the hazards behind them, each at its line, are in `PROJECT.json` (`hazards`).

## 2. Modules

| module | models |
|---|---|
| `Permissions` | the permission algebra as operators on sets of rights |
| `ModelAccess` (EXTENDS `Permissions`) | one use of `AuthorizedModelAccess`, against any permission table |
| `LoginSessions` (EXTENDS `Permissions`) | threads running login and bearer requests over the shared tables |
| `Registration` (EXTENDS `Permissions`) | threads running POST, PUT and DELETE of `/users` over the table `users` |
| `Photos` (EXTENDS `Permissions`) | threads running POST, PUT and DELETE of `/photos` over the table `photos` and the files |
| `UserDirectory` | what `/users` promises: a directory in which each request takes effect at one moment or not at all; `Registration` implements it |
| `AccountServer` (EXTENDS `Registration`, INSTANCE `LoginSessions`) | `/users` requests and logins over one set of tables |
| `ConnectionPool` | threads and database sessions |
| `Models` | the fields of the models, their conversion from and to JSON, and every constraint, as operators |
| `Requests` (EXTENDS `Models`) | the process from its command line to the answer of a request: routes, parameters, errors |
| `MCModelAccess`, `MCLoginSessions`, `MCRegistration`, `MCAccountServer`, `MCPhotos`, `MCRequests` | values of the constants for TLC, among them the shipped permission tables |
| `ModelAccessProofs`, `LoginSessionsProofs`, `RegistrationProofs`, `DirectoryProofs`, `AccountServerProofs`, `PhotosProofs`, `ConnectionPoolProofs`, `RequestsProofs` | theorems |

The operators and actions named `...Swapped`, `Keep...`, `...Twice`, ... and
marked "Faulty variant" are bugs of the kind a change to the code could
introduce. Nothing uses them: each is put in the place of the definition that
follows it to see that a property notices (`mutants` in `PROJECT.json`).

*Values with a quote.* `Registration` and `Photos` have a set `Quoted` of values
that hold one. A statement that such a value becomes part of is not the one the
code spells out: it fails, or it leaves any table of a set `Garbled` and is
answered with success (`CheckUniqueSpliced`, `ExecSpliced`). `ExecInsert` and
`ExecUpdate` are the statements without one. What a quote does is left open on
purpose: it depends on the text, and the theorems hold for every `Garbled` whose
tables the columns allow. The properties of these modules exempt what such a
statement changes, and nothing else. It remains one statement about its own table,
since SQLite prepares the first statement of a text and SOCI executes no other.

In the other modules values hold no quote. This is an abstraction and not what
the code ensures: in `ModelAccess` the values written are those of the model; in
`LoginSessions` the SELECT of a login finds the row of the name that was sent, and
a PUT carries the group and no free text; in `Requests` a statement touches the row
it names, whatever text the body carries; in `AccountServer` the logins are those
of `LoginSessions`, while the requests may hold quotes as in `Registration`.

### Permissions

A mask of four bits is a set of rights, `bit_or` a union, `have_permissions`
the superset test. A model is a function from fields to values with `NULL`
for an unset optional. `AfterInstanceCheck` is what `check_instance_permissions`
leaves in the parameters (a group that lacks the right on the instance becomes
`OTHER`, an owner that lacks it forgets the owner field), `Surviving`/`Erased`
are `erase_unauthorized_fields` and `move_safely`.

### ModelAccess

State: the parameters, the model, the matrix and the control location of one
request. Actions follow the constructor (`LoadPerms`, `CheckInstance`) and then
`actions.hpp`: `FetchRow` per row of a SELECT into the shared model, `Write` for
insert, modify and delete. The permission table is any of a set of tables, cells
may be missing or NULL; a cell nobody wrote is any set of rights out of
`Garbage`, since the array is uninitialised. The rows of a SELECT are arbitrary.

### LoginSessions

| variable | code |
|---|---|
| `users[u]` | the row of `users` with id u, reduced to `permission_group` |
| `auth_tokens[u]`, `refresh_tokens[u]` | the rows with `user_id` u (primary key) |
| `pc`, `req`, `resp` | the handler on each thread: next statement, request and locals, answer |
| `issued` | tokens sent to clients |
| `lost`, `disturbed`, `faulted` | history variables, read by properties only |

Each statement of `login` is an action (`LoginSelect` ... `LoginInsertRefresh`);
a request with or without a token is `StartRequest`, `Grant`, `LoadPerms` and
one of the `Exec` actions. `StatementFails` is a `soci_error` that the Handler
answers, `DeleteFailureIgnored` one that `login` swallows, `Crash` a stop and
restart on the same tables.

Abstractions:

- A token is a signature over the claims `user_id` and `group_id` alone (no
  time, no nonce), so it is a function of the two; `auth_tokens[u]` is the
  group that the stored token claims, and `issued` holds pairs.
- A statement fails only while another handler is at the database: that is when
  SQLite reports that it is locked.
- `login` for a name without a row compares with the storage of an empty
  `std::optional`, which is undefined. It is modelled as the comparison failing
  or the process stopping (`Crash`); that it happens to hold is left out.
- User ids are never used again: `users.id` is AUTOINCREMENT, and no action
  inserts accounts here (that is `Registration`).
- Names hold no quote, and a PUT has the group alone.
- The matrix is a constant; nothing in the server writes it.

### Registration

| variable | code |
|---|---|
| `users[i]` | the row with id i, on the columns id, username, email, permission_group |
| `seq` | the row of `users` in `sqlite_sequence` |
| `pc`, `req`, `resp` | the handler on each thread, as above; `todo` and `dup` are the loop of `check_uniquenes_in_db` |
| `held`, `raced`, `faulted` | history variables, read by properties only |

`StartRegister`, `StartModify`, `StartDelete` are the routes up to their first
statement: what POST and PUT refuse, the id of the URL written into the model.
`CheckUnique` is one SELECT of the uniqueness check, `CheckDone` its end and the
group the route sets, `Grant` and `LoadPerms` the constructor of
`AuthorizedModelAccess`, `ExecInsert`, `ExecUpdate`, `ExecDelete` the statements,
`CheckUniqueSpliced` and `ExecSpliced` those a quote has changed; `Rejected` is what the table's NOT NULL and UNIQUE make of them.

Abstractions: a value is valid or not (`Invalid`), without saying by which
constraint; email stands for the columns that are neither unique nor read by
the server, which have its rights; the tokens stored at the start (`StoredTokens`) stay,
since no login runs here (`AccountServer` has them change); an id above `MaxId` is answered
like a full table; a row that a quote has made has no id above `seq`; the process
does not stop, since each handler writes with
one statement. Ids are not cut to 32 bits (`Requests` has that).

### UserDirectory

`accounts` and `last` are the directory, `state` and `ask` each client's request.
A registration, a modification or a deletion happens in one step with its
outcome, or is refused, and nothing is said about why. `Registration!Directory`
maps the table to `accounts`, the counter to `last`, and a handler to "pending"
until its INSERT, UPDATE or DELETE, which is the step at which the request takes
effect; every other statement is a stutter. `Garble` is what the directory lets a
request with a quote do: anything that leaves names and e-mails distinct. A client that is answered with an
error may therefore rely on nothing having been changed.

### AccountServer

`RequestStep` is a step of `Registration` by a thread of its own, sent with any
token a login has handed out; `LoginStep` is a step of `LoginSessions` by the
others. The accounts are one variable: `LoginSessions` sees of them the group
alone (`Groups`). What neither module has by itself is the life of an id: a
login that has read an account stores its token even if a DELETE takes the
account away meanwhile, and the token stays. The history variable `seen` holds the groups
the account of a login has had since the login began.

### Photos

| variable | code |
|---|---|
| `photos[i]` | the row with id i; title stands for category and description |
| `files[<<i, e>>]`, `thumbnails[i]` | `static/photos/<i><e>`, `static/photos/thumbnails/<i>.jpg`: the content, or that of the picture the thumbnail was made from |
| `auth_tokens` | the stored tokens; `LoginElsewhere` is a login that replaces one |
| `pc`, `req`, `resp` | the handler on each thread |
| `uploaded`, `drawn`, `exempt`, `removed`, `abandoned` | history variables; `exempt` has the ids that were drawn more than once and those of the rows that a statement a quote has changed has changed or was to insert, and is also read by the bound in `StartUpload` |

An upload is `StartUpload` (the id is drawn), `GrantUpload`, `StoreFile`,
`Convert`, `Access`, `ExecInsert`; a modification and a deletion are
`ReadAccess`, `Select`, for a deletion `RemoveFile` and `RemoveThumbnail`, then
`Access` and the statement, which is `ExecSpliced` if a title with a quote is part of
its text. `OpenFails` and `RemoveFails` are exceptions of the
file operations. A write that is cut short (`Cut`) throws nothing, because the
stream throws on failbit and a failed write sets badbit; a failing `convert` is
ignored by the code.

Abstractions: the constructor of `AuthorizedModelAccess` reads two tables, one of
which nothing writes, and is one step. A row whose extension the caller may not
read would make the deletion dereference an empty `std::optional`; every group
of the shipped table may read it. Bound: no id is drawn that is exempt
already, so none a third time.

### Models and Requests

`Models` writes each model of `models.hpp` as a sequence of fields with type and
constraints, in the order of `REFL_AUTO`. A string is a record of what
conversions and constraints look at (its length, the kinds of its characters,
the number or date it reads as, whether it is an address, and the word where it
is compared). A part of an upload says whether `json` is what follows the first
`name="` of one of its headers (`begins_json`), which is all that
`parse_json_field_multiform` looks at, so that a part `json2` is taken for the part
`json`. Integers are cut to the `2 * Half` values of an
`int32_t` where the code stores one (`Half` is 2^31 there), and `Between` compares with an unsigned type, as the code does.

| variable of `Requests` | code |
|---|---|
| `phase`, `argv`, `it`, `args` | `main` and the loop of `parse_cmdline_args` |
| `served`, `registered_routes_info` | the router and the list `/help_json` prints |
| `tables` | the ids of the rows of `users` and `photos` |
| `pc`, `req`, `model`, `answer` | the Handler: the request, `pars`, the answer |
| `written`, `failed` | history variables, read by properties only |

`ScanWord` is one turn of the loop, `Scanned`, `OpenSessions`, `RegisterRoute` and
`Run` the rest of `main`. `Receive`, `Extract` and `Convert` are the Handler up to
the call of the route; each route is an action that ends in `Throw`, `Return` or
`ReturnHaving`, and `Caught` has the catch clauses. `Stop` is undefined behaviour
that may end the process: `back()` of an empty list, and the password of a login
whose name has no row.

Abstractions: one request is followed at a time, since what concurrent handlers
do to the tables is the subject of the other modules; a caller may be refused
for lack of rights at every access (who is, is `ModelAccess`); a statement may
fail; a file operation may fail; the strings sent hold no quote. Floating-point
numbers in JSON are left out.
The route table has no GET with parameters, so the conversion of a query is not
modelled.

### ConnectionPool

`free` are the pool's flags, `db[t]` is the session object in the route's
scope. `Lease` is its constructor (the first free entry, enabled only if there
is one), `Return` and `Throw` the two ways its destructor runs.
`AnswerWithoutSession` are the routes and the early errors that come before it.

## 3. Runs

| run | instance | checks |
|---|---|---|
| `model_access` | two values, two rows, four permission tables (shipped, uneven, owner-only, with NULL), every caller and request | `TypeOK`, `ReadsExactly`, `WritesExactly`, `RefusedOnlyIfHidden` |
| `login_races` | three threads, one account, failures and crashes, login and GET | `TypeOK`, `TokenKept`, `UndisturbedLogin` |
| `accounts` | two threads, an administrator and a user, login, PUT of the group and DELETE | `UndisturbedLogin`, `AccountsChangeByAuthority` |
| `session_pool` | four threads, four sessions (`main.cpp` sizes both pools alike) | `TypeOK`, `SessionsAccounted`, `NeverWaits`, `EveryRequestAnswered` |
| `registration_races` | two threads, two accounts and two ids to give, registrations of free and taken names and deletions | `TypeOK`, `FailsOnlyIfTaken`, `NewAccounts`, `ImplementsDirectory` |
| `account_changes` | two threads, PUT of every field by owner, administrator, other user and guest, a body with a quote, registrations | `AccountsChangeByRight`, `ImplementsDirectory` |
| `account_server` | one handler of `/users` beside a login, two accounts and an id to give | `NewAccountsInheritNothing`, `TokensClaimRecentGroups` |
| `photo_files` | two threads, one id, every request and caller, a title with a quote, failures, crashes, logins | `TypeOK`, `FileMatchesRow`, `DeletionComplete`, `LeftoversAreUploads`, `PhotosChangeByRight` |
| `photo_owners` | two threads, two photos of two owners, modifications and deletions, a title with a quote | `PhotosChangeByRight` |
| `requests` | integers of three bits, command lines of up to five words, every route with bodies, ids and tokens of every kind | `TypeOK`, `ArgumentsTaken`, `ReadAsSent`, `AcceptedAsListed`, `BlameFits`, `PartsFound`, `OneRowOrNothing`, `MissingRowsAreTold` |
| `orphan_tokens` (violation) | one account that logs in and deletes itself | `TokensHaveAccounts` |
| `refused_deletion` (violation) | deletions of two photos | `FilesGoByRight` |

- `ReadsExactly`, `WritesExactly`: an answer holds exactly the readable part of
  each row, and a statement uses exactly the fields the caller has the right on,
  stated against a definition of "has the right" that is independent of the
  order in which the code drops and merges rights.
- `RefusedOnlyIfHidden`: who has the right on the instance and on a field of
  every row is not refused.
- `TokenKept`: concurrent logins of one user never leave the user without a
  stored token, unless one stands, or was cut off, between DELETE and INSERT.
- `UndisturbedLogin`: a login that nobody interferes with succeeds whatever
  rows cut-off logins left behind, and its token is the stored one and claims
  the account's group.
- `AccountsChangeByAuthority` (action property): a group changes only by a
  bearer of an administrator's token and an account goes only by its own, with
  the token stored at that moment unless a login of the bearer removed it
  between check and statement.
- `FailsOnlyIfTaken`: a registration without quotes names as duplicates only fields whose value
  some account held while it ran, and it fails at its INSERT only if a statement
  failed, ids have run out or another handler took a value after its check.
- `NewAccounts` (action property): an account that appears has an id no account
  ever had and the group `user`, whatever group or id the body names and whoever
  sends it, and belongs to a registration that is answered with success; except
  in the step of a statement that a quote has changed (`ByQuote`), which may make
  any account.
- `AccountsChangeByRight` (action property): an account changes only by a request
  whose URL names it, in the fields its sender has the right on and to the values
  it sent; with the same exception.
- `ImplementsDirectory` (refinement): every behaviour of the handlers is one of
  the atomic `UserDirectory`, in which names and e-mails are unique at any moment.
- `NewAccountsInheritNothing` (action property): when an account appears, no token
  that names it is stored or with a client, and no login under way will store
  one, although logins and deletions leave tokens of accounts that are gone; with
  the exception of `ByQuote`, since such a statement may give an id again.
- `TokensClaimRecentGroups` (action property): the token a login stores, and the
  one it answers with, claim a group the account had at some moment of that very
  login, whoever regroups or deletes the account between its statements. The
  group may be the old one when the new one is already there (the SELECT and the
  INSERT are three statements apart); that it cannot be older is the point.
- `FileMatchesRow`: every row has the picture of the upload that made it, and a
  thumbnail of that picture unless `convert` failed, except for an id that was
  drawn twice or whose row a quote has reached (`exempt`), and once a deletion has
  reached the files. A write that a full disk cuts short leaves a picture that is
  cut, which the property has to allow.
- `DeletionComplete`: a deletion that is answered with success leaves neither the
  row nor a file, whatever else is under way for the photo, if its id is not exempt.
- `LeftoversAreUploads`: files without a row come from uploads that are running
  or that were refused, failed or cut off after storing the picture, except for
  exempt ids.
- `PhotosChangeByRight` (action property): as for accounts, with the owner that
  the row has at that moment; a new row is owned by its sender. Rows that a
  statement changes whose text a quote has changed are exempt from that step on.
- `ArgumentsTaken`: the last occurrence of each option counts, whatever word
  follows it, and whoever asks for help gets the usage and no server.
- `ReadAsSent`: a route gets in each field what the body says for it: nothing is
  lost or appears on the way through JSON, what does not fit is left out, and a
  number keeps its low bits.
- `AcceptedAsListed`: what POST and PUT accept meets, in every field, the
  constraints the reference lists, read as their descriptions say; a POST has
  the required ones. For `ValidPassword` and `ISOdate` the code asks for more than
  the description, which is not an acceptance of anything unlisted.
- `BlameFits`: 500 means that a statement, a file or a token's text failed, or
  the JSON of an upload; 404 that something is not there; 403 that an accepted
  caller lacks a right (or logs in twice); 400 is never the answer to a GET by
  an accepted caller.
- `PartsFound`: an upload is refused for its parts only if one is missing, in
  whatever order they come, or if another file, or a part whose name only begins
  with `json`, comes before the one that counts.
- `OneRowOrNothing`: only a request answered with success changes rows, and only
  the row of its URL, although the id goes through types of two signs.
- `MissingRowsAreTold`: success means that the row was there, with the exceptions
  the property names; nothing but `back()` on an empty list and the login of an
  unknown name stops the server.
- `SessionsAccounted`, `NeverWaits`, `EveryRequestAnswered`: sessions are
  exclusive and never lost, nobody waits, everybody is answered.

*Bounds.* Two handlers are enough for every pairwise race of statements;
`login_races` has three, so that a third login meets what the first two left.
Every interference is per account, and across accounts only through the
bearer's rights, hence one account there and two in `accounts`. Two rows are
what it takes for a value to pass from one row to the next. `Failing` switches
failures off in `accounts`, where they would only add states: what they do to a
login is the question of `login_races`. Thread symmetry is used in runs of
safety properties only.

Registrations race over the values of one or two accounts, so two threads, two
names and two e-mails give every pair of equal and different requests; four ids
leave room for an account that is deleted and for two that are new.
`account_changes` has no failures, since a statement that fails changes nothing.
`Garbled` has one table in each run: in `account_changes` and `account_server` one
that regroups an account, removes one and adds one; in `photo_files` the empty one,
in `photo_owners` the one with owners and titles exchanged. That is enough for TLC
to take the step and to go on from a table no request asked for; the theorems have
all tables.
In `photo_files` all requests meet on one id, which is where files and row of one
photo can come apart; uploads may draw it twice. Two photos are needed only
where the owner of one acts on the other (`photo_owners`).

`account_server` has one thread of each kind: a login and a request interleave
at every pair of statements, and the third id is the one a deleted account could
have left. Three bits in `requests` are the least in which a 64-bit number, an
unsigned id and a signed id differ (5 is -3); the rows have ids 1 and 2, ids of
URLs go to 8, one more than fits. Five words hold two options with values and
the program's name. The bodies vary one field of a valid and of an empty body
over every kind of JSON value and text.

*Fairness.* `ConnectionPool!FairSpec` assumes weak fairness of each thread's
own steps once it has a request: the operating system schedules every thread,
and nothing but the lease blocks one. No request need ever arrive, and nothing
is assumed about who gets a session first; with as many sessions as threads
that is not needed. No other module has liveness properties.

*Deadlock* is checked except in `model_access`, where a request ends, and in
`requests`, where the process exits after printing its usage, stops when a
session cannot be opened, or is ended by undefined behaviour.

## 4. Where the code and its documents differ

- `orphan_tokens`: db.sqlite declares a foreign key from `auth_tokens` to
  `users` (`db.sqlite:32`), but the sessions are opened without `PRAGMA
  foreign_keys` and `DELETE /users/id` deletes from `users` only. The token of a
  deleted account stays stored and is accepted.
- `refused_deletion`: `DELETE /photos/id` removes the picture and the thumbnail
  (`routes.hpp:172`) for whoever may read the photo, and asks for the right to
  delete only afterwards; the refusal names the right that was required
  (`user.hpp:78`) when the files are gone and the row stays.

Met while modelling, without a run of their own: `login` ignores every
`soci_error` of its DELETEs, where the comment says "if not exists"
(`actions.hpp:115`); the model of a photo declares `uploaded_by` unique
(`models.hpp:31`), which nothing checks and no user with two photos satisfies;
the usage names `-a` for the address (`utils.hpp:69`), the scan takes `-i`
(`utils.hpp:83`); and a password may hold letters and digits only, which its
description (`constraint.hpp:88`) leaves out.

## 5. Theorems

For every value of the constants that satisfies the modules' assumptions:

| theorem | inductive invariant |
|---|---|
| `LoginSessionsProofs!TypeTheorem` | `TInv`: `TypeOK` is not inductive, since a login writes `req.group` into the tables; `LocalsOK` says a handler past its SELECT, and a bearer's token, carry a stored group |
| `LoginSessionsProofs!TokenKeptTheorem` | `KeptInv`: a login between its statements owes the row; an INSERT that meets a row leaves it in place |
| `LoginSessionsProofs!UndisturbedTheorem` | `AllLogins`: at every statement of an undisturbed login, what the tables hold for its user, and that no other login of the user is under way |
| `LoginSessionsProofs!AuthorityTheorem` | `AInv`: from the check to the statement the token is the stored one or the handler is disturbed, and only admitted requests reach their statement |
| `ModelAccessProofs!TypeTheorem`, `ReadsExactlyTheorem`, `WritesExactlyTheorem`, `RefusalTheorem` | the parameters after the instance check give the same rights on every field as the reference definition; the erased model is the view |
| `RegistrationProofs!TypeTheorem`, `AccountsChangeByRightTheorem`, `NewAccountsTheorem` | `TInv`: `TypeOK` with what the place of a handler says of its request: the id in the model of a PUT or DELETE is the URL's, a DELETE sets nothing else, past the check of uniqueness the group is "user", and at its statement the access object has refused nothing |
| `RegistrationProofs!FailsOnlyIfTakenTheorem` | `WInv`: while a registration runs every value that is taken is recorded in `held`, and one the handler has checked and found free is recorded in `raced`; a statement of another thread keeps this because `Observe` looks at the table after it |
| `DirectoryProofs!ImplementsDirectoryTheorem` | one lemma per action: the statement of a request is the action of the directory, everything else a stutter; `TInv` says that the model at the INSERT is the one that was asked for; a statement that a quote has changed is `Garble` |
| `PhotosProofs!TypeTheorem` | `TInv`: `TypeOK` with what the place of a handler says of its request: an upload has its id, extension and picture, a modification and a deletion have the id of the URL in the model |
| `PhotosProofs!DeletionCompleteTheorem`, `LeftoversTheorem`, `FileMatchesRowTheorem` | `PInv`: the life of an id that is not exempt. While its upload runs there is no row and nobody else is concerned with the id; then there is a row with its files, or the upload is abandoned; a deletion that has found the row keeps what it has removed removed, because nothing can be stored under the id again. A statement that a quote has changed exempts the ids it reaches and leaves the rows of all others as they were |
| `PhotosProofs!PhotosChangeByRightTheorem` | `OInv`: the owner in the model of a modification or a deletion is none or that of the row, although it was read in an earlier statement, because the row is not replaced and its owner not updated; the model of an upload names its sender |
| `AccountServerProofs!TokensClaimRecentGroupsTheorem` | `Claims`, a part of `SInv`: what a login past its SELECT holds of its account is among the groups in `seen`, and so is what it stores and answers with; a request adds to `seen` what it makes of the account, a login reads what is there |
| `AccountServerProofs!NewAccountsInheritNothingTheorem` | `SInv`: the invariants `TInv` of the two sides and `SpentIds`: every id that a token names, stored or handed out or about to be stored, was given to an account before. No step takes an id back and a new account has one above `seq`, so nothing names it |
| `AccountServerProofs!ServerChangesByRightTheorem`, `ServerFailsOnlyIfTakenTheorem`, `ServerImplementsDirectoryTheorem` | `SInv`: every step of the server is a step of `Registration` or leaves all of its variables but `auth_tokens` alone, and nothing that is proved of the requests relies on a stored token staying |
| `RequestsProofs!TypeTheorem`, `ReadAsSentTheorem` | `TInv`: `TypeOK` with what the places of process and handler say of the rest: the routes registered so far, the route that was matched, and from the conversion on that the model is what `to_model` makes of the body. `ReadAsSent` then is a statement about the operators of `Models`, field by field |
| `RequestsProofs!ArgumentsTakenTheorem` | `LoopInv`: before the i-th word each parameter has the word after the last of its flags so far; the property is that invariant at the end of the words |
| `RequestsProofs!AcceptedAsListedTheorem`, `BlameFitsTheorem`, `PartsFoundTheorem`, `OneRowOrNothingTheorem`, `MissingRowsAreToldTheorem` | `AnswerInv`: the properties, with `Accepted` for a model that was let pass. Each route is shown to end in one of the ways `Ending` lists, the exceptions it may throw and under which conditions, the rows it may leave; what `Caught` makes of each way satisfies the properties |
| `ConnectionPoolProofs!TypeTheorem`, `AccountedTheorem`, `NeverWaitsTheorem` | flags, holders and locations agree; a waiting thread holds nothing, so by counting a session is free |

`AuthorityTheorem` assumes `RightsOnAccounts` of the matrix: only `admin` may
update `permission_group`, only the owner may delete by id. `MCLoginSessions`
asserts that the shipped matrix satisfies it. `AccountsChangeByRightTheorem`
assumes `NothingForOther` (a caller who has lost its group, `other`, has no right
on a field); `NewAccountsTheorem` and `FailsOnlyIfTakenTheorem` assume
`RightsOnNewAccounts` (nobody creates as an owner or gives an id, and who may set
one field of a new account may set its group and the required ones). Both are
needed: with a matrix that lets a body give the id, a registration may fill the
id of a deleted account. `MCRegistration` asserts both of the shipped matrix.
That the accounts there are when the server starts, and those of `Garbled`, satisfy
what the columns of the table declare (`IsTable`) is part of
`RegistrationAssumption`; nothing else is assumed of a statement that a quote has
changed, and the theorems cover every behaviour that contains such statements.

The theorems of `PhotosProofs` but the first assume `RightsOnPhotos`: the right
to delete is on the id only, the extension is not updated, and who reads any
field reads the extension. Each part is needed, with the code as it is: the
model of a deletion names the owner beside the id, so with the right on that
field too the statement is no SQL, and with the right on that field alone it
deletes every photo of the owner; and the file that is removed is named by the
extension the handler has read. `PhotosChangeByRightTheorem` also assumes
`RightsOnRows`: `other` has no right on a field, guests create nothing, who
creates sets the owner, and the owner is not updated. `MCPhotos` asserts both of
the shipped matrix. The bound of `StartUpload` (an id is drawn at most twice) is
of no consequence, since the theorems speak of ids that are not exempt. Of the tables
in `Garbled` they assume `IsTable` alone.

`NewAccountsInheritNothingTheorem` and the other theorems of `AccountServerProofs`
assume what their counterparts without logins do; `TokensClaimRecentGroupsTheorem`
assumes nothing of the permission table. That they hold of `LoginSessions` and
`Registration` together is not a matter of course: the lemmas of
`LoginSessionsProofs` are used through an instance whose table is `Groups(users)`,
and what a request does to that table must keep their invariant (`OutsideTInv`).
The theorems of `RequestsProofs` assume nothing beyond the constants' types: whether a caller is let in is left open in `Requests`.

The other assumptions (`SessionAssumption`, `PoolAssumption`,
`RegistrationAssumption`, `PhotoAssumption`, `ServerAssumption`,
`RequestsAssumption`, `ModelsAssumption` and those of `Permissions` and
`ModelAccess`) only say what kind of value a constant has: `ServerAssumption`
that requests can carry every token a login can hand out, `RequestsAssumption`
and `ModelsAssumption` of what form the texts and requests are, that `NULL` is
none of the values, and that rows are stored under ids an `int32_t` holds. The
integers may have any even number of values from four on, 2^32 in the code.

Every safety property of the passing runs is stated by a theorem. Only
model-checked: `EveryRequestAnswered` (liveness under fairness is out of the
prover's reach), the violations, and everything TLC says of the faulty variants.

## 6. Not modelled

- The vendored headers in `3rd_party` (5,650 of the 7,635 lines of the sources):
  third-party code; of it the models use that reflection gives the fields in
  their order and that the groups of the enumeration are counted.
- The number of the port: `strtoul` and restinio's cut to 16 bits. Nothing else
  in the server reads it.
- The query of a GET (`try_set_field_value`) and rows written from a model
  (`to_base`): no registered route reaches them. The same holds for
  `extract_json_field`, `get_safely`, `without_owner` and `without_group`.
- The HTML of the reference, the printing of models and permissions, dates and
  type names: formatting.
- A `permission_group` outside the enumeration (an administrator may store one)
  makes `user.hpp:124` read memory outside the matrix: there is no outcome to
  state a property about. Photos whose id was drawn twice are exempt from the
  properties of `Photos`: the second upload truncates the first one's file.
- What a statement does whose text a quote has changed: it may leave any table, and
  the properties exempt it. The same holds for what the matrix is read as in cells
  that the table leaves out (any rights of `Garbage`), for the picture of a short
  write (`Cut`), for a login whose failed DELETE was ignored (`faulted`), and for
  the page of a photo that is not there. These are in the models, and the hazards
  of `PROJECT.json` say why no property is about them.
- Refresh tokens in use: stored at login, read by no route.
- The stand-alone examples.

What a continuation could add: the pool composed with the handlers, and photos
beside the accounts that own them.
