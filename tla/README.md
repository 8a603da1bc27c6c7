# agy-account-rotator in TLA+

`agy-rotator` keeps a vault of Google accounts and hands them in turn to the
Antigravity CLI (`agy`): before every launch it swaps `agy`'s credential file,
and while `agy` runs, a local proxy swaps the bearer token of each request and
replays it with another account when Google answers 429. This directory holds
TLA+ modules of that program, TLC configurations that check them on small
instances, and proofs that TLAPS checks for every value of the constants.
Paths such as `engine.go:92` are below `src/`: `engine.go` is
`internal/rotate/engine.go`, `quota.go` is `internal/cloudcode/quota.go`,
`main.go` is `cmd/agy-rotator/main.go`, the others are in the package named
like them.

## The system

| Component | State it keeps | Operations | Modelled in |
|---|---|---|---|
| Rotation engine (`engine.go`, `detect.go`) | `state.json`: active account, round-robin cursor; per account failures, cooldown, revoked | `PickNext`, `Activate`, `ReportFailure`, `ReportSuccess`, `Classify`, `BackoffFor` | `Selection`, `Rotation`, `RotationTurns` |
| Vault commands (`main.go`, `wizard.go`) | `accounts/<slug>.json`, `config.json`, `quota-cache.json` | `add`, `use`, `remove`, `rotate`, `import`, `export`, `doctor`, `quota`, `set-mode`, `config` | `Rotation`, `Credentials`, `Settings` |
| Watcher (`watch.go:27-127`) | position and buffer in one of `agy`'s logs | follow the newest log, report failure lines | `LogTail`, `Rotation` |
| Quota poller (`watch.go:129-236`) | the settings it started with | ask for quotas, sum up, switch early | `Poller`, `QuotaGroups`, `Credentials`, `Rotation` |
| Proxy requests (`proxy.go:344-507`) | per request: attempt, account in use | `handleForwardRequest`, many at once | `ProxyRequests`, `Credentials` |
| Proxy daemon (`proxy.go`, `spawn.go`) | listener, `proxy.pid`, `lastActivity`, `activeConns`, `shutdownChan` | spawn, listen, serve, idle watchdog, `/shutdown`, `proxy stop` | `ProxyDaemon` |
| Certificate authority (`cert.go`) | `ca.pem`, `ca.key`, cache of leaf certificates | `LoadOrCreateCA`, `GetCertificate` | `CertAuthority` |
| Store (`store.go`) | all files | `WriteFileAtomic`, slugs, listing, defaults | `AtomicWrite`, `FileRegister`, `Settings`, `Credentials` |
| Launch shim (`main.go:39-55`) | the script beside `agy` | `prelaunch`, fallback without the proxy | `Launch`, `ProxyRequests` |
| Quota client (`quota.go`) | - | group and normalise an answer | `QuotaGroups` |
| Google OAuth client | - | refresh a token | `Credentials` (its outcomes) |
| Export and encryption | the envelope | what it takes from the vault | `Credentials` |
| History; status line, stats, notifications, completions, plugin, systemd unit | - | output and installation | not modelled |

No file is locked. Every writer of `state.json` loads the whole file, changes
it in memory and replaces it; a switch writes two files; an account is read,
refreshed at Google and written back. The hard behaviours follow from that: the
proxy, the watcher, the poller, a launch and a command interleave at every load
and save; a process is killed, or the power lost, between two writes; what was
read before a network call is used after it. Beside these there are index
arithmetic over a list that changes, retries, an idle watchdog, a shutdown
called from several goroutines, a log that is read while it is written,
truncated and removed, and a loop over a map whose order is random.

What makes each component correct:

* *engine*: the chosen account keeps the promise of `PickNext`'s comment; nobody
  starves; the ladder escalates; revocation lasts until doctor lifts it;
* *commands*: the live file and `active_email` agree; the active account keeps
  its file but for two commands; setting one key changes one key;
* *credentials*: tokens stay with their owner, the newest is kept, a removed
  account stays removed;
* *requests*: only the account that got a 429 is struck, and once; every request
  is answered; cooldowns survive; the files agree when everything rests;
* *daemon*: one server, named by the PID file; launches get a server; idle
  daemons end; a shutdown ends the daemon and lets requests finish;
* *CA*: certificate and key belong together and stay what clients were told to
  trust; *store*: a reader sees an old or a new file;
* *watcher*: in one reading of a log a whole line strikes once, and the watcher
  catches up; *poller*: the same answer leads to the same decision.

## The modules

```
Selection   <- Rotation <- RotationTurns        one process after another
            <- ProxyRequests                    interleaved at loads and saves
Credentials                                     the tokens, step by step
ProxyDaemon                                     the life of the daemon
FileRegister <= AtomicWrite <- CertAuthority    one step per system call
LogTail <- LogReadings                          the watcher and the logs
QuotaGroups, Settings <- Poller                 the quota poller
               Settings <- Launch               prelaunch and the shim

SelectionProofs <- RotationProofs, RequestProofs
DaemonProofs, CertProofs, CredProofs, PollerProofs, LogProofs
MCTurns, MCRotation, MCProxyRequests, MCProxyDaemon, MCCertAuthority,
MCCredentials, MCLogTail, MCLogReadings, MCPoller, MCLaunch
                                                instances for TLC
```

`A <- B` says that B extends A; `FileRegister <= AtomicWrite` that AtomicWrite
implements FileRegister.

**Selection** has no variables: it holds the decisions of the engine as
operators on the contents of the files, so that the sequential and the
interleaved module share one translation. `Pick` is `PickNext`, `Bumped` is the
state `bumpRR` leaves behind, `Activated`, `Failed`, `Cleared` and `Forgotten`
are what `Activate`, `ReportFailure`, `ReportSuccess` and `remove` do to
`state.json`. `StickyChoice` follows the code into its own slip: it indexes the
full list with a position in the eligible one (`engine.go:92`).

Data is abstracted to what decisions read. An account is a number, because
e-mail addresses are compared. A deadline is the time left until it (0 once
past), and `Tick` lets it run down, so that the model has no absolute clock. The
failure count is read only through the clamp of `BackoffFor`, so it saturates at
the last rung. The quota cache is one score per account, the mean of its groups
in parts of `Full`; `Neutral` stands for the baseline 0.5 of an account that was
never queried. The reasons of `Classify` fall into three: `quota` climbs the
ladder, `revoked` revokes, `short` has some cooldown of `ShortCools` (which
covers the jitter of a capacity failure).

**Rotation** has the files as variables: `added` (the vault), `state`, `mode`,
`quota`, `live` (whose credentials `agy` will read). Each command, each failure
line and each poll is one action from its first read to its last write, and no
write fails (failing writes are in `ProxyRequests`, `Credentials` and
`AtomicWrite`). An account number is an address as it is spelt; `slug` gives the
name of its file (`store.go:189`), so two addresses may share one. `SameFile` is
how `remove`, `use` and a save find the file, while `state.json`, the cache and
`active_email` go by the address.
`Doctor` contains the order of its writes: the copy of the state loaded at the
start is saved at each prune, over the successes recorded so far. `Poll` takes a
score and whether some group is at the threshold; a mean at the threshold
implies that one is. **RotationTurns** adds a history variable that counts, per
healthy account, the turns taken without it.

**ProxyRequests** takes the same operators apart into the loads and saves of
`Activate` and `ReportFailure`, with processes that are proxy requests or
launches. `pc` is the next step, `mem` the copy of the state between a load and
its save. `PickNext`'s reading of the vault, configuration and state is one step,
its save of the cursor another. `Refresh` writes the live file for
the account the request uses, whoever is active. `Kill` ends a set of processes
at once (all requests of a daemon, or a launch). Where `DiskFails`, a save may
leave the file as it was (`Saves`) and `Activate` may give up at the token file
(`InstallFails`); every caller drops the error and goes on. `limits`, how often an
account's token got a 429, is a history variable that no guard reads.

**Credentials** has what those modules leave out: the tokens. A token is its
owner and the number of its refresh token, `issued` the newest number Google has
given out; a vault file is named by the slug of its account, so that two
addresses may share one. A process is a request, a poll, a `quota`, a `doctor`,
a switch, a sign-in or an import; it reads accounts, asks Google (who may
rotate the token, keep it, or refuse), saves, and some of them write the live
file. Each of these is a step, any save may fail, any process may be killed,
accounts are removed and exported meanwhile, and `agy` itself refreshes the
token of the live file. `Takes` is a process coming to the next account of its
list, `Advance` its going on after one. `quota` may refresh twice: when the
token is old, and again when the fetch is refused (`left`).

**ProxyDaemon** follows a daemon process through `off`, `boot`, `bound`, `up`,
`closing` and its end. The threads of a daemon that may call `Shutdown` (the
watchdog and one goroutine per POST to `/shutdown`) go through its steps one by
one: look at the channel, close it, remove the PID file, shut the server. A
connection is a plain request, a pipe to its target, or intercepted, with the
handshake, requests and replies inside the tunnel. `Leave` does not uncount the
connection: in the code the inner `Serve` waits for a `Close` that is deferred
until `Serve` returns (`proxy.go:281-341`). SIGTERM has no handler, so
`Terminate` ends the process on the spot.

**FileRegister** is what the callers of `WriteFileAtomic` count on: a call
replaces a file at once or not at all, it returns nil exactly if it did, and a
power loss leaves the file of some earlier moment. **AtomicWrite** is the code,
a step per system call; each may fail, and a writer may be killed or the power
lost between any two. A file is its data, whether it is complete and whether it
is synced; `stored` is the part of the directory that is on disk. The register
is found in it by what a reader gets (`Content`) and by where a call is in its
steps: the rename is the moment of the effect.

**CertAuthority** runs `LoadOrCreateCA` in several processes on top of these
steps; a pair of certificate and key is the number of its generation, so that
"belong together" is equality. `held` is what a process has in memory, `cache`
and the handshakes (`at`, `name`, `leaf`) are `GetCertificate` with its two
looks at the cache. `crossed` is history: two processes have created the CA at
the same time.

**LogTail** follows the logs. A log is a sequence of half lines, because a line
may be read before its end was written; a line has a failure in neither half, in
one, in each, or only in both together (`Kinds`). `order` is the directory by
time of modification. The watcher's steps are those of the loop: find the newest
log and open it, or fail to; fill the buffer; take a line out of it; at the end
of the file scan the rest; stat the file, and start again if it is gone or
smaller than it was. `strikes`, `split` (lines whose halves were read apart),
`unmanned` (lines read with nobody active) and `skipped` (a truncation under the
reader) are history. `strikes` begins anew with each reading of a log;
**LogReadings** adds what an earlier reading has struck.

**QuotaGroups** is `GroupModels` as a loop that visits the models of an answer
in any order; an entry is the words that count in its name, its fraction in
parts of `Full`, which may be out of range or no number, and its reset, which
may be absent or no time. **Settings** is `config.json`: the user edits it by
hand, `config set` and `set-mode` load all of it, change one value and save all;
`LoadConfig` keeps what it can use. Values are integers, a text that is no
duration one of three negative ones. **Poller** joins the two: it loads the
threshold when it starts, sums up an answer at each tick and decides whether to
switch. What `PickNext` gives it then, an error, the active account, one that
cannot be activated or another, is an input (`offer`), because the choice itself
is in `Rotation`; `outcome` says whether the poll switched. `Quiet` is the flag of
`watch`, which the poller does not ask for (`watch.go:215`).
**Launch** is `prelaunch` followed by the shim, over the settings; the variables
`AGY_ROTATOR_DISABLE` and `AGY_ROTATOR_NO_PROXY` may turn the shim off.

Definitions under a comment that begins with "A slip:", and `HandshakeLeaks`,
`ShutDrained`, `WritePidOnce`, `PidThenListen` and `HandshakeRecounts`, are
plausible mistakes; no specification uses them. They exist to show that each
property can fail: `PROJECT.json` names, for every property of a passing run,
the definition a slip replaces.

## The runs

Passing runs:

| Run | Instance | Shows |
|---|---|---|
| `MCTurns` | 3 addresses, two of which are spellings of one file's name, 2 instants of adding, the three modes, 1 rung, scores 0..1; four words for `set-mode`, one of them unknown | no starvation and the inductive reason for it; live file = active account; the promise of `PickNext`; the richest healthy account by the newest cache; failover leaves the failed account; only doctor's refresh lifts a revocation; sticky mode stays put while nothing is revoked; the active account loses its file only to an import that replaces it and to a `remove` under another spelling |
| `MCRequests` | 2 requests, 2 accounts, 2 attempts, 2 rungs, smart mode, writes may fail, the daemon may be killed | no false strike under any interleaving; no 429 is held against an account twice |
| `MCAnswered` | 1 request and a launch, round-robin, 429s that revoke, writes may fail, fair | every request is answered, every launch ends |
| `MCDaemon` | 2 daemons that may crash, 1 connection, `proxy stop`, fair | the PID file names the server until somebody begins a stop; launches get a server; idle daemons that never intercepted end; a daemon told to stop ends |
| `MCCert` | a launch and a daemon, 2 pairs, 2 handshakes, one host and the default name | writes are atomic; pairs match; one leaf per host; leaves verify; what clients trust stays |
| `MCCreds` | what runs by itself (request, poll) beside what the user starts (`quota`, doctor, switch, sign-in, import); 2 accounts with 2 and 1 refresh tokens | tokens stay with their owner; the newest is kept; no account returns by itself; the live file never goes back |
| `MCLog` | 2 logs, 2 lines in halves without a failure, with one in each half or in both together, 1 account or none active, fair | in one reading of a log a line strikes as it is due; the watcher catches up |
| `MCPoller` | 2 models, 6 kinds of entries, fractions in quarters; per key values of the kinds the code tells apart, two at a time | the summary is independent of the order; the poller switches exactly if a whole group is low and the engine offers another account; values in effect are in range; setting a key sets one |

Two accounts already give an active and another account, one revoked and one
eligible, all cooling and some cooling. Two instants of adding give accounts in
order and accounts added together, which the e-mail orders. Two attempts give a
retry and a last attempt, and a ladder of two rungs an escalation and a failure
that might count twice. In `MCTurns` all accounts cool equally long; that the one
whose cooldown ends first is chosen is left to the theorem `RotationPromise`. In
`MCRequests` the choice is by quota, without the save of the cursor, which
`MCAnswered` has. Two processes
already interleave all pairs of loads and saves. Two daemons allow a winner and
a loser of the port, and a successor of the one that ended; the smallest idle
timeout already tells a daemon that is idle from one that has just been used.
Two pairs give a replacement of the first; two handshakes a race for the cache.
Two tokens of one account give an old and a new one, and the other account, which
gets one, is there to be confused with it. Two logs and lines give
a log that stops being the newest and becomes it again, a line before and one
after a truncation, and a line in two pieces. Two models give an order, a tie
and a winner. Where a larger instance could still matter the proofs below hold
for any.

Runs that TLC finds violated, each by what the code does against what a
comment or document says (the findings of `PROJECT.json` quote both):

| Run | Violated | Why |
|---|---|---|
| `MCSticky` | `StickyKeepsActive` | index into the wrong list, `engine.go:92` |
| `MCSettled` | `SettledAgree` | account 2 is active and a request finds its token about to expire; a launch picks account 1 and writes its token to the live file; the request writes the refreshed token of account 2 there (`proxy.go:396`); the launch notes account 1 as active |
| `MCIdle` | `IdleExits` | an intercepted connection is never uncounted, `proxy.go:341` |
| `MCPort` | `LaunchFollowsSettings` | the shim has port 8999 in its text, `main.go:47` |

Further disagreements with comments. They are stated by a definition, and have a
configuration with which TLC finds the violation in seconds, but no run of
their own in `PROJECT.json`:

| Definition, configuration | What the code does |
|---|---|
| `Rotation!FailureClimbsLadder`, `MCLadder.cfg` (module `MCRotation`) | `BackoffFor` takes the "consecutive failure count" (`detect.go:72`), but `Activate` resets the failures of the account it leaves (`engine.go:139`), so a failure that rotates never escalates |
| `Rotation!DoctorClearsRevoked`, `MCDoctor.cfg` (`MCRotation`) | "ReportSuccess clears an account's failure state" (`engine.go:186`), but doctor saves an old copy of the state at a prune (`main.go:298`) |
| `ProxyRequests!StrikesLast`, `MCStrikes.cfg` (`MCProxyRequests`) | a save of the whole state overwrites a cooldown written meanwhile |
| `ProxyDaemon!ShutdownGraceful`, `MCGraceful.cfg` (`MCProxyDaemon`) | "Shutdown gracefully stops the proxy server" (`proxy.go:116`), but the process ends with `Serve`, not with `Shutdown` |
| `Rotation!RemoveForgets`, `MCForgets.cfg` (`MCRotation`) | "Remove an account from the vault" (`README.md:261`), "Forget an account" (`main.go:158`), but `remove` with another spelling deletes the file, which goes by the slug (`store.go:189`), and leaves `active_email`, which is compared as it is (`main.go:259`) |
| `LogReadings!StruckNoMore`, `MCAgain.cfg` (`MCLogReadings`) | the watcher is to "tail logs, enforce cooldown ladders" (`README.md:135`) by a "consecutive failure count" (`detect.go:71`), but a log that becomes the newest again, because two sessions write in turn or the newer log was removed, is read from its start (`watch.go:87-99`) and its failures strike again |
| `Poller!QuietKeeps`, `MCQuiet.cfg` (`MCPoller`) | `-quiet` is to "only report failures, do not auto-switch" (`main.go:1050`), but the poller switches (`watch.go:215-217`) |
| `CertAuthority!ReadyMatches`, `MCPair.cfg` (`MCCertAuthority`) | "LoadOrCreateCA loads the CA certificate and private key" (`cert.go:29`), but two processes that create it together leave a mixed pair, which later starts keep |
| `Credentials!NeverClobbers`, `MCClobber.cfg` (`MCCredentials`) | "only if we won't clobber newer state" (`main.go:330`), but the live file may change between the look and the write |

Bounds, all of them constants: `MaxStamp` (instants at which accounts are
added), `Rungs`, `MaxLimits` (429s of an account that are counted), `Full`, `Backups` (envelopes for `import`), `Words` (arguments
of `set-mode`), `MaxRetries` (3 in the code), `Victims`, `Timeout`, `MaxConns`
(connections counted at a daemon), `MaxPairs` (CA pairs generated), `MaxTokens`
(refresh tokens per account), `Roles` (what a process may be), `MaxLines` (log
lines), `Kinds` (where a line may have a failure), `Samples` (entries of an answer), `Typed` (values for a key) and
`MaxOwn` (keys at a time with a value of the user's own: two, so that setting
one meets another). The cursor needs no bound: it stays below the number of
eligible accounts at its last move.

What the properties leave out, and where:

* Two calls of `Shutdown` that overlap may both find the channel open and close
  it twice; the model has the panic (`Close`), and `StopEnds` counts it as an end.
* `PidOfServer` speaks of the time before anybody begins a `proxy stop`: a stop
  that races with a new launch may read and remove the PID of the newer daemon.
* `PairsMatch`, `LeafTrusted` and `TrustKept` hold until two processes create
  the CA at the same time (`crossed`); afterwards `ReadyMatches` fails.
* `NewestKept` and `LiveForward` excuse an account in `raced`: two processes
  have had a copy of it at once, or its newest token was lost with a failed save
  or a kill, came from an old envelope or was refreshed by `agy`. The excuse
  ends when nobody has a copy and the file has the newest token again. In
  those cases tokens do get lost, and no comment says otherwise.
* `StruckAsDue` is about one reading of a log and says nothing after a truncation
  under the reader (`skipped`), which is noticed by the size alone, nor of lines
  read while nobody was active (`unmanned`). Of a line that is read in two pieces
  it says what the code does: each piece that has a failure strikes, so it may
  strike twice, or not at all when the failure shows only in the whole line.
  `CatchesUp` also leaves out a log that was closed because the newer one could
  not be opened (`shut`): the code goes on with the closed file.
* `NoDoubleStrike` speaks of the 429s that the proxy reports; the watcher, which
  strikes whoever is active, is not among its processes.
* `LaunchServes` is that a server comes up in the end; the 500 ms that
  `EnsureRunning` waits, and an `agy` that starts before it, are not modelled.

The runs of `MCProxyDaemon` and `MCCertAuthority` switch the deadlock check off:
once every daemon process has ended and the clients are gone, or all
handshakes are served, nothing more need happen.

## What is assumed

Of the environment: changes of a directory reach the disk in the order they were
made, as in a journal, and a synced file keeps its content (`AtomicWrite`);
Google numbers its refresh tokens, that is a refresh gives the newest one or
keeps the old; a log that is removed does not come back under its name.

Of the interleaving, each coarser than the code: an export does not overlap an
import (the import has read its envelope before it begins); `quota` and doctor
read their list and the state in one step; a `config set` or `set-mode` is one
step; a half line is the smallest piece of a log.

Fairness. `ProxyRequests!FairSpec` assumes that every process that runs is
scheduled and that the upstream ends every exchange, with an answer or an error;
the code sets no timeout there (`proxy.go:85`, "streaming responses must not
time out"), so without that assumption a request may wait forever. Nothing makes
requests arrive. `ProxyDaemon!FairSpec` assumes that processes run, time passes
and the watchdog's ticker ticks; it assumes nothing of clients, launches or
users. A daemon crashes only while it serves, so that `LaunchServes` speaks of
launches whose daemon is not killed before it starts. `LogTail!FairSpec` assumes
that the watcher's goroutine is scheduled (weak fairness of `Watch`: its loop
waits on a ticker that always fires) and that a log that could be opened again
and again is opened in the end (strong fairness of an opening that succeeds);
it assumes nothing of `agy`, which need not write.

## The proofs

TLAPS checks every proof to its leaves, from the named assumptions of the
modules: accounts are finitely many positive numbers (`AccountAssumption`), the
ladder is positive and strictly grows (`LadderAssumption`), an envelope of
`import` holds at least one account, each under a file name of its own
(`BackupAssumption`), a slug is a function of the address, injective or not
(`SlugAssumption`), requests and launches are finitely many (`ProcAssumption`), a
line has one of five kinds (`KindsAssumption`), there are finitely many models
(`QuotaAssumption`), and type assumptions on the other constants.

`SelectionProofs` shows that the finite list has what `CHOOSE` asks for: `Before`
is a strict total order, so least elements exist (`LeastByMeasure`,
`FirstExists`), `Index` is a bijection between a list and its positions
(`IndexInjective`, `IndexOnto`), the scan finds the first healthy account from
the cursor (`CursorChoice`), and moving the cursor brings it closer to every
account passed over (`GapShrinks`). The inductions this needs are over
the cardinality of sets, taken from the facts of the library about finite sets.

`RotationProofs`: `TypeCorrect`; `LiveAgrees` (inductive with the types: whatever
changes one of the two names changes both, or empties `active_email`); and the
action properties `RotationPromise`, `Failover`, `RevokedStays`, `SmartWins`,
`StickyStays` and `ActiveStays`, each from the type invariant and the lemmas
about `Pick`. `ActiveStays` holds for any slugs and names the two commands that
take the active account's file away; that no other does, a `remove` of another
account, a save over a shared file or a prune by doctor, is what it proves. `StickyStays` is where the wrong index does no harm: with no
account revoked both lists are the same, and positions are injective.

The last part of `RotationProofs` is about `RotationTurns`: `FairRotation`.
`NoStarvation` alone is not inductive: the
number of turns waited says nothing of where the cursor is. `WithinOneRound`
(`OneRound`) adds the distance left to the cursor, and every turn that
passes over an account shrinks the distance by at least what it adds.

`RequestProofs`: the inductive invariant of `NobodyPunished` is the conjunction of
the types, `Located` (what a process remembers at each step) and `Innocent`
(every copy of the state in memory punishes only accounts that got a 429, and so
does the file); it needs the copies because a process may save, much later, a
state it loaded before. `NoneStruckTwice` needs more than that the file counts no
more failures than there were 429s: `Balanced` says of the file and of every copy
that its failures and the reports still to come (`Pending`) are together no more.
A 429 adds one to both sides, a report moves one from the reports to the failures
of the copy it saves (`StrikesOnce`), and an overwritten, failed or killed save
only makes the left side smaller (`FitsMilder`).

`DaemonProofs`: `PidNamesServer`. The inductive invariant holds only until a
`proxy stop` begins, and a stop never un-begins (`StopStays`). It says that a
daemon that serves or is about to holds the port (`HoldsPort`), that only the
watchdog calls `Shutdown` (`OnlyWatch`), and that it removes the PID file after
closing the channel and before giving up the port (`InOrder`); so whoever removes
the file is still the only server, and no other daemon's name can be in it.
`DaemonTypes` needs to know that the counter never falls below 0: connections in
their handshake are finitely many and each of them is counted (`Counted`), so
one that fails finds the counter positive.

`CertProofs`: `WritesAtOnce` is the refinement. Its invariant says that every file
a directory names, in memory or on disk, is complete and synced (`Sound`),
because only a rename puts one there and only after write and sync (`TempOf`
ties a temporary file to the step of its writer); so a power loss changes
nothing about a file, and every step maps to one of the register or to a
stutter. `CAFilesWhole` carries this to `CertAuthority`, whose every step is one
of these or leaves the files alone. `PairBelongs`, `TrustStays` rest on `Agreed`:
until two create at a time, a key on disk means its certificate is, too,
there is at most one creator, and what it has written so far fits its step.
`LeafOnce` and `LeafVerifies` rest on `LeafInv`: a cache has leaves of the pair its
daemon holds, and whoever was served got the one in the cache.

`CredProofs`: `TokensStayOwn` is inductive once it speaks of all copies: accounts
in files, in the envelope and in the memory of every process have a token of
their own (`Owned`). Where two addresses share a slug a file changes its
address, and then its token with it. `NobodyReturns` needs that nothing is in the
memory of a process but what was in a file or an envelope.

`NewestTokenKept` and `LiveNeverOlder` rest on `FreshInv`. `NewestKept` speaks of
one file; it is inductive only with what all copies are: for an account outside
`raced`, every copy in the memory of a process that is no import carries the last
number issued (`Fresh`), so no save can bring an older one back; the accounts of a
process's list differ in their addresses (`Orderly`), so a refresh leaves no stale
copy further down in it; and nobody has a number that was not issued (`Numbers`).
That two processes do not share the account is what `raced` excuses, and a slug
that two addresses share makes both of them shared. The lemmas go by the effect
of a step and not by its action: `Shrinks` (a process gets no copy it did not
have), `FileStep` and `Kept` (one file changes, or an address keeps its file).

`LogProofs`: `LogTypes` and `LinesStruckAsDue` rest on `LogInv`. `StruckAsDue`
speaks of the lines of the log being read; two things make it inductive. The
first is the order in which half lines are written: a log is a growing piece of
that order whose lines are whole but for the last (`Whole`), and what is buffered
comes before what is still to be read (`Ahead`), also after a truncation, where
nothing else is known. So no line is struck more than once per half (`Struck`), which
is the type of `strikes`. The second holds while
the log is not truncated: the buffer is the part of the log that ends at `off`
(`InStep`), so the first end of a line in the buffer is at its first or second
half line. A piece of one half leaves its line in `split` and strikes for that half,
a whole line is not in it and strikes for both together (`ScanCounts`,
`WholeLineFails`, `HalfLineFails`).

`PollerProofs`: `GroupsRepresent` holds at every turn of the loop, not only at its
end: `Sums` says what a summary of a set of models is, and `OneMore` that the
next model keeps it right wherever in the order it comes. `PollerPreempts`
follows: the highest fraction of a group is at the threshold exactly if all are, and
the outcome of a poll stands until the next one begins.
`SettingsSetOne` rests on `LoadConfig` keeping what it has returned before.

Only model-checked: liveness, that is `Answered`, `LaunchServes`,
`IdleExitsUnlessIntercepted`, `StopEnds` and `CatchesUp`, because fairness and
`ENABLED` are beyond the prover. Every invariant and every action property of a
passing run is a theorem.

## Not modelled

* Cryptography and wire formats (encryption of the vault, PKCE, TLS, JSON), text
  output, installation, completions, the systemd unit, Windows process control.
* The history log, the statistics and the status line: no decision reads them.
  The status line takes the age of its quotas from the last fetch of any account
  (`statusline.go:62`), which is a matter of display.
* The streaming of an answer: `Pass` is one step.
* Two `config set` at the same moment; the second to save undoes the first.
* `proxy stop` after `proxy_port` was changed looks at the new port only, says
  that the proxy is not running and leaves the old daemon alone (`main.go:978`).
* `export` puts the configuration into the envelope (`main.go:749`), and
  `import` does not use it; `BinaryEnv` (`spawn.go:150`) is used by a test only.
* `import -replace` that is killed between removing and saving leaves a vault
  without the accounts it removed: `Credentials` has the steps, but nothing is
  promised.
* Whether `ProxyRequests`, for a single process, implements `Rotation`'s
  `Rotate`: both are built from the operators of `Selection`, so the refinement
  would compare these with themselves.
