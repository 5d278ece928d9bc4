# Verification of snagify

TLA+ models of the parts of snagify where steps of several actors, failures or
stale knowledge decide whether the program is right, TLC configurations that
check them on small instances, and TLAPS proofs of the results that matter most
for instances of every size.

Every definition is translated from the Go source; `PROJECT.json` maps each one
to the lines it stands for. Run everything inside this directory:

    tlc -workers 2 -config share_safety.cfg MCShareServer.tla
    tlapm ShareServerProofs.tla

## 1. The system

snagify is a command-line tool. One invocation is one process, and what
outlives it is on disk (`.snagify.yaml`, `.env`, `.env.example`, snapshot files,
the installers' cache, local Docker images) or with another invocation on
another machine (`share` serves, `compare` and `check --from` fetch).

| component | source | state | operations | interacts with |
|---|---|---|---|---|
| share server | `internal/share/server.go`, `internal/cli/share.go` | download counter, done channel, once-guard, HTTP connections | start, gate, count, write, close, wait, print | clients over HTTP, TTL timer, Ctrl-C, the advertisement |
| share client, pin | `internal/share/client.go`, `cert.go` | none beyond one request | Fetch, FetchWithCode, pin check | server |
| LAN discovery | `internal/lan/advertise.go`, `internal/cli/lan_helpers.go` | mDNS responder; slice shared by two goroutines | advertise, stop, browse, expire | share, compare |
| compare, check --from | `internal/cli/compare*.go`, `check.go` | resolved share, URL, baseline | discover, choose, resolve, fetch, compare | discovery, server, capture |
| check engine | `internal/check`, `internal/report`, `main.go` | a growing report | one section after another, exit code | config, capture, custom checks, plugins, probes |
| custom checks | `internal/customcheck` | a child process, two buffers, a deadline | run | the user's programs |
| plugin host | `internal/plugin`, `cmd/snagify-plugin-shellcheck` | a child process, a JSON request and answer | run, decode | plugin programs |
| probes | `internal/probe` | one connection at a time | DNS, TCP, HTTP, TLS, Postgres, MySQL, Redis | network services |
| fix, doctor | `internal/fixplan`, `internal/cli/fix.go`, `doctor.go` | a plan, `.env`, Docker images | build a plan, create, append, pull | check, people who edit `.env` |
| version requirements | `internal/verreq` | none | parse, compare | check, diff |
| diff, baseline, team | `internal/diff`, `internal/baseline`, `internal/team` | none | compare two or many snapshots, merge blockers | snapshots |
| init | `internal/initcfg`, `internal/cli/init.go` | `.snagify.yaml` | classify keys, write the configuration | check, fix |
| capture | `internal/capture` | a snapshot | read the machine | all commands |
| configuration | `internal/config` | parsed `.snagify.yaml` | load, defaults | all commands |
| snapshots | `internal/store`, `internal/model`, `internal/cli/snapshot.go` | one file | save, load | diff, baseline |
| installers | `packaging/npm`, `packaging/pypi`, `.github/actions/snagify-check/entry.sh` | a cache or bin directory | download, verify, unpack, run | release server, concurrent first runs |
| rendering, build files | `internal/render`, `*/render.go`, `Dockerfile`, `install.sh`, workflows | none | text output | - |

### What is hard about it

* **Concurrency.** The share server is a real concurrent program: one handler
  goroutine per request, a TTL goroutine, a signal goroutine, the goroutine of
  the last download that closes the server, and `main`, which waits, reads the
  counter and exits. Discovery shares a slice between two goroutines. First runs
  of the wrappers, and commands of teammates in one directory, overlap.
* **Stale knowledge.** A client resolves a share, prompts or waits, and then
  dials an address at which another share may listen by now. A fix plan is made
  from a report that is older than the writes it causes. `check` captures the
  machine and reads some of it again while it makes the report.
* **Partial failure.** Each write of `fix safe` may fail after an earlier one
  succeeded; a response can be lost after the server has counted it; a command
  can be killed between a truncation and the write that follows; an archive can
  be cut off, withheld, or unpacked by half.
* **Time.** TTLs, the two-second grace of a shutdown, browse timeouts, expiry
  stamps computed on one side and judged on the other, one deadline for an
  answer that comes in pieces, tools that do not tell their version in time,
  deadlines of child processes whose descendants keep a pipe open.

### What makes each component correct

* share server: the limit is respected under every interleaving, slots are used
  up only by requests that pass the gate, a graceful stop cuts nobody off, and
  every share ends.
* discovery and clients: never the wrong baseline, never a baseline without its
  code, `/resolve` costs nothing, an unexpired share is not filtered out, the
  command a share prints works, every client ends.
* fix safe: a person's values stay, no secret default reaches `.env`, dry runs
  and unconfirmed runs change nothing, exit code 0 means the keys are there.
* check: the machine is ready exactly if the exit code says so; a broken plugin
  never fails the run, a failing one is never silent.
* child processes: every run ends within its deadline; a late answer is never
  taken for a result.
* probes: the exit code is what the services said, in whatever pieces they said
  it, a probe costs at most its deadlines, and a healthy service has no item.
* version requirements: the comparison is the order on versions.
* diff, baseline, team: swapping the sides swaps the report; sanitizing takes
  away nothing that is compared; nobody is left out of a summary and different
  problems are not merged.
* init: a key has the class its comments mean, and the configuration accepts the
  machine it was generated on.
* installers: what runs is the released binary, all of it.

## 2. The models

### ShareServer and ShareQuota

`ShareServer` is the process behind `share baseline` and `share current`.

| TLA+ | code |
|---|---|
| `main`, `StartServer`, `InstallSignals`, `PrintCount`, `Exit` | the command function of `internal/cli/share.go` from `StartServer` to the last line it prints |
| `downloads`, `slot`, `Admit` | `Server.downloads`, and the value `Add(1)` returned to one handler |
| `stage`, `reply`, `Gate`, `Answer`, `Refuse`, `WriteBaseline`, `HandlerReturns`, `Flush` | the handlers of `server.go`; `Flush` is what net/http does after the handler has returned |
| `closers`, `closer`, `BeginClose`, `ShutdownDrains`, `ShutdownTimesOut`, `forced` | calls of `Close`, its `sync.Once` body, `http.Server.Shutdown` and its two-second context |
| `ttl`, `sig`, `Killed` | the select on timer and done channel; the signal channel, its goroutine, and Ctrl-C before `signal.Notify` |

Counting, writing, returning and flushing are four steps of a handler, because
other handlers, the closing goroutine and the exit of the process can come
between any two of them. The end of the process severs what is still open.
A request has a body of a known length, one in chunks, or none: the gate's test of
`ContentLength` sees only the first kind, and so does `Gate`.

`ShareQuota` is what a share promises: a number of tickets, a baseline only
for a ticket, nothing after the end. `ShareServer` implements it under the
mapping at the end of the module (`left` is what the counter leaves of the
limit, `granted` the requests whose slot is within it, `delivered` those whose
client holds the whole response). So does every share of `LanClients`, in which counting
and delivering are one step (`Serve`) or the answer is lost (`Grant` alone): the clients' model
assumes no more of a share than the server's own is shown to keep.

### LanClients

`compare` (with discovery) and `check --from` against shares that start, expire,
end, and are followed by others on the same host and port. A share is its flags,
whether it listens, its remaining downloads and its mDNS record; its own
concurrency is `ShareServer`'s. Every share has its own certificate, token and
code, so the share's name stands for each: "pinned certificate equals the one
presented" is equality of shares. `now` is the clock that stamps and judges
`expires_at`. `heard` and `list` are the two ends of the unsynchronised append in
`Discover`; `BrowseEnds` reads either, and `BrowseTears` is the half-written slice
header that the build may also see. `PrintedCommandIsEnough` says when a
teammate who types what a share printed may be turned away for want of a pin or of the right
code: when the flags of the share make the command one that cannot work (`~WellFlagged`), or
when `compare` took another share of the repository (`AnotherWasFirst`).

### FixSafe

`fix safe` from its check to its exit code, in the steps in which the outside
can interfere: the check reads `.env`; the plan stats it once per report item;
each write opens, truncates and writes separately and may fail; a kill may come
anywhere. A dotenv file is the value that counts for each key, its last line,
and whether that line is ended, which is what the append depends on. `Edit` is a
person with an editor. A write that fails may have written a first part: some lines and
perhaps part of one more (`FirstParts`, `PartLines`). What is appended to a line that is
not ended becomes part of it; `glued` remembers that the current run has done so, and
`settled` that a run has exited 0 without it.

### CheckRun

`snagify check` against a configuration, from the capture to the exit code, with
the custom checks and plugins that it runs one after the other.

| TLA+ | code |
|---|---|
| `main`, `Capture`, `LoadConfig`, `BuiltIn`, `Render`, `ExitWith` | `RunE` of `internal/cli/check.go`, `check.Run`, `main.go` |
| `cur`, `Reject`, `StartFails`, `Start`, `Conclude` | the loops of `checkCustom` and `checkPlugins`, and what `customcheck.Run` and `plugin.Run` do before and after the child |
| `child`, `late`, `orphan`, `DeadlinePasses`, `Strike`, `Reap`, `Return` | `exec.CommandContext` and `cmd.Run`: the context's goroutine kills, `Wait` reaps, `Run` returns when the output pipe is closed |
| `fate`, `struck`, `said` | how the child really ended, whether the kill reached it, what the plugin wrote: history the properties compare the report with |
| `RunOutcome`, `Judge`, `CustomSeverity`, `PluginSeverities` | the classification of errors, the decoding of the answer, the severities |

Killing a child takes nothing from its descendants: `orphan` says that one of them
still has the output pipe, and without a `WaitDelay` only `OrphanLetsGo` lets `Return`
happen. The declarative sections are one step here that adds any items of the
severities each can add; `CheckRules` has their rules.

### ProbeRun and ProbeContract

`snagify probe`, and the probes of `snagify check`: every service of the
configuration is probed once, one after the other.

| TLA+ | code |
|---|---|
| `main`, `LoadConfig`, `Report`, `ExitWith` | `internal/cli/probe.go`, `probe.Run`, `checkProbes` |
| `Plan`, `DefaultTimeout`, `Timeout` | the loops of `probe.Run`, `--no-network`, `--no-tls`, `--timeout` and `timeout_ms` |
| `stage`, `left`, `Accepted`, `WriteFails`, `LookedUp`, `Responds`, `VerifiedHandshake`, `VerificationFails`, `Inspected`, `NoConnection` | one call that can block, its deadline, and its outcomes (`tcp_dns.go`, `http.go`, `tls.go`) |
| `said`, `script`, `Says`, `ReadComplete`, `ReadCut`, `Take`, `Want` | `readWith` of `db.go` and its three callers |
| `results`, `verdicts`, `CheckProbe` | `model.ProbeResults` and `internal/check/probes.go` |
| `heard`, `spent` | what a service said and how long its probe has taken: history |

A server may refuse, fall silent, come back, answer in any pieces and hang up after
any of them. An answer is a sequence of tokens, cut where the code looks: PostgreSQL's
one byte, MySQL's header and payload, `+PONG` in two. `ProbeContract` is what a run
promises: calls answered once each, in order, none after its budget; `ProbeRun`
implements it with the budgets of the probes to come as `todo`.

### Installers

The PyPI wrapper, the npm script with its launcher, and the script of the GitHub
action, by any number of processes that share a directory. A path names an inode,
and an inode has the parts written to it: that is what tells Python's `extractall`,
which truncates the file there is, from `tar` and `unzip`, which replace it, and from
`mv`. `Download` has the ways in which a response ends: whole, corrupt, cut off
(`EndsEarly`), silent (`Silence`), refused. A process may be killed anywhere and a write may fail. An archive
of `SNAGIFY_LOCAL_DIST` is unpacked without a check (`Install`), and need not be whole.

### VersionReq, EnvExample, CheckRules, Onboarding

`VersionReq` is `verreq.Check` on versions as sequences of numbers, `EnvExample` the
classification of keys by `init`, `CheckRules` what `check` makes of each declarative
section. They are operators without state. `Onboarding` has the commands: `Begin` is
a capture of the machine (`Capture`, with the commands of `capture/exec.go` that do
not answer in time: `Slow`), `WriteConfig` is `init`, whose write may fail before or
after it has truncated the file, `CheckConfig` is `check`; between and during them
`MachineChanges` and `ConfigIsEdited` are other people. `snap` is what was captured,
and `machine` what is read again when the report is made; `seen` remembers the
machine the capture was taken of, `origin` the one a configuration was generated on.
`Ready`, `HintedClass` and `Satisfies` say in other words what the code should decide:
`Satisfies` compares versions as numbers in the base `Base`, which no part of a version
reaches, and not part by part.

### Drift and Baselines

`Drift` compares two snapshots (`diff.Compare`, `ApplyProjectContext`), sanitizes one, and makes
the summary of a team. `Baselines` has the commands around it: `baseline create`,
`snapshot`, `diff`, `diff-many` and `check --against` of several members in one
directory. `store.Save` truncates and then writes (`Open`, `Write`), and may fail or be
killed in between, so that a file is absent, empty, torn or whole; `store.Load` wants
it whole. `source` remembers the machine a file was made on, before it was sanitized.

## 3. Runs

| run | question | bounds |
|---|---|---|
| `share_safety` | exact slots, limit, gate, graceful stop, final count; refinement of `ShareQuota` | 3 requests of six kinds (one for each branch of the gate, and one with a body in chunks), `--max-downloads 0`, hence the default limit (2 here), code set |
| `share_live` | each reason to stop ends the share | 2 requests, limit 1 |
| `lan_compare` | `compare` with discovery: code, expiry, the two cases in which a printed command is turned away, what Discover may lose | 2 shares with six sets of flags, 1 client, clock to 3 |
| `lan_check` | URLs, pins, plain HTTP, two clients competing for one download: right baseline, free resolve, clients end; refinement of `ShareQuota` by each share | 2 shares, 2 clients, clock to 1 |
| `fix_safe` | what exit code 0 means, now and for every later run; a person's values, secrets, dry runs | 3 keys, 2 runs whose writes may fail, before or half way, and that may be killed anywhere, 1 edit between them |
| `check_run` | exit code and report against how the children ended and what plugins answered; nothing is done twice; the command ends if the pipes are closed | 3 configurations: two checks and a plugin, malformed entries, plugins alone; 5 answers |
| `probe_run` | exit code, warnings and budgets against what the services said; refinement of `ProbeContract`; nothing is tried twice; the command ends | 2 hosts, 7 configurations with every kind of probe, 4 command lines, reads of at most 3 tokens, 1 server that starts or stops |
| `install_run` | what runs and what is left behind is complete; exit code 0 is a complete installation; a run of the wrapper ends | 3 processes, one of them a launcher, archives from the release or a local directory, 1 kill or failed write |
| `onboard_run` | the class of keys, the verdict of `check`, a generated configuration on its own machine | 8 machines, 6 handwritten configurations, 2 changes, slow `node` and `git status`, parts of versions below 100 (`Base`) |
| `drift_run` | the verdict on the maker, symmetry of diff, the summary, nobody left out | 2 members, 4 machines, 2 commands, 1 change, 1 kill or failed write, members symmetric |
| `check_finding_wedge`, `drift_finding_paths` | one statement each of the code's own text that the code does not keep | the smallest instance that shows it |

Why these bounds are enough. The server's interesting cases are "within the
limit", "the last slot" and "past it", which three requests and limit two all
reach, with two of them in any stage at once; a fourth request repeats the third.
Two shares are one to hold on to and one to be taken for it. The clock needs one
value before an expiry, one at it and one after it; in `lan_check` only the
order of commands matters. Two runs of `fix safe` show what a run makes of what an
earlier, failed one left. Three keys are a sensitive one, one with a default and
one that people fill in. The children of `check`, and probes, are run one at a
time, and what one leaves behind is its items: two of a kind and one of another
have every kind of neighbour. Three tokens are enough for a header, a version
byte and a byte too many, and one tick of a deadline is before, one at it. Three installers are one that
unpacks, one that truncates what it unpacked, and one that runs the result. The eight machines
differ from the first in each thing a section reads, the four snapshots in each kind
of entry; a comparison has two sides, so two members and two overlapping
commands have every race between a reader and a writer, or two writers.
The theorems of section 5 have none of these bounds.

Deadlock checking is off in every run: a share, a client, an installation and a command
end, and the system then has nothing left to do.

### Fairness

* `ShareServer`'s `FairSpec`: each goroutine that can run does (`WF` on the handlers,
  `Close`, the signal goroutine, `main`): the Go scheduler is fair, and every read
  and write of the server is under `ReadHeaderTimeout` or `WriteTimeout`, so
  `HeaderTimeout` and `Flush` happen; `Shutdown` has a context of two seconds.
  `StartServer`, `Advertise`, clients and Ctrl-C are under no fairness, and neither
  is the TTL: a TTL of weeks does not fire within any time that matters, so the
  last download must be enough by itself.
* `LanClients`: `WF` on each client's own step (browse and request have timeouts)
  and on `StopAd` (the command goes on to its end). Time, shares and responders
  are under none.
* `CheckRun`: `WF` on the command's own steps, on the deadline (a timer) and on the
  kill. A child need not ever end and a descendant need not ever close the pipe;
  `CheckEnds` takes the latter as its premise, `PipesClose`.
* `ProbeRun`: `WF` on the command's steps, on the clock, on what a passed deadline
  leads to, and on a read that has all it asked for. Nothing is asked of the
  servers: they may be silent for ever.
* `Installers`: `WF` on the steps of each process that was started. A silent server
  leads to `hung` where the code sets no timeout, which is why `WrapperEnds` is about
  PyPI only. The timeout of `urlopen` is that of each read: a server that falls silent is
  in the model, one that sends a byte now and then for ever is not.

## 4. Findings

Each is a configuration that checks one statement of the code's own text, which TLC finds
violated: `tlc -config fix_finding_race.cfg MCFixSafe.tla` and so on, with the `MC` module of the
component. The last two are among the runs of `PROJECT.json`, the others are kept beside them.

| configuration | property | what the text says | what the code does |
|---|---|---|---|
| `share_finding_upload` | `NoUploadServed` | "Enforce single-purpose: reject bodies/uploads." (`server.go:135`) | only a body of a known length is refused; one in chunks has `ContentLength` -1, and the request takes a slot and is served (`server.go:114,136`) |
| `lan_finding_command` | `PrintedCommandWorks` | "Teammates can run:" `snagify check --from URL --pin PIN` (`share.go:196-200`) | there is a code unless `--open` is given (`share.go:134-142`), and `check` never sends one |
| `lan_finding_first` | `PrintedCommandWorks` | "Teammates on the same LAN/VPN can run:" `snagify compare --lan REPO --code CODE` (`share.go:188-192`) | `compare` takes the first share of the repository (`compare.go:73-74`), whose code may be another |
| `lan_finding_ttl` | `RunningShareIsNotExpired` | "Expires in:" with the TTL (`share.go:165`) | `--lan --ttl 0` runs for ten minutes and advertises a record that has expired |
| `fix_finding_race` | `UserValuesKept` | "Apply only safe, reversible fixes" (`fix.go:36`) and "force overwrite of existing files" for `--force` (`fix.go:98`) | a `.env` written after the plan's stat is truncated, `--force` or not |
| `fix_finding_glue` | `UserValuesKept` | "Appends %s to .env with blank values so the file is valid." (`fixplan.go:96`) | a key is glued to a last line without its newline |
| `fix_finding_order` | `SuccessMeansPresent` | "appends blank placeholders for missing required keys" (`docs/dotenv-missing-keys.md:94`) | a second creation undoes the append (`fixplan.go:78`), exit code 0 |
| `install_finding_cut` | `SuccessMeansInstalled` | "installs the prebuilt Snagify binary" (`packaging/npm/README.md:13`) | a response cut off in the middle ends `install.js` with exit code 0 and nothing installed (`install.js:52-53,145-148`) |
| `probe_finding_tls` | `TLSFailureIsReal` | "Handshake works but verification failed (hostname/expiry/issuer)." (`tls.go:58`) | a first handshake that fails for a reason of the moment is reported as a certificate that was rejected (`tls.go:38-45`) |
| `check_finding_wedge` | `NothingWedgesTheHost` | "so a typo'd plugin can't wedge the host" (`loader.go:20-21`) | the deadline kills the plugin, but without a `WaitDelay` a descendant that keeps the pipe holds up the check for ever |
| `drift_finding_paths` | `BaselinesHaveNoPaths` | "Hostname and absolute paths were removed. Safe to commit or share." (`cli/baseline.go:49`; `README.md:263`) | the paths of the runtimes and of `.env` stay in the baseline |

### Disagreements without a configuration

The first group are properties stated in the modules; checking one with the constants
of the component's run, but for the one given, shows the disagreement.

| property | how to see it | what happens |
|---|---|---|
| `ShareServer!ReportsOnlyServed` | `share_safety` | "%d download(s) served" includes requests answered 410 |
| `LanClients!DiscoverReturnsAllHeard` | `lan_compare` | Discover reads its slice without synchronisation, the last entry goes missing; never another (`DiscoverMissesAtMostOne`) |
| `Onboarding!MissingCommandsAreMissing` | `Handwritten <- MakeIsNeeded` | `commands.required` is looked up among the sixteen tools that capture tracks, so any other command is missing (`check_v3.go:54,62`, `capture/path.go:11-17`) |
| `Baselines!CountsMachines` | `Machines <- TwoKeys` | different missing keys are counted as one blocker (`team.go:29,139`), more often than there are machines |

What the same reading of the code shows besides:

* Shares: a client that disconnects during its download uses up a slot, so a share
  can close with fewer than the "successful downloads" of `server.go:22`. `--lan --unsafe-http`
  advertises no pin, which `compare` insists on, so that the command it prints cannot work.
* Fix: a required container that is not running is taken for an image that is not
  pulled (`fixplan.go:139`) and its name is pulled. When `fix safe` creates `.env` it then
  appends a blank line for each key that was missing, so that no default of
  `.env.example` survives as the last assignment (`fixplan.go:82`). With `env.actual_file` left
  out the check reads `.env` and every write goes to the empty path and fails: the
  fallback of `fix.go:65` is unreachable. After a write that broke off within a line the next
  run glues a key to that line, and exits 0 although the key is missing (`glued`).
* Check: a custom check that fails in time, but whose pipe a descendant holds until
  the deadline, is reported as timed out (`RunOutcome`). `checkPlugins` sends no checks
  (`check.go:347`), so the companion shellcheck plugin never has one to run
  (`CHANGELOG.md:139`). An image from a registry with a port never matches
  (`SplitImage`, `check_v3.go:171`).
* Capture: a command that fails returns its error text as if it had answered; a slow
  `git status` is a clean working tree, which lets `require_clean` pass.
* Init: keys and names are written without quoting, so that some give a file that
  cannot be read; a write that fails may leave an empty configuration, which passes.
* Probes: `--timeout` is the "per-probe timeout" (`check.go:96`), yet MySQL may take three
  of them and Redis, PostgreSQL and TLS two. A healthy Redis that keeps the connection open always costs
  its read timeout (`db.go:219`). The threshold of an expiry is that of the first
  endpoint with the name. The status of a redirect is never seen, because it
  is followed. Any byte from a server that is no Redis makes a required Redis a
  warning. An expired certificate fails verification, so that the branch for expired
  ones is hardly ever reached.
* Team: a machine that differs only in its version of git has "ok" in every cell of a
  row that is not OK, because the environment has no column; `SummaryIsFair` claims
  only the converse.
* Installers: an extraction of the wrapper that is killed leaves a file which every
  later run takes for complete and cannot execute; a run during another's
  extraction fails. A local archive that is not whole leaves the same without any kill, since
  nothing checks it (`installer.py:81-84`, `install.js:133-138`). The downloads of npm and of
  the action have no timeout. The message of `entry.sh` about a missing checksum entry cannot be reached.

## 5. Proofs

Assumed throughout: the named assumption of each module (`ShareAssumption`,
`LanAssumption`, `FixAssumption`, `CheckAssumption`, `ProbeAssumption`, `InstallAssumption`,
`KeyAssumption`, `OnboardingAssumption`, `BaselinesAssumption`), i.e. types of the constants,
finite sets where something is counted, and positive limits. TLC evaluates each of them in the runs.
What a single theorem assumes beyond it is said below.

**ShareServerProofs.** `TypeCorrect` is proved by itself. The safety theorems rest on `ShareIInv`.
`AtMostLimitServed` alone is not inductive: the step that writes a baseline knows only that its
own slot is within the limit, so the invariant has to say that slots are distinct and fill
1..downloads (`SlotsByStage`), and which stages have a slot. "Nothing is cut in a graceful stop"
needs `LeavingMeansDone` and `DoneMeansDrained`: `main` leaves only after `Close` is done, and
`Close` is done without force only when no connection is open and none can be opened. From the
invariant: `SlotsAreExact`, `LimitIsRespected` (by an injection of the served requests into
1..Limit), `GateBeforeSlots` (a chunked body is no obstacle, as section 4 says),
`GracefulStopCutsNobody`, `ClosesForAReason`. `ServerImplementsQuota` adds that each step maps to
a grant, a delivery, the end, or a stutter: the increment is a grant as long as the counter is
below the limit, and a stutter beyond it. `CountIsFinal` adds `CountIInv`: after the drain no
handler is left between its increment and its answer, so that the slots map the answered requests
one to one onto 1..downloads, and that is the number that is printed.

**LanClientsProofs.** `RightBaseline`: whatever shares follow one another, a client compares only
with the baseline of the share it meant. The invariant ties the URL and the data a client holds to
what it meant at each stage; the step that matters is `Resolve`, where the pin equals the share
that was chosen. `CodeIsNeeded`: no client holds a baseline without the code of the share that
served it. `RunningSharesAreCurrent`, if every TTL is positive (section 4 says what happens
otherwise): the stamp that is advertised is never before the timer. `ResolvingIsFree`, for a
finite set of clients: a share loses at most one download for each client that is past its fetch.
`SharesKeepTheirQuotas`: every share implements `ShareQuota`, one instance for each. A client that
has not ended holds nothing and has lost nothing (`LossIInv`), so that its one request is the
first for which the share gives a ticket. `LanTypes`: the one step that is not immediate is the
choice of the first share that has not expired, which is one that was returned because the places
of such have a least (`LeastIndex`). `PrintedCommandsSuffice`, for shares with any flags: whoever
types what a share printed and is turned away for want of a pin or of the right code has met one
of two cases, flags under which the command cannot work, or another share of the repository that
`compare` took. `PrintIInv` says that a client knows only of shares that were started, whose flags
no longer change. `DiscoverIsOneBehind`: of what Discover was handed, its result lacks at most the
last entry, whatever the interleaving of its goroutine and its timeout.

**FixSafeProofs.** `FixTypes`. `FixKeepsUserValues`: `fix safe` takes no value from a person, for
every set of keys, examples and files, any number of runs, writes that break off and kills, as
long as nobody edits `.env` while it runs and editors end its lines (`Undisturbed`; section 4 says
what happens without either). `FixIInv` says that everything in the report, the plan and the
current append concerns keys without a person's value, and that a creation is planned only when
there is none at all. `FixOnlyWhatWasAllowed` needs no such condition: no plan of a dry run is
carried out, and every item of a plan is of the safe class (`AllowIInv`).
`FixSuccessMeansPresent`: after exit code 0 every key that the configuration declares is in
`.env`, unless the run appended to a line that was not ended (`glued`), and if the example has
every declared key (`CompleteExamples`; section 4 says what happens otherwise). `PresentIInv`
follows a key from the report to the file: while the plan is carried out it is in `.env` already,
or in what is being appended, or in an item that is still to come, and a failure on the way is an
exit code other than 0. `FixFixedStaysFixed`, under the same assumption: `.env` is left alone by
every run after one that exited 0, since from then on the report speaks of Docker alone and so
does the plan (`SettledIInv`). The history variable `settled` says that there was such a run. A
write that breaks off leaves a line that is not ended even where every editor ends them;
`NothingToSpoil` says that such a line has no person's value.

**CheckRunProofs.** `CheckTypes`. `ExitCodeTells`: for every list of custom checks and plugins the
exit code is 1 exactly if something blocks; `BrokenPluginsWarn`: a plugin that did not pass, or
broke the protocol, never adds a critical item; `FailuresAreReported`: what did not pass, or broke
the protocol, has one item. They follow from `CheckIInv`: for each job that is over the verdict
fits how its child ended (`Fits`) and its items are in the report, the report holds nothing else,
and of the job in progress nothing is known before its child has ended (`FateIsOpen`), which is
what makes a rejected or unstarted child count as not passed. The part of `CheckEnds` that needs
no fairness is proved as well. `NothingIsRepeated`: each step, whoever takes it, lowers
`StepsLeft`; `StepsAreBounded`: a check of n jobs makes at most 9 n + 12 steps, so that it can
only fail to end by waiting; `OnlyPipesHoldItUp`: and it waits for nothing but a descendant that
keeps the pipe, because a running child has not used up the kill it is due (`FateIsOpen`).

**ProbeRunProofs.** `ProbeIInv` ties each stage to what can have been said when the probe is in it
(`StageFits`), the time that was spent and is left to the rounds that were entered, and each
finished result to what was heard (`Fits`: it is good exactly if the service served, from which an
item is critical exactly if a required service did not). `ProbeExitCode` is then the fold over the
results; `ProbeBudgets` is the refinement: a tick is a `Wait` because `spent + left` is within the
rounds of the kind, a conclusion is an `Answer` that leaves the tail of the budgets, and
everything else stutters. `Fits` is also exact where a good result may still be warned of (the
days of a certificate, a PONG), `VerdictsIInv` keeps the verdicts those of the results after the
exit, and a TLS probe of the plan is an endpoint of the configuration (`EndpointOfPlan`), so that
with distinct names the threshold looked up by name is its own: `ProbeWarnings`.
`ProbeTypeCorrect` comes from both invariants. `NothingIsRetried` is what `ProbeEnds` needs
besides fairness: every step but a change of the net makes `Ahead` smaller (stages of the command,
probes without a result, waits of the probe, ticks, pieces: in this order), and
`WhatIsAheadIsFinite` says that it is a tuple of natural numbers, in which nothing descends for
ever. The two handshakes of a TLS probe and the two reads of a MySQL one are waits of their own,
so that entering the second is progress.

**InstallersProofs.** `InstallIInv` says that what is unpacked is the released archive or one of a
local directory, and with the action only the released one (`ArchiveIsWhole`), that files in use
were created by processes that are past it, so that the next one created is none of them
(`InUse`), that a file is whole or whoever truncated it last is still writing it (`Growing`), and
that jobs of the action do not overlap. From it: `InstallTypes`, `RunsComplete` and
`InstallsComplete`, for any number of processes. The wrappers' part is for runs in which nothing
is killed, no write fails and no local archive is spoilt (`Calm`): section 4 says what is left
otherwise. `SuccessIsReal` is not so limited: that exit code 0 of the wrapper or the action means
an installation follows from `RunsInstalled`, that a running process has the file which is
installed, and from a file in execution being one that cannot be opened for writing.

**BaselinesProofs.** Two facts about all snapshots carry it. `BaselineVerdict`: the
report against a sanitized baseline has a critical entry exactly if the machines
cannot stand in for each other; the case that matters is a required runtime which
one side lacks, where `ApplyProjectContext` overrides the severity of `CompareRuntime`.
`DiffFromBothSides`: each kind of entry is the mirror of the one that the swapped
comparison has, blockers included. `BaselinesIInv` then says what survives the
overlap of commands: a whole file has the snapshot of one machine, sanitized if
it is the baseline; a command knows what it captured and read; whoever was whole
when a directory was listed, and has not been replaced, is still to be read or
has been (`StillListed`). From it: `VerdictTellsTheMaker`, `DiffsAreFair`, `NobodyIsSkipped`,
and `BaselinesTypes`, with `BrokenIsEmpty`. `SummariesAreFair` needs besides that an entry has
a blocker exactly if it is critical (`BlockersAreCritical`), so that a row without
differences has no blockers, and a row without blockers is a machine that could stand in. That no
blocker is lost by the count is an injection of the machines that have it into what is
counted, which is finite however many ports there are, because ports have no blockers
(`FewBlockers`).

**OnboardingProofs.** `AcceptsItsMaker`: for every machine, and whatever tools are slow when
`init` or `check` asks them. `OriginIInv` says that the configuration `init` left was generated
from a capture of its origin, and that a command judges what it captured. The rest is about
operators: what `init` asks of a tool is its presence or the first number of its version, which
that version meets (`MajorIsSatisfied`), a silent tool is a warning, and the sections `init`
leaves empty have no items. `KeysHaveTheirClasses`: what `init` makes of a key is the class that
its hint asks for, for every list of hints; that the first line of the example that fits decides
is shown by the smallest index at which it would not (`LeastNumber`). `VerdictsAreTrue`: `check`
says READY exactly if the machine is `Ready`, section by section (`JudgeIInv`: what a command
looked at was a machine, and a configuration that can be read is one that can be judged by).
Comparing versions part by part is comparing them as numbers in any base that no part reaches
(`ComparatorsAreMeant`). It assumes `TrackedCommands`: handwritten configurations ask only for
commands that capture looks for; section 4 says what happens to others. `OnboardingTypes`, with
names as strings of a configuration, names of tools, or the words of `check` itself (`Words`).

### Only model-checked

* Everything under fairness, which the prover cannot treat: `ShareEnds`, `ClientsEnd`,
  `CheckEnds`, `ProbeEnds`, `WrapperEnds`. For `CheckEnds` and `ProbeEnds` only the fairness is
  left to the runs: the measures that they need are theorems (`NothingIsRepeated`,
  `NothingIsRetried`).
* Deadlock checking, which no theorem replaces, is off: the systems stop.

Everything else that a run checks is also a theorem. The types of `ProbeRun`, `Installers`,
`FixSafe`, `LanClients`, `CheckRun` and `Onboarding` are theorems only (`ProbeTypeCorrect`,
`InstallTypes`, `FixTypes`, `LanTypes`, `CheckTypes`, `OnboardingTypes`): no run is spent on them.
Where one needed an induction over data, as for the hints and the versions of `Onboarding`, it goes
by a smallest counterexample (`NatLessThanWellFounded`), for which no operator need be instantiated.

## 6. What is not modelled

In the modelled parts: HTTP/2 and keep-alive reuse (one request per connection),
the TLS handshake (its outcome only), the listener's accept backlog, the spelling
of fingerprints and URLs, `.env` files that exist but cannot be read, the fallback
of `ApplySafe` that writes a configuration (the command has already loaded one),
and custom checks that write to `.env` (`Edit` stands for them). Of `check`: the lengths of
timeouts of its children, the captured output, the wording of items. Of the probes: what Go's dialer, resolver and
HTTP client do within one wait, retries of a resolver among them. Of the installers: the choice of
the asset for a platform, which is an error or not, and the environment variables
that override it, but for the local directory. Of `init`: a write that
breaks off where what is there already parses, as a shorter configuration. Of the comparison: labels and the
name of the project.

Texts are taken as read: the regular expressions that cut versions, `git status`
and `docker ps` apart, the lines of `.env`, YAML and its quoting, the patterns of secrets and the
redaction of values. No two steps interact there, and an input enumerated character by
character would only repeat the code. The same holds of `internal/config`, whose values
the models take as constants.

Not modelled at all: rendering; `fix guided` and `doctor`, which print a plan and
change nothing; `share`'s flags for the snapshot file it serves; build and release files, and
`install.sh`, which hands over to `go install`.

## 7. Plan

What the project set out to do is done: `ShareServer`, `LanClients`, `FixSafe`, `CheckRun`, `ProbeRun`,
`Installers`, `VersionReq` with `EnvExample`, `CheckRules` and `Onboarding`, and `Drift` with `Baselines`,
each with proofs. What is left, in this order:

1. `Onboarding` composed with `FixSafe`: after `init`, does `fix safe` make `check` pass?
2. `fix guided` with a person who runs some of what it prints.
3. The configurations of section 4 as theorems: from which constants on a disagreement arises.
