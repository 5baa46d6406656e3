# Verification of ever-node-tools

TLA+ models of the command-line tools in `src/bin`, model-checked with TLC and
proved with TLAPS.  The tools are nine small binaries around libraries of the
node (adnl, dht, ton_node, ton_block).  The one with the most control logic of
its own is `console`, which drives a validator's node through its control port;
`adnl_resolve` and `dhtscan` search the DHT, `zerostate` writes the files a
network is launched from, `print` reads a node's database and `adnl_ping` asks
one peer.

## Inventory

| part | state | operations | hard parts | properties that make it correct |
|---|---|---|---|---|
| `console` (`console.rs`): command table, parsing | none | `parse_*`, `send`, `receive` of 18 commands | 32-bit arithmetic on times | times to live in range, documented parameters accepted |
| `console`: process and control client | script or input lines, command under way, files | connect, batch and interactive loop, `process_command`, `election-bid`, `recover_stake`, `config_param` | eight dependent remote calls without rollback, lost and late answers, concurrent consoles, crash within a write, batch going on after errors | a saved bid is backed by the node and lasts, keys are not shared, no stale file is sent unnoticed, a batch ends |
| control server of the node (external) | keys, registrations, messages | generate, export, sign, add..., send, report | executes queries whose sender gave up | assumed |
| `adnl_resolve` | list of peers, bad peers, index | add presets, look up, ask the next peer, refill | list shrinks while it is traversed, DHT learns in the background | index in range, bad peers not asked again, none skipped, gives up only if all are bad, reaches every peer |
| DHT node (external) | known peers | add, list, learn | grows at any time | assumed |
| `dhtscan` | known nodes, overlay nodes, counters | ask presets, scan overlays, ping and report | counters below zero with repeated presets, nodes returned twice, report cut short, DHT learns in the background | the numbers printed mean what they say, every responding new node is reported, the report ends |
| `zerostate` | files | import, write .boc files, check, write config.json | files written before the check and before config.json, failures in between, repeated and concurrent runs in one directory | config.json names checked states whose files are there |
| `print` | none | blocks, states, shards, accounts | JSON cut short by an error, commas across empty shards | output is well formed, whole if the call succeeds |
| `adnl_ping` | none | set up, two queries | missing key, silent peer | the tool ends |
| `keygen`, `keyid`, `gendht` | none | one or two library calls, printed | none | - |

The console talks to the node by a query and an answer over one ADNL
connection; consoles share the node and the current directory.  `adnl_resolve`
and `dhtscan` run a DHT node in the same process, whose threads fill its tables
while the tool awaits a call.  The runs of `zerostate` share a directory.

The hazards are listed in `PROJECT.json`, each with the properties that watch it.

## Modules

| module | models | remarks |
|---|---|---|
| `Commands` | the `commands!` table, `parse_*`, `now`, every `send` and `receive` of `console.rs` | pure; `Wrap` is 32-bit arithmetic, `QueryId` is `now() as u64` |
| `ControlNode` | the control server (external) | a query has a set of outcomes, each a new node state and an answer |
| `Console` | `main`, `ControlClient` of `console.rs` | any number of consoles and one node |
| `ConsoleSafety` | - | the properties and the inductive invariants `BidInv`, `KeyInv` and `SeqInv` |
| `MCConsole` | - | scripts and configurations for TLC |
| `ElectionBid` | what `election-bid` promises | abstract specification, implemented by `Console` |
| `ConsoleProofs` | - | proofs: types, `BidInv`, a saved bid is backed and lasts |
| `SessionProofs` | - | proofs: consoles run one after the other; keys of concurrent and failed bids, `max_factor` |
| `PromiseProofs` | - | `Console` implements `ElectionBid` |
| `Dht` | the DHT node (external) | a growing set of known peers |
| `AdnlResolve` | `scan` of `adnl_resolve.rs` | with its properties |
| `MCAdnlResolve`, `AdnlResolveProofs` | - | instance and proofs |
| `DhtScan` | `scan` and `scan_overlay` of `dhtscan.rs` | with its properties |
| `MCDhtScan`, `DhtScanProofs` | - | instance and proofs |
| `Zerostate` | `zerostate.rs` | several runs in one directory |
| `MCZerostate`, `ZerostateProofs` | - | instance and proofs |
| `PrintDb` | `print.rs` | the output is a sequence of tokens |
| `MCPrintDb`, `PrintDbProofs` | - | instance and proofs |
| `AdnlPing` | `adnl_ping.rs` | with the peer as its environment |
| `MCAdnlPing` | - | instance |

`Console` extends `ControlNode`, which extends `Commands`; `AdnlResolve` and
`DhtScan` extend `Dht`; `ConsoleSafety` instantiates `ElectionBid`.  Operators named `X_Y` beside an operator `X` (such as
`Verified_Never`) are faulty variants of `X`, used only to show that the
properties notice such a fault.

### Console

A console is a process that is `off`, `ready` for the next command, in a `call`
(about to build a query), `waiting` for the answer, `answered`, about to `open`
a file, `saving` it, `pausing` after a command of a batch, or over.

* `step[c]` is the number of the `process_command` call of
  `process_election_bid` that is under way, 0 outside of it.  `loc[c]` holds
  its locals `perm`, `pub_key` and `adnl`.
* A query is sent by `SendQuery`, executed by `Serve` or refused by `Refuse`,
  and consumed by `BidStep`, `BidSigned`, `CommandDone` or a failing
  counterpart.  `GiveUp` is `adnl.query` returning an error; the query then
  stays in `pending`, no longer live, and the node may execute it later.  Its
  answer never reaches the console: ADNL answers carry the id of their query.
* `std::fs::write` is `OpenFile` (which truncates) and `WriteFile`; both may
  fail, and `Kill` may fall between them.  `Path` holds every file there is:
  `sendmessage` of a name outside of it fails like that of a missing file.
  Reading a file that exists may fail, too.
* `out[c]` is what the last file-writing command of a console is about: the
  path it is to write, recorded when the command starts, and the body, which is
  `Unwritten` until the command gets as far as `std::fs::write`.
* There is one `clock`, read by the consoles and by the node, and `Tick` only
  moves it forward.  The code reads `SystemTime` (`now`, `console.rs:154`), which
  can be set back, and which differs between hosts; see Assumptions on time.
* A parameter is its value and the encoding it is written in; `parse_*` are
  predicates on the encoding.  A file is a record of what was put into it.  A
  signature is the key and the data it belongs to.  Nothing else of the formats
  matters to the properties.  An answer whose payload cannot be decoded is
  treated like one of an unexpected type, since both end the command alike.
* Arithmetic on `ton::int` wraps, as in a release build; a debug build would
  panic instead.
* `max_factor` is counted in units of `1/FactorDen`, so that the limits and the
  conversion to 16.16 fixed point are exact integers.
* `wallet_id` is "masterchain" if it has the prefix `-1:` and decodes.

The control server is external.  Assumed of it: a new key pair is different
from all earlier ones; a registration names keys the node holds; an entry is
kept once it is made; the time to live of a temporary key and of a validator
address counts from when the query is handled; a signature it returns may be
wrong, and any query may be refused.

Assumptions on time.  `BidLasting`, the part of `BidInv` on times to live
(`Asked`) and `KeepsPromise` rest on the one clock that moves forward: a time to
live is `expire_time - now()` at the console, and counts at the node from when
the query is handled.  If the node's clock is behind the console's, or is set
back in between, a registration may end before the bid does.  The other
properties do not depend on it.

### AdnlResolve

`pc` is "start" while the config is read and the ADNL and DHT nodes start, each
of which may fail, "presets" until the loop begins, then "lookup" (awaiting
`find_address_with_context`) or "probe" (awaiting `find_dht_nodes`).
`bad_nodes` is only searched for members and is a set here.  `get_known_nodes`
returns the known peers in any order, and any `KnownLimit` of them if there are
more.  `Background` is the DHT node's own threads.  `responded` is a history
variable: the peers that were asked and responded in this round.

### ElectionBid

Bidders go from idle to bidding to signed and back; a draft may be signed only
when the node's ledger backs it and its registrations last, only a signed draft
gets into a file, and files may be lost.  The calls, the messages, the failures
and the clock do not occur.  The mapping in `ConsoleSafety`: a console is
bidding while one of the eight calls is under way (`InBid`) and has signed while
a body that is a bid is about to be written (`BidReady`); its draft is that
body; a file is saved if it holds a bid; the ledger is the node.  `KeepsPromise`
is the abstract specification under this mapping.

### DhtScan

`pc` follows `scan`: reading the configuration, adding the preset peers,
asking them, `scan_overlay` for the masterchain and for workchain 0, the report.
One `find_overlay_nodes` with what is printed after it is one `Search`.
`preset` is the list in the global config with its repetitions, `listed` what
`get_known_nodes` returned last, and `nodes` what the report has still to look
at.  Subtraction of `usize` wraps (`Minus`), as in a release build.  `announced`
and `silent` are history variables.  What an overlay node or a DHT node looks
like in print is left out.

### Zerostate

A run reads its input, builds the states of its workchains one by one, then the
masterchain's, checks it and writes `config.json`.  `std::fs::write` is two
steps, truncation and write; `Die` is a failed `unwrap`, `expect` or `?`, or a
kill, anywhere.  A state is a record of what distinguishes it, a hash the record
of what it is taken of, and a `.boc` file is named by that hash, so equal states
of different runs meet in one file.  `sound` says whether the state passes the
checks of `write_zero_state`.  A truncated file stands for a partly written one.

### PrintDb

The flags decide which reports are printed, in the order of `main`; `--boc`
excludes all others.  `--accounts` is modelled token by token: brackets,
commas, accounts; every read may fail (`main` returns the error) and an account
without address, balance or storage info panics.

### AdnlPing

The command line, the set-up and the two queries.  `PeerAnswers` is the peer; it
may answer when the tool has given up on the query, and the ADNL node then drops
the answer, as answers carry the id of their query.  `key_by_tag` fails if the
local config has no key with the tag.

## Runs

| run | question | bounds |
|---|---|---|
| `race` | two bids side by side | 2 consoles, 4 keys (two per bid), clock 6..8 around `IntMax = 7` |
| `retry` | sessions one after the other on the same file | 2 sessions of 4 scripts each, clock 7..8, across `IntMax` |
| `commands` | every command, in batch mode and as input lines | 2 consoles, one of each mode, of which one has commands; all commands in accepted and rejected forms; `max_factor` 100.25 in batch mode, 100 otherwise |
| `resolve` | the search of `adnl_resolve` | 4 peers, one unusable, limit 3, five global configs |
| `dhtscan` | all modes of `dhtscan` | 5 peers, one unusable, limit 4, six global configs, 2 overlay nodes, `usize` of 16 values |
| `zerostate` | runs in one directory, at the same time or one after the other | 3 runs, 4 inputs, 2 workchains |
| `print` | every combination of flags | no, one or three shards, 0 to 2 accounts in each state |
| `ping` | two queries to a peer | every command line of 3 to 7 words, local configs with either tag, both or none |
| `blank`, `doc_addadnl`, `doc_sign`, `doc_bid` | see Findings | 1 console, 1 command |

Bounds.  `IntMax = 7` stands for 2^31 - 1: what matters is on which side of the
limit the clock, `elect_time` and `expire_time` are, and the runs have the clock
before, at and after it.  Two consoles are enough for every interference, since
a bid meets others only through the key set and the files; four keys let both
bids complete.  A second session suffices to meet the file of a first.
`KnownLimit = 3` of 4 peers is the least at which the list is cut off and at
which all usable peers can still be known.  The configs of `dhtscan` repeat a
peer once and twice, so that the subtraction wraps, and its limit is reached.
The inputs of `zerostate` are two that share the state of workchain 0, one that
shares none, and one that fails the checks; three runs are a first, one that is
killed while it rewrites a file of the first, and one that repairs it, or that
runs at the same time.  Three shards with an empty one anywhere are all that the
comma's flag can tell apart.  Keys (and in `race`, consoles; in `zerostate`,
runs) are symmetric; the runs with a liveness property use no symmetry
(`KeepsPromise` is a safety property and symmetric).  Deadlock is not checked:
every process ends, and a console without input lines waits for ever.

Fairness.  The console's thread goes on (`WF` of its own steps), and
`AdnlClient::query` returns in the end, with an answer or an error, since its
stream has read and write timeouts (`WF` of `GiveUp`).  Nothing is assumed of
the node, of files, or of starting a console.  In `AdnlResolve` the steps of
`scan` are weakly fair: lookups and queries of the DHT node time out.  The same
holds of `DhtScan` (pings time out, too; that its search loops end is not
claimed) and of `AdnlPing` (both queries time out).  Nothing is assumed about
what the peers answer.  The clock moves forward only (see Console), but need not
move at all.  `Zerostate` and `PrintDb` are checked for safety only.

What they show:

* `BidBacked`, `BidLasting`: whatever fails or overlaps, a complete
  `validator-query.boc` has its keys and address registered at the node, for
  long enough, and a signature of the permanent key over exactly this bid.
  This rests on each `?` of `process_election_bid`, on the final `verify`, and
  on the time to live being computed no later than it begins to count.
* `CredentialsUnshared`, `AbandonedNeverSaved`: bids do not share keys, and a
  query of a bid that is executed late never concerns a saved bid.  (A command
  that an operator types about the key of a saved bid is not a query of a bid.)
* `SentFresh`: `sendmessage` after a failed command may send the file of an
  earlier session, since the batch goes on; but not without a printed error, at
  whichever step the command failed: in the checks of its parameters, in one of
  its calls, or in the write.
* `FactorInRange`, `EventuallyExits`, and for `adnl_resolve` `IndexInRange`,
  `BadNotAsked`, `SkipsNone` (a peer is passed over only if it was asked),
  `GivesUpOnlyIfAllBad`, `EveryPeerAsked`.
* `KeepsPromise`: seen from the ledger and the files, the consoles do nothing
  but draft, sign what the node supports, and save what they signed.
* `CounterExact`, `NoneFound`: the numbers of `dhtscan` are exact if the global
  config repeats no peer.  Each repetition lowers "Found n new DHT nodes" by
  one, below zero to nearly 2^64, and hides one new node from "No DHT nodes
  found".  `AnnouncedAddUp`, `ReportComplete`, `ReportEnds`: overlay nodes are
  counted once, and a printed total is that of a complete report.
* `ConfigBacked`, `ConfigChecked`, `SuccessLaunchable`, `LastRunLaunchable`: a
  complete `config.json` names checked states whose files exist; a file it needs
  can only be incomplete if a run that writes the same state again was cut
  short, and a successful run repairs it, unless another run is under way.
* `AccountsPrefix`, `AccountsComplete`: what `--accounts` prints is a beginning
  of one JSON object with every account, and all of it if `main` returns Ok.
* `PingEnds`: `adnl_ping` ends, also if the peer never answers.
* `BidInv`, `KeyInv`, `SeqInv`, `ResolveInv`, `ScanInv`, `ZeroInv` and
  `PrintInv` are the inductive invariants of the proofs.

## Proofs

All theorems hold for any sets of consoles, keys, files, scripts,
configurations, peers, runs, inputs and databases.  What they assume of the constants:

* `IntMaxAssumption`: `IntMax` is positive; `NoneAssumption`: `None` is not a
  hash.
* `ConsoleAssumption`: the clock stays below 2^32, where one wrap is exact (the
  year 2106); `None` is not a file; `max_factor` is an integer number of its
  units, if it is given.
* `PeerAssumption`, `ResolveAssumption`, `ScanAssumption`: there are finitely
  many peers and overlay nodes, and fewer of them than `usize` has values.
* `ZerostateAssumption`: `None` is none of the other values, and an input's
  workchains are workchains.
* `PrintAssumption`: the options are flags, a database has finitely many top
  blocks, and for these and the masterchain block finitely many accounts.

Beyond the constants, the theorems on `Console` assume what the model does: a
control server as described above, and one clock that moves forward only.

### A saved bid is good: `ConsoleProofs`

`ConsoleProofs` proves `TypeOK`, `BidInv`, `BidBacked` and `BidLasting`.
`BidBacked` is not inductive: that a body is good when it is written depends on
what each of the eight answers meant when it came.  `BidInv` therefore says of
every bid under way (`ConsoleInv`):

* the checks of the parameters have passed (`BidChecked`);
* all calls before `step[c]` have taken effect on the node (`Completed`);
* the query that is waited for is the one of the current call, and its time to
  live, counted from now, is long enough (`Asked`);
* an answer of the right type means that the call took effect (`Answered`);
* a body about to be written is good.

`WaitInv` (at most one live query per console, and only while it waits)
connects an answer with the call it belongs to.  The argument: the node only
grows (`OutcomeGrows`), so what is true of a bid remains true under the steps of
others (`Frame`, `GoodStable`); a query is built by `SentBid`, which needs the
arithmetic lemmas `TtlLongEnough` and `WrapExact`; it is executed by
`ServedBid`; `BidStepInv` turns the answer into a completed call and
`BidSignedInv` eight of them into a good body.

### The refinement: `PromiseProofs`

`PromiseProofs` proves that `Console` implements `ElectionBid`, that is
`Spec => KeepsPromise`.  With `BidInv` every step is
one of a few kinds: it is not seen except for the ledger's growth
(`HiddenStep`: the calls, the node's answers, the clock), it ends a bid or a
console (`OneMoves`), or it is one of the four steps of a bid: `StartBid` is
`Begin`, `BidSigned` is `Sign` (here `SignedGood` is needed, which rests on all
of `BidInv`), `WriteFile` is `Save`, and `OpenFile` or the write of something
else is `Lose`.

### Keys of concurrent and failed bids: `SessionProofs`

`CredentialsUnshared` and `AbandonedNeverSaved` are not inductive, since they say
nothing of a key on its way from the node to the bid, nor of a body that is not
yet on disk.  `KeyInv`, inductive together with `BidInv`, adds:

* every key that a bid holds, has received (`Claimed`), has saved or has
  abandoned is one of the node's keys, so that a new one differs from all;
* what different consoles claim is disjoint;
* a bid under way claims no saved or abandoned key, and a body about to be
  written has exactly the keys of its bid, none of them abandoned;
* a query that is waited for concerns a key of the bid that waits (`OwnKeys`).

Most steps add no key anywhere and change at most what one console claims, to
less (`ModestInv`).  The others are `Serve` of a key generation
(`HandledKeyInv`, where freshness enters), `BidStep`, which moves a received key
into the bid's locals, `BidSigned` and `WriteFile`, which move the bid's keys
into a body and a file, `SendQuery`, and the steps that abandon a query
(`AbandonKeyInv`): the bid ends with it, so that it will save nothing.

`FactorInRange` is proved through `FactorInv`, which says the same of bodies
about to be written, and of every bid under way that its factor was checked.  Its core is `FixedRange`: a factor that passes the check
(1 to 100, in units of `1/FactorDen`) is rounded by the truncating division to a
fixed-point number that is still in the range.

### One console after the other: `SessionProofs`

`SentFresh` is claimed, and true, only if consoles do not run side by side, as
in the run `retry`: the theorems assume `~Concurrent`.  It says nothing of the
time between the end of a command and a later `sendmessage`.  `SeqInv` adds that
at most one console runs, and that a console that has printed no error, and is
not within a command that writes a file (`Writing`), finds in the file that its
last such command was to write what that command wrote (`FileFresh`).  Every
way out of such a command but the completed write prints an error; and the file
does not change afterwards, as no other console runs.

### The DHT: `AdnlResolveProofs`, `DhtScanProofs`

`AdnlResolveProofs` proves `TypeOK`, `IndexInRange`, `BadNotAsked`, `SkipsNone`
and `GivesUpOnlyIfAllBad` through `ResolveInv`, which adds that the peers of a
round are distinct and not bad (if the config lists none twice), and that preset
peers are known and usable.  `RemoveAtElements` is what `Vec::remove` leaves.

`DhtScanProofs` proves `TypeOK`, `CounterExact`, `NoneFound`, `AnnouncedAddUp`
and `ReportComplete` through `ScanInv`: preset peers are known from when they
are added, so a list below the limit has all of them; the announced numbers of
overlay nodes add up to the size of the set; and during the report the listed
nodes are split into those still to come, the reported and the silent ones.
`NewNodesCount` and `MinusShift` are the arithmetic: the number printed is the
number of new nodes less the repetitions, modulo 2^64.

### Files of a network: `ZerostateProofs`

`TypeOK`, `ConfigBacked`, `ConfigChecked`, `SuccessLaunchable` and
`LastRunLaunchable` follow from `ZeroInv`, which ties what a run holds in memory
to the directory: every `.boc` file is whole or was cut short by a run that is
dead or still writing it (`FilesSound`); a run has written a file for each
state that it has built, and its descriptions name those (`RunSound`);
`config.json` is that of a run that is done (`ConfigSound`); a run that has been
alone since it started has left its files whole (`LastSound`).  As a file is
named by its hash, another run that opens it writes the same state
(`FileHashInjective`).

### The report of the accounts: `PrintDbProofs`

`TypeOK`, `AccountsPrefix` and `AccountsComplete` hold for any number of shards
with any numbers of accounts, none among them.  `AccountsPrefix` is not
inductive: it says neither which accounts are still to come nor that the comma
before the next one is right.  `PrintInv` adds, for every step within the report
(`Report`), that what was printed and what is left of the current state make up
the accounts of the blocks loaded so far, that the blocks left are the last
ones, that `first` is true just as long as nothing was printed, and that the
output is the printed accounts joined by commas; before the report, that nothing
printed belongs to it.

The accounts of all blocks are a concatenation of any number of sequences, and
what it is has to be shown by induction over that number.  The induction
theorems of the library take an operator and cannot be used; `NatInductionSet`
states induction for a set of numbers instead, and follows from the least member
of a set that is not empty (`LeastNat`, by `WFMin`).  With it:

* `FlattenExists` and `FlattenUnique`: the recursive function behind
  `FlattenSeq` exists and is determined by the sequences, so that one more
  sequence is appended (`FlattenStep`), which is what `LoadState` does
  (`AccountsOfNext`); the accounts of the first blocks are the first of all
  (`AccountsOfPrefix`);
* `JoinedAppend`: one more account adds itself, and a comma before it unless it
  is the first, which is what `PrintAccount` prints; `JoinedPrefix`: the
  beginning of the accounts is printed as the beginning of the output;
* `PartGrows`, `PartStays`: the report consists of all that is printed from its
  opening on, and of nothing else.

`ReportAt` names the blocks loaded and the accounts printed; `ReportIs` gets them
from the invariant before a step, and `ReportNow` shows the invariant after it.

### Only model-checked

* Liveness under fairness, which is out of the prover's reach: `EventuallyExits`,
  `EveryPeerAsked`, `ReportEnds`, `PingEnds`.
* The violations under Findings.

## Findings

* `blank`: a command without words (`-c " "`, or a comment line in interactive
  mode) panics in `command()`, whose `expect` says that this cannot be.
* `doc_addadnl`: `README.md` documents three parameters for `addadnl`; the code
  takes a key hash and a category, and rejects the documented form.
* `doc_sign`: `README.md` allows base64 data for `sign`; only hex is read.
* `doc_bid`: `README.md` says that `election-bid` sends the message to the
  blockchain; it only writes a file.

Observed while reading, without a run: `-t` is documented in seconds and as a
command timeout, but is a pause in microseconds after each command of a batch;
`print` documents `-d` for what is `-p`; at the end of its input an interactive
console spins; `adnl_resolve` panics on an address shorter than 32 bytes; the
`query_id` of a message is the system time in seconds, so two messages of the
same second have the same id, and ids go back if the system time is set back.

## Not modelled

`keygen`, `keyid` and `gendht` keep no state, make one or two calls of a
library and print the result; there is nothing in them that a step of another
actor or a failure could disturb.  The content of blocks, states, accounts,
addresses and node records, and how they are printed, is that of the libraries.
Left out of `console`: the texts it prints, logging, the conversion of
statistics to JSON, and the reading of the zerostate in `config_param` (any
outcome is possible).

## Plan

1. Done: `Commands`, `ControlNode`, `Console`, their properties and proofs;
   `Dht`, `AdnlResolve` with proofs.
2. Done: `DhtScan`, `Zerostate`, `PrintDb`, `AdnlPing`; `ElectionBid` and the
   refinement, with its proof.
3. Done: the proofs of `SessionProofs`, `DhtScanProofs`, `ZerostateProofs`
   and `PrintDbProofs`: every invariant of a passing run
   and the refinement are theorems.
4. Left: shorter proofs where several actions disturb the invariants in the same
   way.
