# FakeSIP in TLA+

FakeSIP is a Linux daemon. Netfilter rules hand it the first UDP packets of a
flow through an NFQUEUE; it sends decoy SIP packets toward the peer with a TTL
too small to arrive, and accepts the original packet. This directory models the
daemon, checks the models with TLC on small instances, and proves the parts that
matter for every instance with TLAPS.

## 1. The system

| component (source) | state it keeps | operations | hard part |
|---|---|---|---|
| Lifecycle (`mainfun.c`, `signals.c`) | stages set up so far, `g_ctx.exit` | setup ladder, labels undoing it, SIGINT/SIGTERM | every stage may fail; a signal or a kill at any point; another daemon starting |
| Firewall rules (`nfrules.c`, `ipv4nft.c`, `ipv6nft.c`, `ipv4ipt.c`, `ipv6ipt.c`) | the kernel's tables, `use_iptables` | setup, cleanup, rollback, by one command after another | partial installation, leftovers of a killed daemon, ignored failures |
| Commands (`process.c`) | a child process and a pipe | `fs_execute_command` | two processes and a pipe that can fill up; closed standard descriptors; the child outlives a killed daemon |
| Packet loop (`nfqueue.c`) | two error counters, the exclusive queue | setup, loop, callback, cleanup | signals against `poll`/`nanosleep`, error series, missing verdicts |
| Decoys (`rawsend.c`) | three sockets, the interfaces two of them are bound to | setup, handler, cleanup | stale TTLs, stale bindings, TTL arithmetic, partial sends |
| Source cache (`srcinfo.c`) | ring of 500 observations | setup, put, get, cleanup | wrap-around, eviction, wiped slot |
| Payloads (`payload.c`) | circular list on the heap, cursor | setup, get, cleanup, composing a message | failure after linking, freeing a circle, where a host begins and ends, message length |
| Packets (`ipv4pkt.c`, `ipv6pkt.c`) | none | parse, make | header walks at boundaries |
| Options (`mainfun.c`, `globvar.c`) | `g_ctx`, two growing arrays | parsing, defaults, consistency | combinations, growth, spelling of numbers |
| `fs_kill_running` (`signals.c`) | none | walk of `/proc` | processes come and go |
| OpenWrt service (`fakesip.init`, `fakesip.js`) | UCI section, command line | start, validation, saving | two layers that must agree with `main` |
| LuCI status panel (`fakesip.js`) | busy flag, last status, buttons | poll, commands | answers out of order, lost, or late |
| Logging (`logging.c`) | the log file | open, close, print | |
| Build, packaging, tests, docs | none at run time | | |

Interaction: `main` calls the setup functions in order and, after the loop, the
cleanup functions in reverse. The loop calls the callback for each queued
packet, the callback `fs_rawsend_handle`, and that the cache (put for an inbound
packet, get for an outbound one) and the payload list. The rules modules run
`nft` or `iptables` in a child process and wait for it. Everything in one daemon
is a single thread; concurrency comes from signals, children, the kernel, and
other daemons on the same host. A daemon in its loop changes no rules, a daemon
changing rules handles no packets: this is why the packet path and the rules are
separate modules.

What makes each component correct, in one line each, is what the properties of
section 3 state.

## 2. Modules

| module | models | extends / instantiates |
|---|---|---|
| `SrcinfoWindow` | what the cache promises: a window of the last observations | |
| `Srcinfo` | `srcinfo.c`, call by call | implements `SrcinfoWindow` |
| `Hops` | `hop_estimate`, `calc_snd_ttl` | |
| `Rawsend` | `rawsend.c`, step by step through one packet | `Hops`; instantiates `Srcinfo` on its own variables |
| `RawsendProofs` | theorems about `Hops` and `Rawsend` | |
| `NfqLoop` | `fs_nfq_loop`, `error_backoff`, `callback` | |
| `TrafficProofs` | theorems about `Srcinfo` and `NfqLoop`, which the packets go through | |
| `PayloadTurns` | what the payload list promises: round robin | |
| `Payload` | `payload.c` with its heap | implements `PayloadTurns` |
| `SipUri` | `is_ims_sip_uri`, `make_sip_invite` | |
| `PayloadProofs` | theorems about `Payload` and `SipUri` | |
| `Packets`, `PacketsProofs` | `ipv4pkt.c`, `ipv6pkt.c`, and theorems | |
| `Netfilter` | kernel tables and what the commands do (external) | |
| `Ruleset` | the rules, the scripts of commands, their composition by `nfrules.c` | `Netfilter` |
| `Nfrules` | one daemon's rules under faults, kills and restarts | `Ruleset` |
| `RulesetProofs` | lemmas about the rules and scripts of `Ruleset` | |
| `Execute` | `fs_execute_command`, parent and child | |
| `Daemon` | several daemons: ladder, signals, exclusive queue, child commands | `Ruleset` |
| `DaemonProofs` | theorems about `Nfrules` and `Daemon` | |
| `KillRunning` | `fs_kill_running` against the other processes | |
| `ProcessProofs` | theorems about `Execute` and `KillRunning` | |
| `Options` | `main` before and after the ladder, the log | |
| `Numerals` | `parse_ull`, the page's `parseUint32` and its `range()` | |
| `Service` | UCI section, page validators, init script, command line | `Options`, `Numerals` |
| `ServicePage` | the page's status panel | |
| `ServiceProofs` | theorems about `Options`, `Service`, `ServicePage` and `Numerals` | |
| `MC*` | values of the constants for TLC; `MCTraffic` sets `NfqLoop` beside `Srcinfo`, `MCPayload` `SipUri` beside `Payload`, `MCService` the typing of `Numerals` beside `Service` | |

Definitions marked *mutant* are not part of the model: each is one of the
model's definitions with a plausible mistake. They stand in for the original to
show that a property would notice.

A module of theorems that is about two components extends both, so their names must
not clash: `NfqLoop`, `Nfrules`, `KillRunning`, `ServicePage` and `Numerals` have initial
predicates and next-state relations with names of their own (`LoopInit`,
`RulesNext`, `WalkSpec`, `PageSpec`, `TextSpec`, ...).

### Correspondence

* **Srcinfo**: `srci`, `srci_end`, `srci_count` are the statics of the file, `ret`
  what the last call returned. One action per outcome of each function. A put
  with an unknown family blanks the slot before failing, as the `memset` does.
* **Rawsend**: `Setup` and `Cleanup` are the functions and the cache's beside
  them. `Inbound` and `Outbound` are the handler up to the decision, including
  the cache call and the payload taken; `Bind`/`BindFails` and `Send`/`SendFails`
  are one iteration of the repeat loop; `Verdict` is the callback's. The kernel's
  idea of the binding (`bound`) is kept apart from the code's (`sockif`). `heard`
  is a ghost that dates observations independently of the ring.
* **NfqLoop**: `pc` names the place in the loop; entering `poll` and `nanosleep` are
  steps of their own so that a signal can fall before them, where it wakes
  nothing. The callback is gone through place by place, each with its exits: the
  message, its header, payload, interface and hardware address, the handler, the
  verdict; what it returns (`res`) is what the loop counts. That a call to
  `recv` brings one message is taken from the queue (external). `fatal`, `results`,
  `unanswered`, `helpless`, `grace` and `late` are ghosts.
* **Payload**: `heap` maps addresses to nodes; one action per iteration half (link,
  fill) and per round of the freeing loop. What a payload contains is a value.
* **Ruleset/Nfrules**: a script is the list of commands as in the C arrays and
  formatted strings, each with whether its failure is looked at. `CommandFaults`
  is a command that fails for external reasons, with or without effect;
  `CommandRefused` is one the tool rejects. Match conditions are sets of
  interface, peer and kind of packet; the conntrack limit "packets 1-5" is left
  out: it only takes packets away from the queue.
* **Daemon**: `held` are the stages whose resources the daemon has; a command is a
  child between `Fork` and its end; a killed daemon's child becomes an orphan that
  still edits the rules. The queue socket has no close-on-exec flag
  (`set_nonblocking` in `nfqueue.c` sets `O_NONBLOCK` only), so an orphan keeps the
  queue bound. That is what makes `OneCommandAtATime` true. `misses` is a ghost: the
  commands that failed and whose script goes on, which are those of a cleanup.
* **Execute**: `fds` and `kidfds` map descriptor numbers to what they are open on,
  allocated lowest first as the kernel does. The daemon starts with any of 0-2
  closed, so its log or a socket may have one of them. The pipe is counted in
  pieces: `left` to be written, `pipe` in it, `got` read. `before` is a ghost.
* **Packets**: what the parsers read at fixed places is in `pkt`; what the IPv6 walk
  finds further on is chosen when it is read (`Extension`, `Udp`). `chain` and
  `reach` are ghosts: the headers as a whole, and the end of what was read. A
  decoy that was built goes through the parser like a packet from the queue, and
  its three lengths, IPv4's total, IPv6's payload and UDP's, are those of what was
  built; nobody in the program reads the first and the last of them.
* **KillRunning**: `readdir` hands out pids in ascending order from a buffer the
  kernel fills (`Fill`), so the walk sees a process only if it was there when its
  part was read. `steady` are the processes that have been FakeSIP since the walk
  began, `swapped` that a pid changed since its link was read, `unread` the
  processes whose link could not be read (`LookFails`), which the walk passes over
  without an error; the three are ghosts.
  The walk modelled is that of `-k`; `fs_nfq_setup` also calls it with signal 0,
  which sends nothing and only words an error message.
* **Options**: one action per kind of option with its early exits; the arrays have
  capacities and may hold junk after `realloc`. Marks are sets of bits. `Run` stands
  for the whole of `Daemon`, `Kill` for `KillRunning`. `BeginFails` is the start
  without arguments and the failing allocations before the first option.
* **Numerals**: a text is typed character by character; the parsers are operators
  of it. Of its characters the run types (`Typed`) a zero, a decimal digit that is
  octal and one that is not, a hexadecimal digit, `x`, signs, white space and the dot.
  What LuCI's `range()` takes for a number is external.
* **Service**: a section is a record of UCI options, `Unset` where there is none.
  Its numbers are the texts that were typed: the page looks at them with its own
  parsers (`InForm`), saves them as they are, the init script passes on what is
  `Given` (`append_value_arg`, and `append_nonzero_arg`, which leaves out the text
  "0"), and `main` reads them with `parse_ull` (`ReadAs`). A section is edited by hand, saved by the page (which fills in its defaults and infers
  the mode), or started; then `Main` reads the command line argument by argument
  with the actions of `Options`. `argv` is what the script may put on the line, in its
  order, each with whether it is `given`: an option that is off or not set, an empty
  member of a list, a name that is used already or no interface name is not. `optind`
  is how far `getopt` has come; `NextIs` passes over what is not given. In `Main`
  memory suffices and the log opens (`Options` has both failures). `Shell` is `main`
  started by hand, with any options and with those failures.
* **ServicePage**: JavaScript runs one handler at a time, so an action is a handler
  between two awaits; a request that is under way has a state per poll and per
  click. `truth` and `goal` are the daemon and procd. `reached` is a ghost.
* **SipUri**: a URI is a sequence of pieces, a character or a text that the code
  looks for as a whole, the brackets around an address among them; `bytes` is its length. Random numbers are represented by
  how many characters they print as.

## 3. Runs

| run | module, cfg | checks | bounds and why they are enough |
|---|---|---|---|
| `traffic` | `MCTraffic` | `RingIsWindow`: the cache implements the window; `GivesUpOnlyWhenHopeless`, `NoPacketForgotten`, `BackoffGrows`, `ExitEndsLoop` of the loop | 3 slots (wraps and laps), 2 hosts, 2 interfaces, 2 TTLs; 3 failures in a row instead of 20, 10 receive errors in a row pass the cap of the pause; `RingIsWindow` and the loop's safety properties are proved beyond |
| `nfrules` | `MCNfrules` | what may be queued in *every* intermediate state (`QueuesOnlyCandidates`), where expired packets are dropped (`ExpiredDroppedWhereQueued`); exact rules when up; nothing left by a cleanup; no queue after a single fault with iptables; no leftover prevents a start | a host with nft and one without; 2 failures, the one of `nft --version` among them, unlimited kills, 2 interfaces; with nft IPv6 for all or listed interfaces and both families with `-f`, with iptables both families for one interface and IPv4 for all; two excluded IPv4 networks stand for eight; proved beyond |
| `daemon` | `MCDaemon` | `OneCommandAtATime`, `LoopHasRules`, `NoRulesWithoutListener`, `TerminateEnds` | 2 daemons, 2 failures of stages, commands or loops, 2 kills, restarts without limit; the invariants are proved for any number |
| `rawsend` | `MCRawsend` | `DecoyDies`, `AnsweredInFull`, `EgressMatches` (by the right interface and an open socket) | cache of 2 (every observation can be evicted), 2 peers, 2 interfaces, routes of 2, 9 and 70 routers (local, far, beyond 64), 3 initial TTLs, 4 option sets; proved beyond |
| `rawsend_usage` | `MCRawsend`, `MCRawsendUsage` | `UsageDirections` is **violated** | see Findings |
| `payload` | `MCPayload` | `FreesEachNodeOnce`, `PayloadsTakeTurns` (refinement); `ClassifiedByHost`, `AcceptedUriFits` | lists of up to 4 payloads; URIs of 5 pieces, with hosts in brackets, one of 57 bytes brings a URI to 120 and beyond; the widest and the narrowest draw; all four are proved beyond |
| `execute` | `MCExecute` | `PluggedIn`, `NoDescriptorLost`, `SuccessIsComplete`, `EveryCallReturns` | 7 descriptors (the standard ones, log, socket and the pipe moved above), input of 3 pieces against a pipe of 2, so that a write is cut and blocks; the invariants are proved beyond |
| `packets` | `MCPackets` | `InBounds`, `AcceptsExactlyUdp`, `DecoyReadsBack` | lengths on both sides of every comparison, chains of up to 16 headers and a 17th, payloads of 0 to 1200; proved beyond |
| `kill_running` | `MCKillRunning` | `ReportsTruly`, `OnlyFakesipSignalled` | 5 pids with reuse, init and the walker among them; one upgrade; proved beyond |
| `service` | `MCService` | `NotRefused`, `RunsAsConfigured`, `SavingKeepsTargets`; `Terminated`, `RunsConsistent`; `SameNumbers` | the shipped section with up to 4 options changed, to numbers on both sides of every range, some with zeros, a prefix, a space or a fraction, and networks that are up, down or share a device; 4 options in a shell and arrays of 2 instead of 32, so that they grow twice; marks of 2 bits, and 70000 and 3 for the widths of the other numbers and of marks; texts of 5 characters, enough to overflow both; all six are proved beyond |
| `service_spellings` | `MCService`, `MCServiceSpellings` | `FrontendMatchesParser` is **violated** | see Findings |
| `service_page` | `MCServicePage` | `LockedWhileBusy`, `SuccessWasTrue`, `PanelRecovers` | 2 commands in a page's life, 2 looks instead of 8, 1 failed request or fallen daemon; the invariants are proved beyond |

Most modules have a type invariant, `TypeOK`. TLC checks it as the first conjunct
of an invariant of the run (`QueuesOnlyCandidates`, `LoopHasRules`, `AnsweredInFull`,
`FreesEachNodeOnce`, `PluggedIn`, `ReportsTruly`), or it is proved (`Srcinfo`,
`Options`, `Packets`; the proofs about `NfqLoop` and `ServicePage` have theirs in the
inductive invariant). Three runs set two parts side by side that share no
state: one moves while the other rests, so each is explored as on its own.

`CHECK_DEADLOCK FALSE` is set where the modelled part really stops: the handler's
daemon after cleanup, the loop after its return, the list after it is freed, a
packet once it is judged, a walk that has ended, `main` after its exit, and the
texts and sections that have reached their bound.

### Bounds

`MaxFaults` and, in `Nfrules`, `MaxFailures` limit failures from outside, `MaxCrashes`
kills in `Daemon`, `MaxTransient` receive errors without a message between them. `MaxFd` and
`MaxInput` bound the descriptors and the input of a command, `MaxPid` the pids,
`MaxOptions` the options taken, `MaxTyped` those of them in a shell, `MaxEdits` the
changes of a section, `MaxText` the length of a text. Everything
else is unbounded in the specifications or limited by the code itself.

### Fairness

`Daemon`: weak fairness of each daemon's steps. A process is scheduled, and a
command it waits for ends; that it succeeds is not assumed, nor that a queue
error ever happens. `NfqLoop`: weak fairness of the loop's own steps, which
include the poll timeout of 250 ms and the end of a pause. No packet is ever
assumed to arrive. `Execute`: weak fairness of the parent and of the child, that is
of both processes; a program ends of itself, one that reads its input only once it
has seen the end of it. `ServicePage`: every request is
answered, be it with a failure, as the browser's timeout makes sure, its handler
then runs, and the page keeps polling. That the daemon follows procd is not
assumed.

### Findings

* `rawsend_usage`: the usage text calls `-0` "process inbound packets" and `-1`
  "process outbound packets" (`src/mainfun.c:67-68`, `README.md:60-61`). In the
  handler `-1` enables decoys for *inbound* packets and `-0` for *outbound* ones
  (`rawsend.c:397`, `:449`). `docs/fakesip-bug-findings.md:230-244` treats the
  behaviour as expected, so the text is what should change.
* `service_spellings`: `docs/fakesip-bug-findings.md:671-672` says the page validates
  as the C parser does. It trims a mark before it looks at it and saves it untrimmed
  (`fakesip.js:117`), and takes its other numbers by LuCI's `range()`, which knows
  fractions and leading zeros; `parse_ull` (`mainfun.c:101-122`) refuses a space
  anywhere, and the init script leaves out the text "0" alone
  (`fakesip.init:33-42`). So the page accepts a mark `"1 "`, a TTL `255.0` and a
  share `00` or `0.1`, and the daemon does not start. `NotRefused` speaks of plain
  numerals, where they agree.

### Limits of the code the models made visible

Apart from the findings, the following hold of the code and are stated in the
properties as exceptions or left out of them:

* An nft cleanup that fails unnoticed lets the table be loaded twice
  (`ExactWhenUp` excepts it).
* A daemon restarted with another tool or fewer families does not remove the
  tables of its killed predecessor. One `nft --version` that fails for a passing
  reason is enough for another tool: the daemon falls back to iptables.
* A peer behind 64 or more routers whose system starts at 128 or 255 may be taken
  for a nearer one: a decoy may then be omitted or die earlier, but never reaches
  the peer. For a peer that has not been heard lately, 64 hops are assumed, and
  with `-y` its decoys may arrive; `DecoyDies` speaks of known peers only.
* The queue excludes a second daemon only on the same queue number.
* `-k` does not find a daemon whose executable has been replaced since (its link
  reads `... (deleted)`), nor a FakeSIP that is init. It may signal a child that is
  about to become `nft`, or a process that took the pid over, and reports failure
  when a FakeSIP ends between the link being read and the signal. A FakeSIP whose
  link it cannot read it passes over without a word: it may report success with
  that one still running (`ReportsTruly` speaks of those it can read).
* With `-d`, relative paths of `-w` and `-b` are opened after the change to `/`.
* A daemon started with SIGCHLD ignored counts every command as failed.
* The IPv4 parser looks at neither version nor total length: trailing bytes count
  as payload.
* Saving a section on the page that has no `sip_profile` or `repeat` writes
  `china_all` and 1, where the daemon without them takes standard and 2.
* After "restart" the page may look before the old instance has stopped, and
  report that FakeSIP is running.
* The longest message is 1193 of the 1200 bytes. A userinfo with `;` or `?` in it,
  which SIP allows, hides an IMS host; an empty custom file is accepted.
* Without `SO_BINDTOIFINDEX` a socket is bound by name in two calls. An interface
  renamed between them leaves the socket on the wrong one until a packet of another
  interface comes; `Rawsend` binds in one step.

## 4. Proofs

Every safety invariant and every action property a run checks is proved for all
values of the constants. Where a proof says "for all", the assumptions are those
stated in the modules beside the constants; every one is evaluated by a run.

### Firewall rules (`RulesetProofs`, `DaemonProofs`)

Of one daemon under any number of faults, kills and restarts, for any lists of
excluded networks, interfaces and configurations: `OnlyCandidatesQueued`,
`ExactlyConfigured`, `NothingLeft`, `OneFailureIsHarmless`, `ErrorsDropped`,
`LeftoversAreNoObstacle`. The invariant of `Nfrules` has two parts.

* *Whoever left it*, a table has one of a few shapes (`IptShape`, `NftShape`): the
  base chains are empty or jump to `S` and `D`; `R` is empty, or begins with the
  look at the mark; and in a chain that leads to `R`, every jump to it comes after
  all exclusions (`Guarded`). No command any of the scripts may run at any moment
  leaves these shapes. `OnlyCandidatesQueued` and `ErrorsDropped` follow from the
  shapes alone, which is why they hold over the leftovers of a killed daemon.
* *The script that is running* has come as far as its table shows (`Progress`): a
  table after `n` commands of a cleanup lacks what these remove (`CleanupAt`),
  after `n` of a setup it is the beginning of the complete one (`SetupAt`: `s`
  rules of `S`, `d` of `D`, `r` of `R`, in the orders the code interleaves them).
  How many commands failed unnoticed is part of it (`misses`): with none the table
  is known exactly, with one it is known that no path to the queue is left
  (`Unreached`).

The shape is needed because a setup begins on what is there: that the cleanup that
opens it gets *every* leftover out of the way in an order the kernel accepts is what
`LeftoversAreNoObstacle` needs. The lemmas are about what one command does to the
shape and the progress of its table (`RulesetProofs`), and about how the two
families' scripts are interleaved in one list (`Share`).

Of any number of daemons that share a host and a queue: `CommandsExclude` and
`LadderIsKept`, then `LoopIsProtected` and `RulesNeedListener`. The invariant of the
first two: what a daemon holds is the prefix of the ladder that its place and `step`
say (`Ladder`); the queue belongs to one daemon, and to none while an orphan lives
(`OneUser`); a command or a script exists only under the queue (`Commands`). Without
the orphans in `OneUser` it is not inductive: a new daemon could bind the queue while
a command of a killed one still runs. The last two put the invariant of the rules on
top (`FirewallInv`): the script of the one daemon that is busy stands where the tables
show it (`Each`); the command of an orphan keeps the shapes (`LeftBehind`); as long as
nobody was killed and no failed command was gone on after, no daemon busy means no
rules (`Quiet`): stages, commands of a setup and loops may fail as they like, since
the labels they lead to undo what was done. All daemons are
started with the same configuration (`ConfigAssumption`), as in the run.

### Cache and packet loop (`TrafficProofs`)

For every capacity, address set and interface set of the cache:

* `TypeCorrect`: `Spec => []TypeOK`. The types are inductive as they stand.
* `NothingMissed`: `Spec => []NothingOutsideWindow`, inductive relative to
  `TypeOK`. The core is arithmetic modulo the capacity: after a put, the slot that
  was the `i`-th newest is the `i+1`-st.
* `RingImplementsWindow`: `Spec => Window!Spec`. Initial states map to initial
  states, a put to remembering, a get to looking up, everything else to a step
  or a stutter. The lemmas are about the sequence `Held` reads out of the ring:
  what a put appends and drops, and that blanking an unsearched slot changes
  nothing. `NothingOutsideWindow` is needed where the ring is not yet full: only
  then does it follow that the slot being wiped holds nothing.

For every limit of the loop: `GivesUpExactly`, `ExitStopsMessages`,
`PacketsAreAccountedFor`. The error counter is the length of the series of failures
at the end of the last results (`Series`), and the number of packets without a verdict
since the last one that got one: whichever way through the callback, a result of 0
means that the verdict was given; lemmas about appending to that window
and dropping its oldest entry carry it over a message. `PausesGrow`, for a cap of at
least the first pause of 20 ms: the pause is 10 ms doubled with each
error up to seven times, so what is needed is that the power of two grows with the exponent
(`Powers`) and that the cap preserves the order.

### Handler (`RawsendProofs`)

For all TTLs and options: the estimate never exceeds the
true distance for a usual initial TTL (`EstimateIsLowerBound`) and is exact below
64 (`EstimateIsExact`); a decoy's TTL is at least `-t`, below the estimate, and a
byte (`DecoyTtlBetween`); so decoys die on the way (`DecoyDiesOnTheWay`). Of the
handler, for every cache, route and set of interfaces:

* `DecoysLeaveByTheirInterface`, by open sockets (`SocketsAreOpen`). The inductive
  invariant adds that a remembered binding is the kernel's (`Bindings`), that
  every decoy sent left by the interface of the packet under way (`Decoys`), which
  sockets are open while packets are handled (`Opened`), and what is due at each
  place of the handler (`Due`).
* `DecoysDieFirst` and `PacketsAnsweredInFull`. What was heard of a peer less than
  `Capacity` packets ago is in the ring at its age, and nothing newer of that peer is
  (`Memory`), so the handler's estimate is that of the peer (`Estimated`), and what it
  decided from it is what it sends (`Decided`). A put ages everything else by one:
  again the arithmetic of the ring.

### Payloads (`PayloadProofs`)

`FreesOnce`: the allocated nodes, in the order the walk from `current_node` meets
them, form a circle through every one of them (`Follows`), the newest first
during setup (`Filled`), from the node to be freed on during cleanup (`Left`). The
loop that links a node and the one that frees one each take one element off or
put one on that order. `TakeTurns` proves the refinement of `PayloadTurns`: the
abstract rotation is read off the heap node by node, and that what is read is the
circle is an induction over its length, done with the least number for which it
fails. `Classified` and `InviteFits` are about a URI of any length and any pieces:
where its host begins and ends is described by least and greatest positions, and the
bytes of a message are counted along with the text, from the limit of 120. A host in brackets ends at its bracket, any other before the
first colon (`IsAddress`, `IsName`).

### Processes (`ProcessProofs`)

`ProgramPluggedIn`, `DescriptorsKept`, `SuccessMeansComplete`: the daemon's descriptors
are those it had before the call, with one or both ends of the pipe on numbers that
were free (`Holding`); the child's, from the fork on, have the read end at the number
its place says and its outputs where they belong (`KidHolding`); and only an error
keeps the daemon from writing all of the input (`Counted`). That the lowest free
descriptor exists and is free is a lemma about least numbers (`LeastOf`). The
descriptors 0 to 2 are assumed to be numbers a process can have (`MaxFd >= 2`).

`WalkReports`, `WalkSignalsFakesip`: a FakeSIP that the walk has passed is still in the
buffer, under the walk's eyes, signalled, its link could not be read, or there was an
error (`Covered`); who ran
throughout is FakeSIP (`Steady`). Pids the kernel has not yet read are the reason
that a process which appears during the walk is not promised anything.

### Options and service (`ServiceProofs`)

For any number of options, capacity and names:
`TypeCorrect`, `ArraysTerminated`, `StagesGetConsistentContext`, `MainEndsClean`.
The invariant adds the shape of the arrays (`Arrays`: entries up to the count are
filled, zero behind, room for one more), what the checks have established by each
place (`Checked`), and when the log can be open (`Closed`).

Of the way from a section to a running daemon (`ServiceSpec`), for any options, lists,
networks and profiles that `SectionAssumption` admits (lists are lists, switches are on,
off or not set) and any names that are no interface names, the empty one and those too
long among them (`BadAssumption`):

* `DaemonRunsAsConfigured`. The invariant (`LineInv`) is about `main` half way through its
  command line. The section keeps its shape (`Section`), and once something is started
  (`Started`) the line is that of the section. The context is what the arguments given
  up to `optind` say, the defaults elsewhere (`ReadContext`); the payloads are in their
  array in the order of the line (`ReadPayloads`), the interfaces each once
  (`ReadInterfaces`), which rests on the shape of the arrays (`Array`, `Roomy`); and
  after the last option nothing given is left (`NoneLeft`). The line has seven parts,
  whose places are sums of the lengths before them (`LineHasParts`), and an argument
  changes exactly one of the three. At the end of the line the parts are read off: the
  names given are the usable ones (`NamedAre`), and `Check` completes only what no
  option has set (`CheckConfigures`).
* `PageNeverRefused` uses the same invariant at the places before: no argument of an
  accepted section is out of its range (`PageIsTaken`), and the context main checks is
  consistent (`PageIsConsistent`), since the validators are about the same options. It
  speaks of sections whose numbers are plain numerals: of those `main` reads the
  value the page has read, in a mark (`NumbersAgree`) and in a range (`RangeRead`).
* `TargetsKept`, by the mode the page infers: the options it then writes or removes name
  the same devices as those it found (`SavedKept`).

`NumbersAgree` (of `TextSpec`), for every text, however long, and all widths: the run of
digits that `strtoull` reads ends with the text if and only if the text is a numeral. A
text that begins with space or sign, a decimal one, `0x` with and without a digit behind
it are cases of their own, and the count of positions is one of sets of numbers. The value of the
digits is the same expression on both sides, so what it sums up to is not needed.

Of the status panel, for any number of clicks, attempts and failures:
`PanelStaysLocked`, `SuccessIsWitnessed`. The invariant: at most one command is under
way and only while the flag is set (`OneChain`), an answer a chain waits with was
true at a moment since the command (`Witnessed`), and a notice stays (`Reported`).

### Packets (`PacketsProofs`)

For every set of field values: `TypeCorrect`, `ReadsInBounds`, `AcceptsExactly`,
`DecoysReadBack`. The invariant: during the walk `offset` plus
`remaining` is the end the packet claims, which lies inside it (`Walking`), and the
headers read form a chain without gaps that ends at `offset` (`Chained`). That a
packet is refused only for a cause is proved step by step: each exit of the walk
leaves the chain in a form that is not acceptable. `DecoysReadBack` assumes payloads of
at most 1200 bytes, the buffer of `payload.c`; the lengths written into a decoy stand in
it beside its size (`DecoyLengths`), and that they agree is part of the theorem.

### What is not proved

Proved but not among the properties TLC checks, because a refinement or a wider
property of a run already covers them: `NothingOutsideWindow` (`Srcinfo`),
`NoMessageAfterExit` (`NfqLoop`), `HeldIsPrefix` (`Daemon`) and `EndsClean`
(`Options`).

Only model-checked: the liveness properties `TerminateEnds`, `ExitEndsLoop`,
`EveryCallReturns` and `PanelRecovers`, which are out of the prover's reach. That
`ValueOf` is the number a numeral denotes is its definition: it is a fold over
the text, and what a fold computes for every text is induction over data.

Induction over numbers is done through the least counterexample (`WFMin` of the
library with `<` on `Nat`), since the induction theorems themselves take an operator.

## 5. Not modelled

The functions of `logging.c` that print; build, packaging, tests: no behaviour to
check. Of the OpenWrt package: `service_triggers` and reloading, which are a call to
procd whose answer to an interface event between stop and start is its own; the
read-only page, which only disables buttons; which IPv6 companion networks the page
hides; wording. Checksums, addresses and the bytes of payloads are data no property
depends on. `setpriority` only warns. Between the two calls
that bind a socket by name the model does not stop.

## 6. Plan

Done: the cache, the rules, the lifecycle, the handler, the loop, the payload list,
then commands, packets, `-k`, options, the service and its page.

Also done: every safety invariant and every action property is proved.

Next:

* The lemmas of `RulesetProofs` in fewer, more general forms: a command of a script
  changes one chain, and keeps what is said of the others.
* `Main` of `Service` with failures of memory and of the log, which `Options` has:
  `NotRefused` then has to tell a refusal from a failure.

The theorem modules are as many as the project keeps; new theorems about these
modules go where a module about the same component already is.
