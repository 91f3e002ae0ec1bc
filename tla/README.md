# TLA+ models of the RG-MA2820 community firmware

This directory specifies the parts of the firmware whose correctness depends on
*when* things happen: power losses, reboots, commands that run at the same time,
peers that do not answer, timers, answers that come late. It contains TLA+ modules translated from the
scripts under `src/`, TLC configurations that check them on small instances, and
proofs, for every value of the constants, of every safety property that the
passing runs check.

Paths below are relative to `src/`; `P` is `persistent-overlay`, `C` is
`community-overlay`, `H` is `hybrid-overlay`.

## 1. The system and its parts

An access point boots an immutable bootstrap from one UBI volume. It chooses one
of two system volumes (A/B) by a record in a third volume, starts it, and a
health gate in the started system accepts the boot or reboots. A running system
is administered by shell commands (from LuCI through rpcd, from another access
point over SSH or a signed CGI call, or from a terminal). Access points form
wired pairs (`ap2`, `ap3`) or clusters (community nodes).

| Part | Source | State it keeps | Operations | Talks to | What is hard | What makes it correct |
|---|---|---|---|---|---|---|
| Boot state | `P/usr/libexec/rg-ma2820/bootstate` | record in UBI volume 6 (active, pending, booting, request, generation, checksum), lock directory, four scratch files in `/tmp` | `status prepare reject accept stage activate recovery retry` | everything that boots, accepts, updates or resets | callers at once, callers killed, power loss inside a write | a record is coherent; one slot start per credit; commits are atomic while the lock is respected |
| Bootstrap (PID 1) | `P/sbin/rg-ma2820-bootstrap-init` | the slot it is trying | try a slot, reject it, enter recovery | boot state, volumes | every step may be the last before power is lost | a bad image never strands the device |
| Boot acceptance | `P/etc/init.d/rg-ma2820-boot-success` | marker, boot counter, stable count | watch health, accept, roll back by reboot | boot state, all services | acceptance in three writes; time-out; stale reads | it accepts what it watched; no endless reboots |
| System updater | `P/usr/sbin/rg-ma2820-system-upgrade` | a volume being written | write, read back, verify, stage/activate, reboot | boot state, volumes | a long time between the check and the write | the accepted system is not touched |
| Factory reset, reset button, peer commands | `P/usr/sbin/rg-ma2820-factory-reset`, `.../reset-watch`, `P/usr/sbin/rg-ma2820-peer` | flags in `/var/run` | retry, recovery, reboot | boot state | hasty reboots | as for the boot state |
| Recovery updater | `P/usr/sbin/rg-ma2820-recovery-upgrade` | recovery volume, RAM copy, three shell flags | back up, write, verify, restore | UBI, block layer | failure or a signal at any of fourteen steps | the volume holds the original or a checked image, or an alarm is raised |
| Wi-Fi settings | `P/usr/sbin/rg-ma2820-set-wifi` | `wifi.env`, `wifi.env.new`, the rollback copy | apply from JSON, for the pair, staged, owner form | Wi-Fi service, the wired peer | no lock; errexit switched off in a condition; full flash | a report agrees with what is installed |
| Wi-Fi service | `H/etc/init.d/rg-ma2820-wifi` | state file with the configuration hash, hostapd processes | start, stop | set-wifi, neighbour sync | the file may change while it starts | the hash tells what the radios run |
| Cluster commands | `C/usr/sbin/rg-ma2820-cluster`, `C/www/cgi-bin/rg-ma2820-cluster`, `C/usr/share/ucode/rg-ma2820/cluster.uc` | `cluster.env`, nonce cache | configure, disable, apply-wifi, apply-timezone, sync-neighbors | every member over HTTP | members lost half way, late answers, two dashboards | nothing is applied before all have accepted |
| Cluster sync loop | `C/usr/libexec/rg-ma2820/cluster-sync-loop` | neighbour file | one round a minute | members, roaming | rounds that fail leave a file | a neighbour file is recent |
| Roaming daemon | `P/usr/libexec/rg-ma2820/roaming-steer` | `.weak`, `.soft`, `.last` files per station | soft and hard steering, manual steering | hostapd, neighbour file | stale files, many timers | steer only to a recent neighbour; press only who was asked |
| Management addresses | `P/usr/libexec/rg-ma2820/management-loop`, `P/etc/init.d/rg-ma2820-management` | FALLBACK_IP, dnsmasq, udhcpc | ask by DHCP, serve, pause | the loops of other nodes | leader election by time-outs; restarts | one server, no lease lost in a pause |
| Neighbour sync of a pair | `P/usr/libexec/rg-ma2820/neighbor-sync` | peer state file | round with the peer, channel repair | Wi-Fi service, roaming | a failed round leaves the file | a stale peer is not a target |
| Channel selection | `P/usr/libexec/rg-ma2820/channel-select` | none | choose a channel | Wi-Fi service | ties, forbidden channels | never the peer's channel when there is a choice |
| Time zone | `P/usr/sbin/rg-ma2820-timezone` | three UCI options, a lock per access point | set the zone of one access point, or of the peer first and then its own; restore | the peer over SSH | each end calling the other; a time-out that leaves the command running; a restore that fails | a refused zone is put back whole; no call waits for ever; both ends agree |
| Provisioning, network layout, overlay migration | `C/etc/init.d/rg-ma2820-provision`, `P/etc/init.d/rg-ma2820-network-layout`, `*/etc/uci-defaults/99-rg-ma2820-recovery` | UCI files, identity | first boot | everything | a power loss between two files | a second boot completes the first |
| LEDs | `P/usr/libexec/rg-ma2820/led-loop`, `src/led-traffic.c` | packet counters | choose a colour | reads others' state | counters wrap | — |
| Web backend | `P/usr/share/rpcd/ucode/rg-ma2820.uc` | rpcd's queue of calls | one helper at a time for each call | all commands and status helpers | a call goes on when its request has ended; a long command holds up all calls behind it | every call ends |
| Wi-Fi page and cluster page | `P/www/luci-static/resources/view/rg-ma2820/wireless.js`, `C/www/luci-static/resources/view/rg-ma2820/cluster.js` | the form, the profile it was made from, modal, buttons, what is shown | edit, save, scan, act, join and leave a cluster, poll | the web backend | the page checks with what it knew when it was loaded; hidden options are part of what it sends; late, lost and failed answers | accepts what set-wifi accepts; sends nothing that was not touched; spinners stop; it shows the truth in the end |
| Dashboard, status commands | `P/www/luci-static/resources/view/status/index.js`, `P/usr/sbin/rg-ma2820-wifi-status`, `P/usr/sbin/rg-ma2820-webinfo` | what is shown, timer, checkbox | load, detect the time zone, set it, poll | web backends of both access points | detection once although several browsers look; a peer that answers pings and nothing else | "All systems operational" is true of the pair |
| Image builders, serial tools, OpenWrt overlay | `tools/`, `openwrt-overlay/` | none | build time only | — | — | — |

`PROJECT.json` lists the same parts with the modules that model them and, under
"hazards", each place in the code where a test would hardly reach.

## 2. Modules

Modules come in three sorts: the specification of a part; an `MC...` module with
the values TLC needs; a `..._proofs` module with theorems.

| Module | Models | Lines of correspondence |
|---|---|---|
| `BootState` | The record and every bootstate command as an operator on it | The shell variables `ACTIVE PENDING BOOTING REQUEST` are the fields of `Record`; `Invalid` is a volume that fails `read_state`. Guards (`MayAccept`, `MayStage`, ...) are the `die` tests, updates (`Accepted`, `Staged`, ...) the assignments before `write_state`. |
| `BootCredit` | *Abstract*: what A/B booting promises | A slot starts against a credit and spends it; credits come only from a system that is up. |
| `ABSystem` | The device: boot state, both volumes, PID 1, gate, updater, administrator | One action per operation. `boot.pc`, `gate.pc`, `upg.pc` are the positions of the three programs; a `bootstate` call is one step because it holds the lock. |
| `BootStateFiles` | `bootstate` one file operation at a time | `RAW TEXT PAYLOAD NEW` are the scratch files; a redirection empties its file (`Truncate`) before the command fills it (`Fill`); `lock` is the directory. `Interrupt` is the INT and TERM trap of line 98, which removes the directory and lets the command go on; `Kill` is a signal without a trap. `strays` is history: the calls that came or went on without the directory since nobody was inside. |
| `RecoveryUpgrade` | `rg-ma2820-recovery-upgrade` | One action per command of the main path that changes a volume, device, mount or flag, and one per command of the EXIT trap. `Signal` and `Interrupted` are a signal on the main path, `Killed` one in the EXIT trap, which begins by giving up its traps. |
| `SetWifi` | `rg-ma2820-set-wifi` and stop/start of the Wi-Fi service | Files are inodes with names, so an open `wifi.env.new` is still written after another command has renamed it. |
| `ClusterApply` | `apply-wifi` of one or more dashboards over the members | The three loops (authenticate, validate, apply) and the local call; `handlers` are the set-wifi commands that run on a member, also after the caller gave up. |
| `Roaming` | `roaming-steer` on a cluster member, `cluster-sync-loop`, `sync-neighbors`, `configure`/`disable` | Files are modelled by the age of the time they hold. |
| `PairRadios` | `neighbor-sync` of ap2 and ap3, the channel choice of the Wi-Fi service and `channel-select`, what `restart_radios` of `set-wifi` does around them, the pair's `peer_ready` | `svc` is the last start of the radios, `radio` the state file, `entry` hostapd's neighbour list, `round` the local variables of `sync_once`, `file` and `marker` its two files. The two calls of `install_neighbor` are `RemoveNeighbor` and `SetNeighbor`; the restarts of neighbor-sync and of roaming are `RestartSync` and `RestartRoaming`, and the new neighbor-sync removes the file in its own time (`SyncStarts`). |
| `WirelessForm` | The options of `wireless.js` with their conditions, validators and `retain`, and `configuration_from_json`/`validate_configuration` of `set-wifi` as operators on a form | Numbers are tenths, as the page takes fractions. `Shown` is `depends`, `Valid` the validators, `Parsed` what Save puts into the data; `Normalized`, `SetWifiAccepts` the shell functions. |
| `WebPages` | The two configuration pages in their tabs, and rpcd below them | `data` and `form` are `formData` and the inputs; `queue` is what rpcd has yet to serve, `answers` what is on its way to a page; `Ended` is `catch` and `finally`. |
| `Timezone` | `rg-ma2820-timezone` on both access points of a pair | `proc[n]["own"]` is the command below rpcd, the slots `Ssh` those that the peer started; the value of `pc` is where in the script it is. |
| `Health` | `collectWarnings`, `renderHero` of `index.js`, `attach_peer_status` of the backend, the warnings of `wifi-status` | operators only. |
| `Dashboard` | The dashboards of both access points in some browsers, rpcd on each, and `Timezone` below | `page.phase` is the place in `load()`; `Answered` the callbacks of the commands; `kept`, `met` and `settled` are history. |
| `Management` | `management-loop` of the nodes on one wire with DHCP | One tick is 15 s; what is due in a tick happens before the next, in any order. |

Composition: `ABSystem` EXTENDS `BootState` and instantiates `BootCredit` with
`phase <- Phase, credit <- Credit(vol)`; `BootStateFiles` EXTENDS `BootState`, so
the same guards and updates are checked both as single steps and as sequences of
file operations. `ClusterApply` uses the two outcomes of `SetWifi` (installed,
or put back) as its `Install` and `Finish`.
`WebPages` EXTENDS `WirelessForm`, so that the page and the program it calls are
checked against each other: there a command is one step, and `SetWifi` and
`ClusterApply` have its parts. `Dashboard` EXTENDS `Timezone` and `Health`: a
command runs step by step below the rpcd that waits for it, and its own steps
are those of `Timezone` with the variables of the pages unchanged.

Definitions that begin with "Variant" in their comments are plausible wrong
versions of the definition that follows them. No specification uses one. Putting
one in the place of the original shows that the property it is listed with
can fail (`PROJECT.json`, "mutants").

## 3. Runs

| Run | Configuration | Asks | Result |
|---|---|---|---|
| `ab_cycle` | `ABSystem_cycle.cfg`, 562 000 states | Is the record coherent, does the gate accept what it watched, is the accepted slot left alone, is a slot started once per credit (refinement of `BootCredit`), does the device come to rest? | holds |
| `ab_trial` | `ABSystem_trial.cfg` | Is what is tried what the updater verified? | **violated**: a second upload over a staged slot |
| `files_locked` | `BootStateFiles_locked.cfg`, 398 000 states | With any commands and one signal of either kind: are there never more callers inside than the directory and the calls without it explain, are commands atomic on the shared files while nobody is inside without it, does each end? | holds |
| `recovery_upgrade` | `RecoveryUpgrade_checks.cfg`, 800 states | Original or checked image or alarm, wherever two failures and two signals fall? Is the original kept, is a mount that stays announced? | holds |
| `setwifi_commands` | `SetWifi_commands.cfg`, 314 000 states | Does each report agree with what is left behind, and does nothing but a staged file get past the checks? | holds |
| `setwifi_staged` | `SetWifi_staged.cfg` | Is a staged profile that fails validation kept out? | **violated**: errexit is off there |
| `cluster_commands` | `ClusterApply_commands.cfg`, 51 000 states | Is success everywhere, does failure leave the caller, does acceptance come first? | holds |
| `roaming_member` | `Roaming_member.cfg`, 858 000 states | Is a station steered to recent neighbours only, pressed only after it was asked, pressed in the end, and left alone without a neighbour? | holds |
| `pair_radios` | `PairRadios_pair.cfg`, 491 000 states | Is a ready peer in hostapd's neighbour list, but for what is being replaced or was refused, and do the channels end apart or with the one repair spent? | holds |
| `management` | `Management_pair.cfg`, 21 000 states | For ap2 and ap3: does a loop own the address it serves from, is there one server, is there some server, does the network's own server win? | holds |
| `web_pages` | `WebPages_tabs.cfg`, 114 000 states | Does the page let through what set-wifi refuses, does it send what nobody touched, do spinners stop, does it show the truth in the end? | holds, with the exceptions that `Unseen` names |
| `dashboard` | `Dashboard_pair.cfg`, 139 000 states | Are options put back, do both ends agree, is a zone detected once, is "All systems operational" said of both, do calls end? | holds |

The two violations are disagreements between the code and its own documents and
messages; `PROJECT.json` ("findings") quotes both sides.

Further disagreements have a configuration each, with one property that the code
violates (`tlc -config X.cfg MC...` with the module the name begins with). The
passing runs are stated around them, with a premise that names each:

| Configuration | Violated | What TLC finds | What the runs say instead |
|---|---|---|---|
| `BootStateFiles_status.cfg` | `CommitsAlwaysAtomic`: "Atomic A/B system-root state" (`bootstate:2`), "Checksummed atomic A/B state" (`docs/ARCHITECTURE.md:53`) | `status` takes no lock (`bootstate:109`) and replaces PAYLOAD between the checksum and the file of an `accept`, which commits a record that the next read finds invalid | `CommitsAreAtomic` asks for `strays = 0`: no call is inside that has not taken the lock or has lost it to a trap |
| `BootStateFiles_signal.cfg` | the same | the trap of `bootstate:98` removes the lock on INT and TERM and does not exit: the interrupted `accept` empties RAW while a `recovery` reads it, and that writes from the default record | the same |
| `RecoveryUpgrade_trap.cfg` | `NeverSilentlyLost`: "keeps a complete in-RAM backup and attempts restoration" (`docs/ARCHITECTURE.md:64-67`), with "CRITICAL: ... do not reboot" when that does not succeed (`recovery-upgrade:81`) | `on_exit` begins with `trap - EXIT INT TERM` (line 77): a first signal while the backup is written back kills the program, half an image is in the volume and nothing is announced | `VerifiedOrOriginal` is about a program that comes to its end; `OriginalKept`, that the copy is in RAM, also about one that is killed |
| `Roaming_cooldown.cfg` | `HardFallbackComes`: "Hard fallback for persistently weak clients" (`wireless.js:568`) | with a cooldown shorter than the hard delay, which page and `set-wifi:330-339` accept, each soft request renews the record before it is old enough | `PressedInTheEnd` asks for `Delay <= Cooldown`, and for `Delay <= Window`, as a sample has to fall into the window; nothing compares the sampling interval with the window either |
| `PairRadios_refused.cfg` | `NeverHalfConfigured`: "written only after all three neighbor entries were accepted by hostapd, so a stale or half-configured peer is never used as a roam target" (`neighbor-sync:138-140`) | a later round removes an entry, `set_neighbor` fails, and the file of the round before stays (lines 129-135) | `EntriesBehindFile` excepts bands whose last `set_neighbor` did not succeed, a band that is being replaced, and the time from the restart of roaming until the new neighbor-sync has removed the old file |
| `Management_lockstep.cfg` | `OneServer`: "adding APs does not create N DHCP servers" (`management-loop:113-115`) | two community nodes whose hashes are equal modulo 90 have equal waits; switched on at one moment they serve and pause together for ever | `OneServer` is claimed for the waits of ap2 and ap3 |
| `Management_stuck.cfg` | `ActiveIsLeased`: "management DHCP active" (`management-loop:133`) | a loop restarted or killed while it serves finds FALLBACK_IP on the bridge (lines 57-62) and stays there without a lease | `SomeoneServes` and `UpstreamWins` ask for `restarts = 0` |

`InstalledChecked` excepts in the same way what staged files brought
(`setwifi_staged`).

The runs spend their properties on what could go wrong: the type invariants
(`TypeOK`, `TzTypeOK`, `FilesTypeOK`, `LoopsTypeOK`) are in none of them. Each is a theorem
(Section 4), that of `Timezone` as a part of that of `Dashboard`, and it holds
in the run of its module when it is added to the INVARIANTS of the .cfg.

### Bounds

| Bound | In | Value | Why it is enough |
|---|---|---|---|
| `HealthChecks`, `StableChecks` | ABSystem | 3, 2 (of 36, 9) | a gate can fail, pass at once, and pass after a failure; the counts do nothing else |
| `MaxFaults` | ABSystem | 2 | a fault and a second one in the repair of the first: a power loss after a write error, or in the boot after a power loss |
| `MaxUploads` | ABSystem | 2 | an image over an image that is staged, running or refused |
| `MaxRequests` | ABSystem | 1 | one administrator command at any moment of all that |
| `MaxReboots` | ABSystem | 2 | a reboot into the trial and one after it |
| `Slots` | ABSystem | 2 | the device has two (the proofs hold for any number) |
| `Procs`, `MaxCommands`, `MaxSignals` | BootStateFiles | 2, 3, 1 | a second command beside the first, a third that finds what they left; a directory left by one killed, or removed by one that goes on |
| `MaxFaults`, `MaxSignals` | RecoveryUpgrade | 2, 2 | one failure starts the restoration, the second breaks it; one signal starts the EXIT trap, the second ends it |
| `Callers`, `StagedProfiles`, `MaxFaults`, `MaxFull` | SetWifi | 2, a good and a bad one, 2, 1 | two commands, one after another and interleaved; radios that fail to start and again after the rollback |
| `Nodes`, `MaxTotal`, `MaxFaults`, `MaxLate` | ClusterApply | 3, 2, 2, 1 | with two peers one can have the profile when the other fails; a retry or a second dashboard over what the first left |
| timers, `MaxFaults`, `MaxChanges` | Roaming | ticks in the order of the defaults; 1, 1 | each comparison of times has values on both sides; one lost request or round; one change of cluster or restart of the daemon |
| `Channels`, `Noise` | PairRadios | two per band; scans differ on 2.4 GHz | a collision, a free channel, and a fallback that the peer has |
| `MaxFaults`, `MaxCommands`, `Attempts` | PairRadios | 1, 1, 1 and 2 (of 3 and 6) | one power loss, link loss, lost call, refused entry or failed start anywhere around a change of settings and a repair (scans fail freely, and so does the start after a rollback); an answer at the first or a later attempt, or none |
| waits, `MaxSwitches`, `MaxRestarts` | Management | 30/60 s and 60/75 s as 2/4 and 4/5 ticks; 2, 1 | the real waits of ap2 and ap3; the network's server goes and comes back |
| `Tabs`, `MaxUses`, `MaxFaults` | WebPages | 1, 3, 1 | open, edit and save, or a second command before the first has been answered; one answer that fails or never comes, or one change by somebody else, who may be another tab. Two tabs have more than 2.5 million states, and a tab meets the other only through the access point |
| `Starts`, `Others`, `Edits` | WebPages | access points with hidden options, without a secret, in and out of a cluster or in a pair; inputs on both sides of each rule | each condition and validator holds and fails somewhere |
| `Browsers`, `MaxUses`, `MaxFaults`, `Ssh` | Dashboard | one at each access point, 3, 1 (and a restore that fails on top), 2 | both set the zone at once, and one again; a command that a caller gave up beside the next one it starts |
| `Zones`, `Known` | Dashboard | three, of which one access point lacks one | a zone that the peer takes and the own access point refuses, and the other way round |

### Fairness

Only programs that have been started are assumed to go on, each by weak fairness
of its own steps: the init process, the gate and the updater (`ABSystem`), a
caller (`BootStateFiles`), a dashboard's command and the handlers on the members (`ClusterApply`), the
scripts of each access point (`PairRadios`), the loops and time (`Roaming`,
`Management`), rpcd with its queue, the timers of the pages and their callbacks
(`WebPages`, `Dashboard`), a time-zone command that can go on (`Dashboard`). No
request is assumed to time out, which is what makes `CallsEnd` say that nobody
waits in a circle. This is what the kernel's scheduler gives. Nobody is assumed to start an update, a command, a
request or a reboot. Two assumptions concern the surroundings and are stated in
`ABSystem!Fairness`: power comes back (`PowerOn`), and so does the management
LAN (`LanRecovers`); without the latter the gate rightly goes on rebooting. The
radios are *not* assumed ever to work. Time (`Tick`) passes only when what is due
has been done, which is why the loops cannot fall behind; the real loops sleep
for seconds and need milliseconds.

Configurations with `CHECK_DEADLOCK FALSE` describe programs that end, a device
at rest that nobody touches any more, or dashboards that have all been closed.
The two models with time and the pages with their timers never stop and are
checked for deadlock.

## 4. Proofs

TLAPS proves the following for every value of the constants that satisfies the
named assumptions of the modules. Where a theorem has a hypothesis of its own it
is in the table.

| Module | Theorems | Argument |
|---|---|---|
| `BootState_proofs`: ABSystem | `TypeCorrect`, `CoherentAlways`, `GateCommitsRunning`, `SlotsHeld`, `FallbackUntouched`, `ImplementsBootCredit`, `NeverStranded` | The invariant is `IInv == TypeOK /\ RecordCoherent /\ BootingIsRunning /\ SlotHeld`. `RecordCoherent` alone is not inductive: that `accept` keeps it depends on the gate's slot being the one in the record, and that depends on who holds which slot. `SlotHeld` is the strengthening: PID 1 holds its slot from `prepare` to the start, the updater of a running system writes only while nothing is booting and never the active slot. Each action has a lemma or a step; the action property and the refinement follow from `IInv` and one step each. For `NeverStranded` the invariant gets `Standing`, which holds as long as nothing has failed and nobody has asked for anything (`Calm`): the active slot has an image that mounts (`Startable`), the bootstrap rejects only a trial, and only once (`Booting`), and the gate of an accepted system never runs out of time, because it is healthy at each check (`Running`). It is needed whole: that the next start finds a good slot depends on what the gate accepts, and that on where the start before it has come to. |
| `BootState_proofs`: BootStateFiles | `FilesTypeCorrect`, `MutualExclusion`, `FilesFollowAlways`, `Atomicity` | For any callers, commands, `status` and signals included. `MutualExclusion` counts: a caller that comes in takes the directory or counts as a stray, an interrupt takes the directory and counts one, an exit takes one of those inside away, and may take the directory of another only where a stray is left to count for it; the count starts again when the last has left (`Exit`). With no strays it says that whoever is inside is alone (`AloneInside`). On that rests what each scratch file holds at each step of the one inside (`FilesFollow`): at `update` NEW is the sealed record made from the volume, and `Atomicity` follows. |
| `ClusterApply_proofs` | `TypeCorrect`, `ProfilesAreAccepted`, `SuccessReaches`, `FailureKeeps` | The invariant is `TypeOK` with `Progress`: in the validation loop accepted and still to be called members together are those found, in later loops all are accepted. `ValidatedFirst` follows for any number of members, dashboards, losses and time-outs. The other two are about a dashboard that is alone. `AloneInv` says of one (`Solo`) that no handler runs anywhere but at the node it waits for, that this one has its profile and would put back what it found, that the members behind it in the loop have its profile, and that its own node is as it was until it calls itself. |
| `SetWifi_proofs` | `TypeCorrect`, `Installs`, `HashCorrect`, `SuccessCorrect` (if there is a command), `ReportsCorrect` | For commands that take turns `Progress` says what `wifi.env`, the rollback copy and the peer hold at each step, and `Turns` that what is being started is what `wifi.env` holds. For `Installs` each command past the check has a profile that passed it or was staged, and what it found and would put back was left by such a command (`Valid`). `SuccessInstalls` has no such premise: commands may overlap. Its invariant is a count that needs no numbers. Each command creates `wifi.env.new` or finds it, and renames it once. When one finds it, more commands wait to rename than there are files (`Crowded`), and that lasts until one of them fails; if none does, each wrote a file of its own (`Orderly`), and the last to rename is in place. |
| `Daemons_proofs`: Roaming | `TypeCorrect`, `NeighbourFresh`, `HardLast` | How old an answer is when it is recorded (`Recent`): a round that has found a member of its cluster has lasted at least as long as the answer is old, and the file in which the answer is recorded is at most the time of a round younger. The file of a soft request is of the last one, and no good signal came after it (`Pending`), from which the action property follows. |
| `Daemons_proofs`: Management | `LoopsTypeCorrect`, `FallbackOwned` | `LoopOK` says of one node what its program counter, its timer, its client, its lease and the bridge have to do with each other; no step changes two nodes but the passing of time. |
| `PairRadios_proofs` | `TypeCorrect`, `ReadyIsListed`, `AvoidsPeer` | `EntriesBehindFile` says what the list holds between two rounds. `Behind` has what each band holds meanwhile: a round removes and sets one band after the other and publishes its file at its end, a band that it has not come to is as the round before left it, one it has set is as the peer it looked at. And the radios stay up as long as the round and the file count on them. `AvoidsPeer` is about the choice after a scan (`Scanned`), the own fallback included: the loop of `channel-select` keeps the best of the channels it has seen, which is a minimum of scores that puts the peer's channel after all others (`BestIsLowest`); that the minimum exists is the well-foundedness of the naturals. |
| `RecoveryUpgrade_proofs` | `TypeCorrect`, `EndsVerified`, `OriginalIsKept`, `MountAlarmed` | The safety properties speak of the end; the invariant says, for each step of the main path (`MainInv`) and of the trap (`HandlerInv`), what the volume, the copy in RAM and the three flags are: the copy is whole before the volume is touched, `restore_pending` is set exactly while an unchecked image may be in it, and a restoration that is due has a copy to restore from. A program that was killed in its trap (`Killed`) has still the copy. `MountedIsAlarmed` needs that a mount without its flag has made the restoration fail (`MountInv`). For any number of failures and signals. |
| `WebPages_proofs` | `PageAgrees`, `OnlyUnseenRefused`, `UntouchedSent`, `TypeCorrect` | `PageAgrees`: the checks of the page imply those of `set-wifi`, option by option, for every form in which the page has seen all that `set-wifi` will check (`Checked`: no fraction in a number, sound hidden options, a country and a width of the lists) and every secret. `Parsed` and `Normalized` each keep the conditions (`Shown`, `Up`) that a check depends on. The invariant of `OnlyUnseenRefused` is about the queue: each `configure` in it that is `Checked` will be agreed to whatever secrets the access point has by then, as long as those the page counted on are there. Save adds such a call by `PageAgrees`; no other step adds one. `UntouchedSent` needs that an option nobody has touched is as it was loaded both in the form and in the data below it (`Kept`), since Save takes each option from one of the two. For `TypeCorrect` the types are followed from the form into the queue and from there into the profile (`Typed`, `Sendable`, `CallTyped`), and back with the answers. |
| `Dashboard_proofs` (with Timezone) | `TypeCorrect`, `RestoredAlways`, `DetectsOnce`, `GoodShowsAll`, `PairAgreed` | `TzInv` says that a command is between lock and unlock exactly when it holds the lock, that what it would put back is what was kept (or two failures have met), that a zone once detected stays so, and that each command that is waited for has one caller that waits. `DashInv` adds what pages and queues hold: a page that is open shows what some state of the pair gave it, from which `GoodIsComplete` follows. For `PairAgreed` `InTurn` says, while nothing has failed and no two commands have met, where the two ends are: one of them calls at most (`OneCaller`), the command below sshd does what it was asked (`Helps`), and the options differ only from the moment the called end has set the zone until the caller has (`Leads`). For any databases, browsers, slots and failures. |

The assumptions on the constants are what the code or the program around it
fixes. Most say that bounds and times are numbers and that a value that stands for
"none" is none of the others. Those that say more:

* `GateAssumption` (ABSystem): the gate checks at least once and the stable checks
  fit into its time; they are 36 and 9.
* `CommandsAssumption`, `ProcsAssumption` (BootStateFiles): calls have the forms of
  the script's `case`, and the callers are finitely many, to count them.
* `TimesAssumption` (Management): a client asks its server again, and then any
  server, before its lease ends.
* `ChannelsAssumption` (PairRadios): the fallback of a band is one of its channels.
* `SteeringAssumption` (Roaming): a weak signal is counted at least once.
* `PeerAssumption` (Timezone): two access points, each the other's peer.
* `AccessPointAssumption`, `EditsAssumption` (WebPages): the access points considered
  have every option, and an input gives an option a value of its kind, as the
  widgets of the form do.

What stays with TLC are the liveness properties (`Settles`, `CommandsEnd`,
`PairSettles`, `PressedInTheEnd`, `SteeringStops`, `OneServer`, `SomeoneServes`,
`UpstreamWins`, `OperationsEnd`, `CallsEnd`, `ShownInTheEnd`), because TLAPS does
not reason about fairness and ENABLED. Every invariant and every action property
of a passing run, and the refinement of `BootCredit`, is a theorem.

## 5. Abstractions and limits

* **Power and flash.** UBI is external: a volume whose update is cut off is
  unreadable, which is what the kernel does with its update marker. In the model
  a power loss inside `write_state` loses the record; the next boot is in
  recovery and the accepted slot is no longer known. The safety properties
  hold across that, and `Settles` shows that recovery is where it ends.
* **Health.** The twelve checks of the gate are one outcome per round.
* **Signed calls.** HMAC, nonces and clock windows of the cluster calls are taken
  to work.
* **Profiles.** What makes a profile valid is the constant set `ValidProfiles`;
  the option checks of lines 273-346 are one step.
* **Two Wi-Fi commands at once.** `InstalledChecked` and `ReportTells` are claimed for commands that take turns while the flash has
  room (`Undisturbed`). The script has no lock, and these two do not
  hold for two commands that overlap: a rollback can restore the other command's
  failing profile. What still holds for overlapping commands is
  `SuccessInstalls`. `HashTells` needs turns, not room.
* **Two dashboards at once.** `SuccessSynced` and `FailureLeavesCaller` are
  claimed for a dashboard that is alone and has not timed out (`Alone`);
  `ValidatedFirst` and `CommandsEnd` without a premise. A member that needs more
  than the 45 s of `rg-ma2820-cluster:69` applies a profile that the caller has
  reported as failed there (`TimeOut` and `Finish` in the model); no property
  denies it.
* **Late answers.** `CommandsEnd` and `ValidatedFirst` of ClusterApply hold with them;
  that a late rollback may go over the profile of a retry is in the model, and no
  property denies it.
* **Signals** reach the shell alone. A Ctrl-C, which also reaches the command that
  the shell runs, is left out; a command that outlives its killed shell is
  modelled for `ubiupdatevol`, and not for neighbor-sync's `hostapd_cli`.
* **Roaming.** `FreshNeighbour` is about the cluster whose id the daemon read when it
  started; after `configure` this is not the configured one. One station; the wall clock is not stepped. The record of a soft
  request outlives the association it was made in, so a station that obeyed and
  came back within the window may get the hard request; `HardAfterSoft` says what
  holds.
* **Radios of a pair.** Channels are automatic. `set-wifi` and the repair of a
  collision do not restart the radios of one access point at the same time: the
  init script has no lock, and what two starts at once do is left out. A scan is
  a score per channel, and of the 5 GHz scores only the fallback's and the
  peer's matter in the run. Two things hold in the code that one might not
  expect, and `PairSettles` and `EntriesBehindFile` are stated around them. A
  round that fails leaves `PEER_STATE_FILE` where it is: with different
  configurations every round fails, and the peer stays a roaming target on its
  old channel for as long as it answers pings, although the comment at
  `neighbor-sync:138-140` says that a stale peer is never one (`PairRadios_refused.cfg`
  has the half-configured one). And when the one
  repair fails (no scan, or the peer did not answer in time) the two stay on one
  channel until a radio restart or a boot.
* **Management.** Clocks run at the same speed and the waits are exact;
  `SomeoneServes` and `UpstreamWins` are claimed while no loop is restarted, for
  the reason `Management_stuck.cfg` shows. dnsmasq is taken to start: the branch at
  `management-loop:142-146` is left out, and line 82 ignores its failure.
* **Web pages.** LuCI is external and modelled by what these pages use of it:
  Save runs the validators of all options that are shown, puts what changed into
  the data and draws the form again. `Open` is one step; a load that fails (after a failed capabilities
  call the page offers fallback lists, and an untouched manual channel that is not
  among them can be sent as `auto`, `wireless.js:481` and `:534`), the
  read-only form of a recovery system and what a refused Save has already parsed
  are left out, and so are the tables of clients, radios and scan results. rpcd
  serves calls in the order they came.
* **Dashboard.** The three status calls of a poll are one; answers are drawn when
  they are given. The branch of `wirelessNodes` and `collectWarnings` for clusters is
  left out. The option `timezone` goes with `zonename`, of which it is a function.
  Signals and power losses inside the time-zone command are not modelled; the
  number of commands that a peer runs for a caller that gave up is bounded by
  `Ssh`. `PairAgrees` is claimed for commands that do not meet (`met`).
* **Two updaters at once** are not modelled.
* **Faults are finite.** A marker of the gate that can never be written (`boot-success:232`),
  which would reboot an accepted system for ever, is beyond `MaxFaults`.

### What the models of the web interface show beside their properties

The properties are stated around the following, which the code does:

* Saving with 5 GHz switched off clears `enable_5g_legacy`, and saving an open BSS
  clears its FT and MFP (`set-wifi:278-281`), although hidden options "are still
  part of the complete atomic profile" (`wireless.js:602-603`): the page keeps
  them (`UntouchedKept`), the program does not.
* The page does not check what it hides: `hard_rssi` and `hard_window` are compared
  with options that may change while they are hidden. Nor does it check a country
  that was typed freely, 160 MHz is offered when the driver has it and refused
  by `set-wifi`, and LuCI's `range` takes 4.5, which `valid_uint` (`set-wifi:45-50`)
  does not. `Checked` names the four.
* Two pages that were loaded from one profile each send all of it; the second
  undoes what the first changed. There is no revision to compare.
* A request that times out says that the configuration failed while `set-wifi` goes
  on, and the profile is installed.
* A poll of the cluster page draws its inputs again and erases a name or a secret
  that is being typed; a helper that fails reads as "Standalone".
* Radios of the peer that are off raise no warning of their own in the dashboard
  of a pair: `GoodIsComplete` says that they are listed, and on only for the own
  access point.
* A poll that fails leaves "All systems operational" on the page until one is
  answered (`ShownInTheEnd`).
* Two commands that set the zone of a pair from both sides at once both succeed
  with different zones, against "timezone changes apply to both APs"
  (`index.js:550`).

### Not modelled

* First-boot provisioning, network layout and overlay migration: long sequences
  of UCI calls whose hazard is a power loss between two of them; to say what a
  second boot completes needs the contents of a dozen files, and a model of them
  would be a copy of the scripts.
* LEDs: a function of others' state, without effect on any.
* Service starters, wrappers, image builders, serial tools, the OpenWrt overlay:
  linear scripts, or code that runs on the developer's machine only.
* What a factory reset deletes (the request and its reboot are in `ABSystem`), the
  nonce cache and the clock window of the signed calls, `webinfo` beyond the
  fields that raise warnings, and the list of clients.

## 6. Plan

Done, in this order: BootState, BootCredit, ABSystem; BootStateFiles; the proofs
of both; RecoveryUpgrade; SetWifi; ClusterApply and its proofs; Roaming;
Management; PairRadios; WirelessForm and WebPages with their proofs; Timezone,
Health and Dashboard with theirs; the proofs of
RecoveryUpgrade, SetWifi, Roaming, Management and PairRadios.

What would come next:

1. `NonceCache`: the replay cache of the CGI with concurrent requests and its
   limit of 128.
2. `Provision` with the overlay migration: first boot as a sequence of groups of
   files with a power loss between any two; the second boot completes it.
3. A second updater in ABSystem, beside the one that rpcd runs.
4. Proofs: the parts of `PairSettles` that are safety, as steps that only
   bring the end nearer; `ClusterApply` with its `Install` and `Finish` as a
   refinement of what `SetWifi` does on a member.
5. The dashboards of a cluster: the page asks for the scope "cluster" there, and
   the parts of that command are in ClusterApply.
