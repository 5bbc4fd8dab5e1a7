# A verification of the firmware of bl-armada-3720

The repository builds the boot image of Marvell Armada 3720 boards: the WTMI firmware of
the secure processor, DDR training, ARM Trusted Firmware (`src/atf-marvell`) and U-Boot
(`src/u-boot-marvell`). This project models the parts of it whose mistakes only show in
orders of events that are hard to produce on purpose:

* what several CPUs execute at the same time and what stays resident under Linux: the
  PSCI library of BL31 with its locks, and the dispatcher of software delegated exceptions
  with the exception handling framework;
* what has to survive a failure: the U-Boot environment under power loss, U-Boot's network
  loop and TFTP over a network that loses, repeats and delays packets, and the firmware
  update of BL1.

Nearly all of the repository's two million lines are drivers, board files, register tables
and commands of upstream U-Boot, most of them for other boards. The modules cover a few
thousand lines, those that hold the state machines and the protocols.

## Inventory

### What is modelled

| Component | Source | State | Operations |
|---|---|---|---|
| bakery lock, device memory | `lib/locks/bakery/bakery_lock_coherent.c`, `include/lib/bakery_lock.h` | `lock_data` of each CPU: `choosing`, 15-bit ticket | `bakery_lock_get`, `bakery_lock_release` |
| bakery lock, cached memory | `lib/locks/bakery/bakery_lock_normal.c` | the same, in memory and in caches; `SCTLR_EL3.C` of each CPU | the same with `write_cache_op`, `read_cache_op` |
| PSCI library | `lib/psci/psci_{main,on,off,suspend,common}.c` | affinity state, local state and suspend level of each CPU; requested state of each CPU per level; local state and lock of each domain; spin lock and saved context of each CPU | CPU_ON, CPU_OFF, CPU_SUSPEND, SYSTEM_SUSPEND, warm boot |
| affinity state across caches | `psci_on.c`, `psci_off.c`, `psci_main.c`, `psci_common.c`, `cpu_data.h` | `aff_info_state` in memory and in a cache line | the accesses of CPU_ON, CPU_OFF, AFFINITY_INFO and the warm boot |
| SDEI dispatcher | `services/std_svc/sdei/` | the entry of each event (per PE if private), its map, `reg_count` and lock; mask, pending enables and dispatch stack of each PE | register, unregister, enable, disable, routing, bind, release, signal, mask, unmask, CPU on, interrupt, complete |
| exception handling framework | `bl31/ehf.c`, with `context_mgmt.c`, `tspd_main.c`, `sdei_intr_mgmt.c` as its callers | active priorities, stashed masks | activate, deactivate, enter and leave the normal world, allow preemption, end of interrupt |
| firmware update of BL1 | `bl1/bl1_fwu.c` | state, size and copied size of each image, list of loaded images, image that is executed | copy, authenticate, execute, resume, done, reset |
| environment | U-Boot `env/sf.c`, `env/common.c`, `env/env.c` | contents and flags of the copies in flash, `env_htab`, `gd->env_valid` | load, set, save |
| TFTP | U-Boot `net/tftp.c` | state, ports, block numbers and offset, timeouts | load a file, send a file |
| network loop | U-Boot `net/{net,arp,ping,rarp,eth-uclass,eth_common}.c` | `net_state`, tries, current interface, timeout handler, ARP wait | `net_loop` with PING and RARP, retries and rotation of interfaces |

Paths that begin with `lib/`, `services/`, `bl1/` and `bl31/` are under `src/atf-marvell/`.

How they interact.

* *Power management.* Each power domain above the CPUs has a bakery lock. A call that may
  change the state of domains takes the locks of its CPU's ancestors from the bottom up,
  coordinates level by level, and releases them from the top down. CPU_ON takes the spin
  lock of its target CPU instead. The CPU that boots takes its domain locks, and with
  these held waits for the spin lock. Bakery locks, and not exclusive accesses, are needed
  because a CPU takes them with its cache on or off. The affinity state passes from the
  target, which has its cache off on its way down, to a caller with its cache on, and back
  to the target, which boots with its cache off.
* *Exceptions.* An interrupt of EL3 goes through the framework, which tracks the active
  priorities, to the SDEI dispatcher, which calls a handler in the normal world and is
  called by it when the handler is done. Clients on other PEs register, route and release
  the same event meanwhile. The context management tells the framework when the CPU
  leaves the normal world and when it comes back, and a secure payload when its call may
  be preempted.
* *Network.* Each command of U-Boot runs one operation in `net_loop`. An operation sets
  handlers that the loop calls for packets and timeouts; they set `net_state`, which the
  loop looks at once per pass. A failed operation is started again, on the next interface,
  as `netretry` and `ethrotate` say. ARP is a state of its own beside it.

What is hard: calls of several CPUs in any order; a CPU that is turned on while it is still
on its way down; stores of a CPU that is outside coherency; leftover state that tells a
boot what it is; locks of two kinds, held at the same time; lost wake-up events; an
interrupt that races the calls about its event; nested exceptions; power lost in the
middle of a write; packets lost, repeated and late, and timeouts that race them; global
state that one operation leaves to the next.

What makes each correct:

* bakery lock: one CPU at a time, first come first served, nobody starves, in whatever
  state the caches are;
* PSCI library: the domains of a running CPU are on; a domain is as deep as its CPUs allow
  and no deeper; a CPU boots the way it went down, with the context stored for it; CPU_ON
  takes effect once; no CPU hangs in the firmware;
* affinity state: an update is never lost for good, and no stale value is believed;
* SDEI: an event runs on one PE and its state says so; no enabled event is forgotten; an
  interrupt is ended; its owner, route and binding agree with the registration; no panic;
* exception handling: the normal world gets its own priority mask back, and interrupts of
  the normal world are held off exactly while they must be;
* firmware update: what has been copied and authenticated is what is executed;
* environment: a boot finds the last one saved, or one whose save was interrupted, and
  with two copies never loses both;
* TFTP: success means that the file is there, whole and in order; the command returns;
* network loop: success means an answer; every interface that works is tried; it returns.

### What is not modelled

| Component | Why |
|---|---|
| PSCI topology setup (`psci_setup.c`) | The state it leaves is `Init`; the breadth-first construction of the tree is planned as an algorithm with a reference definition. |
| PSCI statistics | Off in this build (`ENABLE_PSCI_STAT`). |
| SYSTEM_OFF, SYSTEM_RESET, MEM_PROTECT | One platform call each. |
| A3700 and A8K platform hooks (`plat_pm.c`) | Register programming. `Psci` has the hooks by what the library relies on. |
| interrupt routing (`bl31/interrupt_mgmt.c`) | A table that is filled at boot. |
| secure payload dispatchers | `Psci` has their answer to CPU_OFF and `Ehf` the calls of TSPD; the rest is planned. |
| SDEI resets and explicit dispatch | PRIVATE_RESET and SHARED_RESET are sequences of the calls that are modelled. `sdei_dispatch_event` refuses every event of this tree, as all of them are bound. |
| translation tables, authentication, IO | Sequential code over formats and tables. |
| environment in MMC, NAND, FAT, UBI | Drivers of their own; the boards here use SPI flash. |
| BOOTP, DHCP, NFS, DNS, link-local addresses | Further protocols on the same loop. |
| TFTP multicast and server | Not in this build. |
| U-Boot drivers, file systems, commands; WTMI; TIM tools; DDR training | Hardware access, straight-line initialisation, host tools, numeric search. |

`PROJECT.json` lists all components with their files, and the hazards of the code with the
properties that would notice them going wrong.

## Modules

    BakeryTicket            CPUs, tickets and priorities of both lock implementations
      BakeryLock            the lock in device memory      --refines-->  FcfsLock
        BakeryLock_proofs
      BakeryLockNormal      the lock in cached memory
        BakeryLockNormal_proofs
    Psci                    the PSCI library
      Psci_proofs           domain coordination (CoordInv), CPU_ON and boots (OnInv), settled
                            domains (SettledInv)
    PsciAffInfo             aff_info_state across caches and memory
    Ehf                     priorities and masks of one CPU, with the callers of ehf.c
      Bl31_proofs           of PsciAffInfo and of Ehf
    Sdei                    software delegated exceptions, several PEs
      Sdei_proofs
    Fwu                     the firmware update calls of BL1
      Fwu_proofs
    Tftp                    loading a file over a bad network
      Tftp_proofs
    EnvSf                   the environment in SPI flash   --refines-->  EnvStore
    TftpPut                 sending a file over a bad network
    NetLoop                 net_loop with ARP, PING and RARP
      UBoot_proofs          of EnvSf, of TftpPut and of NetLoop
    MC*                     for TLC

`Bl31_proofs` and `UBoot_proofs` hold the proofs of several components that share neither
state nor definitions, one section for each; the names of the modules they extend are
different for that reason (`EhfSpec`, `PutSpec`, `LoopSpec`).

Definitions whose comment begins with "Faulty variant" describe plausible mistakes
(a dropped guard, a missing flush). No specification uses them; `PROJECT.json` says
which property each of them violates when it replaces the definition after it.

Several modules have a variable that is chosen in `Init` and never changes: `build` in
`EnvSf` (the configuration of the code), `setup` in `Tftp` (the file, the server and the
environment), `settings` in `NetLoop` (environment variables, commands and interfaces) and
`clients` in `Sdei` (which PEs call what, about which events). One run so covers several
configurations, each with the part of the state space that it is for.

### BakeryTicket, BakeryLock, FcfsLock

One step of `BakeryLock` is one access to lock data of another CPU, or one store to the
CPU's own. `pc` says where a CPU is in `bakery_get_ticket` ("scan"), the loop of
`bakery_lock_get` ("check", "wfe", "reread"), the critical section ("held") or
`bakery_lock_release` ("sev"). `number` and `choosing` are the two fields of `lock_data`,
cut to their width by `Field`. `event` is the event register of WFE and SEV. `ahead` is a
history variable: the CPUs that had their ticket when a CPU arrived. `FcfsLock` is the
abstract lock: a CPU gets it when nobody holds it and nobody of its `ahead` still waits.
`RefinesFcfs` instantiates it with the phases of `pc`.

### BakeryLockNormal

The same algorithm with each store followed by `write_cache_op`, each load preceded by
`read_cache_op`, on a memory with one cached value per line. A CPU with its cache on reads
and writes the line, one with its cache off reads and writes memory, and `Fill` and `Evict`
happen at any time. A CPU turns its cache on or off while it holds the lock, as
`psci_do_pwrdown_sequence` and the warm boot do; `cached` is the `is_cached`
that the functions read once when they are entered. The waiting loop is a single poll, as
`BakeryLock` covers WFE and SEV.

### Psci

Each CPU runs one of the calls, step by step; one step takes or releases one lock, treats
one level, or does what the CPU spin lock or the domain locks make one step. `handler`
remembers on whose behalf the domain locks are taken and `after` where the CPU goes once
they are released. `pc[c]` is

* "ns": the normal world, which makes the calls of the constant `Calls`;
* "on_lock" to "on_unlock": `psci_cpu_on_start`, for the CPU `target[c]`;
* "last_on": the loop of `psci_is_last_on_cpu`, `target[c]` its index;
* "acquire", "coordinate", "set_target", "run", "release": the loops over the levels;
* "off", "dying": `psci_do_cpu_off` after its locks, before and after it writes OFF;
* "down": powered down; "wfi", "standby": waiting for an event with its power on;
* "boot", "sync": `psci_warmboot_entrypoint`, and `psci_cpu_on_finish` on the spin lock.

`Anc` gives the power domain of each CPU at each level, so the theorems hold for every
tree. The domain locks are taken in one step each, which is what `RefinesFcfs` and
`MutualExclusion` of the lock modules justify. The affinity state is one word here, which
`PsciAffInfo` justifies. The hooks: `pwr_domain_on` may fail; `svc_off` may refuse CPU_OFF;
an interrupt may abandon a suspend before it coordinates. External to the code are
`PowerUp` (the power controller starts a CPU, also one that has not yet reached its final
WFI, once it is there) and `WakeUp`.

### PsciAffInfo

One target CPU and any number of callers. The steps are the loads, stores, flushes and
invalidations of `aff_info_state` in `psci_cpu_on_start`, `psci_affinity_info`,
`psci_do_cpu_off`, `psci_warmboot_entrypoint`, `psci_cpu_on_finish` and
`psci_set_pwr_domains_to_run`. As in `BakeryLockNormal` the caches that are on share one
line. The comment in `psci_cpu_on_start` says that the maintenance of a target which has
left coherency may or may not reach the other caches: it is a choice in the model. `late`
is a history variable, the calls that began after the target went down; `failed` is another
one, whether `pwr_domain_on` has ever failed.

### Sdei

A call is "lock" (take the lock of the event and load its state), then "locked" (the body,
which ends with the unlock). A bind looks for an event of the interrupt ("bind"), for a free
map ("free") and for the owner ("owner") in three steps without a lock, and then takes the
map under its lock. An interrupt is acknowledged, goes through "lock" and "locked", and is
"push"ed on the dispatch stack; the completion by the handler loads and stores the state in
two steps without a lock, as in the code. Clients call what they like, when they like.
`Allowed` and `Transition` are the state table of `sdei_state.c`. The interrupt controller is
external and is modelled by what the code asks of it: owner, enabled, pending and active of
each line, and the route of shared ones. `Asserts` has the assertions of the code on counts,
owners and nesting, as in a debug build; one that fails ends in "panic". That on the affinity
of the entry, which fails after every ROUTING_SET to another PE, is left out, and the model
goes on after it as a release build does.

Three steps of the code rely on what another PE may have changed, and the history variable
`raced` says which of them have gone wrong so far, at the step at which they do: "complete",
the store of a completion when the state has changed since it was loaded or another PE
is about to change it (`Collides`); "bind", a map that is bound to an interrupt which another
event has already (`BoundTwice`); "release", a private event that is released while its
interrupt is active on another PE (`ActiveElsewhere`). The properties say what holds until
then, and a run for each shows what the code's own comments say and the race breaks.
`MaxReg` bounds `reg_count`, which grows without bound when CPUs are turned off and on.

### Ehf

One CPU. `work` is what is under way, innermost last: calls of the secure world and
dispatches, which come from an interrupt of a secure priority or from another exception
(`"sync"`), whose priority the dispatcher activates itself. `pmr` and the running priority
are those of the interrupt controller. `panic` is set by the checks and assertions of
`ehf.c`. `own` is the mask that the normal world has set. `MaxSync` bounds how many
priorities are activated at a time, 3 in the run and arbitrary in the theorems.

### Fwu

One step per call. `mem` says whose bytes the secure memory holds at each address, `here`
which images are in their place there. Calls that are refused and change nothing are left
out; those that fail an assertion end in `world = "assert"`. External are the memory checks
and the pre-load hook of the platform, which may fail, and the authentication, whose answer
is a choice. The overlap check goes through the list in the order of its slots, which the
model leaves open: it may refuse an image before it comes to one that fails an assertion, or
the other way round.

### EnvSf, EnvStore

A save goes through "setup", "backup", "export", "erase", "write", "obsolete" in the
order of the build. `PowerLoss` may come at each of them; an erase or write that is under
way then, or that fails, leaves the copy as it was, destroyed or done. A copy that is
partly erased or written fails its CRC, and a byte that is written loses bits only. A
driver that fails is tried again, as `env_get_location` gives the same location for every
priority. Two history variables say what a boot may find: `stored`, what was loaded or
saved with success last, and `maybe`, what saves that did not succeed may have left. A
load that could not read everything adds what the copies hold, and a save that returns
success without having written (`SucceededUnwritten`: one copy, and no memory for the rest of
the sector) adds what was stored before.

`EnvStore` is what storage promises. It holds a set of environments (`held`), which changes
during saves only, and only by what is being saved or by what is erased. A boot loads what is
`stored` or in `maybe`, and from what is held; a load that cannot read takes something else
that is held, at boot and at no other time, and puts it all in doubt. A save that returns
success is held, is `stored`, and ends all doubt (`Commit`). Storage that is not `atomic` may
also lose everything in a save that is cut short, and pretend success (`Pretend`); `atomic`
storage does neither. `EnvSf` implements it with `atomic` = redundant (`ImplementsStore`).

### Tftp, TftpPut

The network is a set of packets; it drops, delivers, and repeats (`MaxRepeat` times)
packets in any order, late by at most `Window` blocks, across wraps of the block number too.
The server follows RFC 1350 and is
external: it opens a session, with a port of its own, for every request, also for a
repeated one. A packet carries the number that the code sees and, for the properties,
the block that it stands for. One step is one handler: `tftp_handler` for each kind of
packet, with the state it finds; `tftp_timeout_handler`; and the look of `net_loop` at
`net_state`, with `net_start_again`. `timer` says that a timeout may come between a handler
that gave up and that look; until then packets that were received with the last one are still
handled (`eth_rx` takes up to 32 at a time). An attempt draws its port from `ClientPort` and
may draw one that was used before. `memory` is what `store_block` wrote at each offset.
The history variable `stray` says that the client has taken a packet that it cannot tell from
the one it waits for: one of an earlier attempt from the same port, or one that is late
across a wrap, when a later block has been stored and a block from it to that one has the number 0 (`Stray`).

### NetLoop

A pass of the loop is four steps in the order of the code: "arp" (`arp_timeout_check`),
"rx" (packets of the interface), "timer" (the timeout handler) and "check" (the look at
`net_state`, with `net_start_again` and the next interface). `loop` holds the globals that
`net_start_again` changes. What outlives a command stays as the code leaves it: the ARP
wait, the interface, the replies that are still on their way. Every interface has a hardware
address: `eth_post_probe` refuses one without (`net/eth-uclass.c:516`), so that the result 2 of
`net_check_prereq`, and with it `net_dev_exists` = 0 in `net_start_again`, takes a user who
deletes `ethaddr` of the interface in use, which is left out.

## Runs

| Run | Instance | States | Checks |
|---|---|---|---|
| `bakery` | 3 CPUs, tickets to 4, fair | 192 037 | `MutualExclusion`, `RefinesFcfs`, `EventuallyHeld` |
| `bakery_cache` | 3 CPUs, tickets to 1 | 3.1 million | `MutualExclusion`, `StoresReachMemory` |
| `psci_a3700` | 2 CPUs, one cluster, all calls and power states, fair | 7 648 | `BootStateOK`, `ContextReady`, `OffIsQuiet`, `LastOnIsLast`, `EventuallyReturns`, `OnEventuallyRuns` |
| `psci_clusters` | 3 CPUs, two clusters, one system | 1.2 million | `RunningDomainsOn`, `DomainsCoordinated` |
| `aff_info` | 3 callers, failing hook | 4 630 | `BootFindsPending`, `RetrySucceeds`, `OffIsSeen`, `OffIsRestored` |
| `env` | 1 and 2 copies, 3 values, every operation failing, power loss | 75 856 | `NothingLost`, `ImplementsStore` |
| `tftp` | 2 blocks with options, errors and a retry, and 3 blocks, any lateness; 9 blocks with two wraps, late by one block; 2 ports of each side; fair | 1.0 million | `FileReceived`, `ServerNotAhead`, `Returns` |
| `tftp_put` | 6 blocks, 2 repeats, 2 timeouts | 453 077 | `SendsBounded` |
| `net_loop` | 4 interfaces, 5 settings, fair | 34 279 | `AliveIsAnswered`, `TriesAll`, `Returns`, `FindsServer` |
| `sdei` | 2 PEs, 3 events of the platform and 3 to bind, 7 kinds of clients | 1.6 million | `RunningIsDispatched`, `RegistrationAgrees`, `NoEventForgotten`, `ActiveIsHandled`, `NoPanic` |
| `ehf` | 3 secure priorities, 8 levels of nesting | 1 814 | `OnlyStaleMaskPanics`, `NsMaskRestored`, `SecureIsProtected` |
| `fwu` | 2 overlapping secure images, 1 of the normal world, 2 slots | 436 922 | `OnlyStaleResetClears`, `ExecutedIsComplete`, `SecureIsExecuted` |

What the runs show of each component:

* *Locks.* One CPU at a time holds the lock; it is granted in the order of arrival; no
  wake-up is lost. In cached memory each store is in main memory when its maintenance is
  done, whatever was cached and whoever turned its cache on or off.
* *PSCI.* On the A3700 a CPU boots only as it was asked to and with its context, an OFF CPU
  holds nothing, SYSTEM_SUSPEND goes ahead only on the last of the two CPUs, and no CPU is
  stuck. On two
  clusters no domain goes down under a running CPU, every domain is exactly as deep as its
  CPUs asked, and no domain is shallower than its parent.
* *Affinity state.* One retry is enough for ON_PENDING, and OFF and ON_PENDING are seen by those
  who go by them.
* *Environment, TFTP, network, SDEI, EHF, FWU.* As listed under "what makes each correct",
  within the limits of the section on differences below.

The type invariants are part of the inductive invariants, and in most runs a
conjunct of one of the properties (`StoresReachMemory`, `ServerNotAhead`,
`SendsBounded`, `TriesAll`, `RunningIsDispatched`, `NsMaskRestored`,
`ExecutedIsComplete`).

Bounds.

* *Locks.* Three contenders are the least with which one CPU waits for two others in
  different states, and with which equal tickets meet a third. Tickets grow only while some
  CPU contends, and the algorithm compares them only with each other: `MaxTicket` stops new
  acquisitions at a height, after which the lock drains and starts again at 1, so all
  orders of arrival around a held lock occur. In the cache run one generation of tickets
  suffices for every pair of cache states around each store.
* *PSCI.* The A3700 has two CPUs and one cluster, so `psci_a3700` is the system itself, with
  all nine combinations of local states offered to `psci_validate_suspend_req`.
  `psci_clusters` adds what it lacks: a sibling cluster of one CPU, a level whose
  coordination stops early, and CPUs that share only the top domain. Its four power states
  are full and partial power down, retention, and one to be refused. The callers of
  `PsciAffInfo` are interchangeable, so its run uses symmetry; it checks invariants only.
* *SDEI.* Two PEs suffice for every race of the code, which is always of one PE against
  another one. The clients are seven because events do not interact but by nesting. Of the
  events of the platform: a shared event with routing, a private with a critical shared one on
  one PE, the signalled event, and a PE that is turned off and on. Of those that are bound: a
  shared and a private event that two PEs bind, register and release, and two private ones
  with two interrupts, so that a bind finds one map taken and takes the next. Events are masked
  at first, so that an enable or an interrupt may come before the unmask, and two of the
  clients mask them again.
* *EHF.* Three priorities give an activation between two others; interrupts of each
  priority nest at most once, so 8 levels are never exceeded.
* *FWU.* Images of up to three and two bytes that may overlap in one, sizes that fit, fill and
  exceed them, and one slot less than images.
* *Environment.* Three values tell the two copies and the environment in use apart.
* *TFTP.* A block number of 2 bits instead of 16 wraps twice in nine blocks. Two setups of
  `tftp` have packets late by any number of blocks, one of them with a second attempt, the third
  by one block across each wrap. Two ports of the client let the second attempt use the old port
  or a new one. In `tftp_put` the number does not wrap. All repeat packets, so late and doubled
  ones meet timeouts.
* *Network.* Four interfaces: the one to begin with, one that cannot be started, one that
  leads nowhere and one that leads to the other host; in two settings a ping that was given
  up leaves its state to a RARP.

Deadlock is off where the system may stop: in the runs of `Psci`, as all CPUs may be off
or asleep for good, in those of `Tftp` and `TftpPut`, as the command returns, and in those of
`Fwu`, as an assertion ends it. It is checked in the others; in `Sdei` a PE that has panicked
stutters (`Panicked`), while the other one goes on.

Fairness.

* Firmware runs at EL3 with interrupts masked, so a CPU keeps taking the steps it can take:
  weak fairness of its steps in `BakeryLock` and `Psci`. In `Psci` the domain locks are
  first come first served, so a CPU that wants one gets it: strong fairness of
  `AcquireLock`. A spin lock promises less, only weak fairness, and callers of CPU_ON could
  keep it taken for ever. The liveness properties of `Psci` are therefore stated for
  behaviours with finitely many CPU_ON calls (`CallsStop`). The power controller starts
  the CPUs it is asked to. Nothing obliges the normal world to make a call, or an event to
  wake a CPU up.
* `net_loop` polls the clock and `net_state` for ever: weak fairness of `Timeout` and `Loop`
  in `Tftp`, of the steps of a pass in `NetLoop`, and strong fairness of timeouts there, as
  time passes also while packets arrive. Nothing obliges the network to deliver, but for
  `FindsServer`, which is about a client that asks for ever: `GoodNetwork` says that not
  every reply is lost, with netretry=yes only.

### Where the code and what is said of it differ

Each of these was met while modelling. Where a property has a condition, it is in its formula
and its comment, mostly as a history variable that says that the code has gone wrong or as an
action property that names the one step which may. The cases themselves are in the models:
without the condition TLC finds a counterexample in the same runs, for `LastOnIsLast` with
three CPUs.

Power management:

* `psci_is_last_on_cpu` reads the affinity states one by one without a lock. With three
  CPUs, one that it has passed may be turned on by another that then turns itself off, and
  the function returns 1 with two CPUs on. On the two CPUs of the A3700 it is
  right (`LastOnIsLast`, checked and proved for two CPUs only), and even when the answer is
  wrong no domain is lost: `RunningDomainsOn` is checked with three CPUs and proved for every tree.
* When `pwr_domain_on` fails, `psci_cpu_on_start` restores OFF and flushes it once. The
  invalidation by the target may discard this store as it may discard the store of
  ON_PENDING, and here there is no retry: the CPU stays ON_PENDING, and every CPU_ON of it
  is refused from then on. `OffIsRestored` holds until the hook first fails; that of the
  A3700 never does.
* A bakery ticket that does not fit in 15 bits is stored as 0, the ticket of a CPU that does
  not contend, and mutual exclusion is lost. This takes more than 32 000 acquisitions
  without a moment in which nobody contends (`NoWrap`).

Exceptions:

* `sdei_event_complete` (`sdei_intr_mgmt.c:572`) loads and stores the state of a shared event
  without its lock: an unregister or a disable on another PE in between is undone, or undoes
  the completion. All properties of `Sdei` are about what holds until this
  has happened ("complete" in `raced`).
* `sdei_interrupt_bind` searches for an event of the interrupt (`sdei_main.c:666`) and for a free
  map (`:687`) without a lock: two PEs that bind the same interrupt take two maps and bind it
  to two events ("bind" in `raced`).
* A private interrupt is released when it is not active on the PE that asks (`sdei_main.c:759`);
  another one that has acknowledged it or handles its event panics ("release" in
  `raced`).
* `sdei_event_routing_set` does not store the affinity in the entry (`sdei_main.c:284`), which
  the assertion in `sdei_intr_handler` and a later unmask go by
  (`NoEventForgotten` is stated without ROUTING), and it changes the route while another PE
  may have acknowledged the interrupt.
* `sdei_cpu_on_init` forgets the registrations of its PE and not their share of `reg_count`
  (`RegistrationAgrees` leaves the count out with CPU_ON): the event can not be released any more.
* An interrupt of event 0 that comes while events are masked is not ended
  (`sdei_intr_mgmt.c:267`), and one that can no longer be dispatched is set pending, which
  the driver asserts it is not for an SGI (`ActiveIsHandled` leaves event 0 out).
* The entry point is read after the lock of the event is released (`sdei_intr_mgmt.c:254`); an
  unregister in between clears it. The model does not have the address.
* `ehf_deactivate_priority` with priorities left sets the mask of the one just deactivated,
  and not, as its comment says, of the next one (`ehf.c:204`). The next activation
  of the same priority then panics. `OnlyStaleMaskPanics` says that this is the
  only case. `NsMaskRestored` and `SecureIsProtected` do not depend on it: the wrong
  mask is a stricter one, and the last deactivation restores the right one.
* `sdei_event_complete` asks whether the normal world may preempt before it ends the
  interrupt (`sdei_intr_mgmt.c:631`), so that the answer is always no.

Firmware update:

* An image that the pre-load hook refuses keeps its slot (`bl1_fwu.c:356`), and an image of
  one byte, or one that is in the list in RESET state, fails an assertion of the overlap
  check (`bl1_fwu.c:205`).
* An interrupted image may be reset while `sec_exec_image_id` names it: the next resume by
  the normal world fails an assertion. A second image may be executed while one is
  interrupted, which can then not be resumed any more.
* `copied_size` outlives its image. If the secure world authenticates a secure image in place
  and it is then reset, as many bytes are cleared at its base, and they may be those of
  another image (`bl1_fwu.c:728`). `OnlyStaleResetClears` says that nothing else
  ever touches a copy that is in use.

Environment:

* With one copy in a sector larger than the environment, `env_sf_save` returns success when
  `malloc` fails, with nothing written (`env/sf.c:221`). `NothingLost` then allows
  what was stored before, and `EnvStore` has a step for it (`Pretend`), which storage with two
  copies may not take.
* `env_save` does not return while the driver fails (`env/env.c:196`): every priority is the
  same driver.
* `setup_flash_device` resets the environment in memory when the probe fails
  (`env/sf.c:65`): the save that tries again saves the default one (`Reset` of `EnvStore`).

Network:

* A block 0 that arrives again after the next block counts as a second wrap
  (`net/tftp.c:297`): what follows is stored one sequence too far, and the load succeeds
  all the same. An attempt may draw the port of an earlier one (`net/tftp.c:824`), whose packets
  it then takes for its own; and a packet that completes a transfer may be handled after it was
  given up and before the loop looks. `FileReceived` is stated for loads without these (`stray`,
  `why`).
* An OACK is accepted in any state of a load, and the first block after it need not be 1.
  "Not retrying..." is printed when a file is not found, and with netretry it is retried.
* In a put, once the last block is sent any acknowledgement ends it with success
  (`net/tftp.c:492`); a server without options is sent its request again instead of block 1
  (`net/tftp.c:505`; `tftp_put` has a server with options); after a wrap of the number the
  beginning of the file is sent again. Every acknowledgement sets the current block
  (`net/tftp.c:502`), also one that is old, so a single timeout may cost three DATA packets:
  the block that is sent again, and two more once the number was set back (`SendsBounded`).
* When the rotation has come back to the interface that failed first, `net_start_again` leaves
  `net_state` at FAIL and returns the success of `eth_init` (`net/net.c:703`), and `ping` says
  that a host is alive which has not answered: with netretry=yes, with more tries than
  interfaces, or when an interface cannot be started. `AliveIsAnswered` is stated for the
  other cases (`PingFew`). With netretry=once one interface is tried, and not all of them (`net/net.c:686`):
  `TriesAll` asks for as many tries as there are interfaces.
* The ARP wait of a ping that was ended fails the RARP after it (`net/arp.c:103`), and its
  late echo ends that RARP with success and without an address (`net/ping.c:92`).
  With the two commands in one setting only the return of the loop is checked.

## Proofs

All theorems are checked by TLAPS, for every value of the constants that meets the named
assumptions.

**Bakery lock** (`BakeryLock_proofs`; `NAssumption`: 1 to 256 CPUs, as `PRIORITY` packs the
position in 8 bits). Mutual exclusion is not inductive: what keeps a second CPU out is
what it will read, or has read, of the first. `IInv` says that every CPU that `c` has
visited in its loop is `Behind` `c`: it is out, or has yet to read `c`'s ticket, or has read
it, or has a ticket that yields to it; and that a CPU that waits remembers the ticket of
the CPU it waits for (`OrderOK`). `AheadOK` says the same of CPUs that arrived later, from
which first come first served follows. The theorems `InductiveInvariant`, `MutualExclusionHolds`
and `ImplementsFcfs` (the refinement of `FcfsLock`) assume `[]NoWrap`: a ticket that does not
fit in 15 bits would be stored as 0, and that takes more than 32 000 acquisitions without a
moment in which nobody contends.

**Bakery lock in cached memory** (`BakeryLockNormal_proofs`; `NAssumption`, `[]NoWrap`). Here a
CPU may load what another one stored some time ago. `MemoryOK` says where the last store of a
CPU is: in its dirty line until the maintenance, with the store before it in memory, and in
memory from then on, so that no line that is dirty can overwrite it. `Ordered` is `OrderOK` with
the caches: a CPU is `Behind` those that have passed it, also counting a load of their ticket
that it is about to make; and when a CPU loads a line that was filled after its
`read_cache_op`, what it makes of it is true at that moment although the value may be old
(`Verdict`): the other one is still choosing, or is behind, or still has the older ticket that
was loaded. Most steps change no lock data, so the proof states once what such a step, with
any fill or eviction, keeps of `Ordered` (`NonStoreStep`), and treats the stores of a ticket and
of a release by themselves. The theorems `InductiveInvariant`, `MutualExclusionHolds` and
`StoresAlwaysReachMemory`.

**PSCI** (`Psci_proofs`; `SizeAssumption`, `TreeAssumption`: any number of
CPUs and levels, domains in a tree; `PowerStatesAssumption`). `IInv` has two halves.
`CoordInv`: the owner of each lock is the CPU whose `pc` says so; a CPU that has requested
nothing has RUN as its request; what a CPU has computed, and not stored yet, is no deeper
than any request of the domain (`ResultsOK`), which holds because requests change only under
the lock; so no domain is deeper than any of its CPUs requested (`NoDeeperThanRequested`).
`OnInv`: the affinity state changes hands. The caller under the spin lock owns it while it is
OFF, the target once it is ON_PENDING; the power controller, the suspend level and the
context agree with it. From these follow `RunningDomainsStayOn`, `BootsAreExpected` and
`ContextIsReady`. `ContextIsReady` is why `psci_cpu_on_finish` takes the spin lock and
releases it at once: the context is stored after the target was powered on.

`SettledInv`, which is inductive on top of `IInv`, is the other direction of coordination: that
domains do go down. The state computed for a domain is one that some CPU of it has asked for,
and so is the state it is in, unless a CPU has stored its request and not the outcome yet
(`ResultsRequested`, `StatesRequested`); and the requests of a CPU are ordered by level, as
`psci_validate_suspend_req` asks. With `NoDeeperThanRequested` this makes the state of a domain
whose lock is free the minimum of the requests: `DomainsAreCoordinated`. A CPU that writes OFF
has stored its requests and released its locks before, and nobody else changes them:
`OffIsAlwaysQuiet`. `LastOnOfTwo` (`LastOnIsLast`) is stated for N = 2: the only other CPU is
OFF when it is passed, and only the caller, who is busy, could turn it on; with three CPUs
it is false, see above.

**Affinity state** (`Bl31_proofs`; `CallerAssumption`: any set of callers). The
invariant follows an update from the line to memory (`CallOK`): it is in the line until it
is cleaned, unless the target has invalidated it; the target does that once, and is "down" from
then on, so the retry is final. The theorems `BootsFindPending`, `RetriesSucceed`,
`OffStaysSeen` and, until the hook first fails, `OffStaysRestored`.

**Environment** (`UBoot_proofs`; `ValueAssumption`: any set of values; any faults). What a boot
finds is not determined by the last save alone, so `NothingLost` is not inductive. `IInv`
says how far the copies are at each `pc`: with two copies (`RedundantOK`) the one in use is
whole until the new one is, and both are whole, with flags that pick the new one or the old
one, until the mark is written; with one copy (`SingleOK`) it is what was stored, or what is
being saved, or bad, and the last only while the default is in `maybe`; and when a load could
not read, what the copies hold is in `maybe` (`UnreadOK`). The theorems `InductiveInvariant`,
`NothingIsLost` and `StoreIsImplemented`, the refinement of `EnvStore`, in which each step of a
save is a step of the store: that what a load takes is held, and that a success with two
copies leaves what it saved in the copy that the next boot selects, come from `IInv`.

**Firmware update** (`Fwu_proofs`; `ImageAssumption`, `SizeAssumption`,
`EnvironmentAssumption`: any images, at any places, any slots and faults). `Known` says that
images in use are in the list and that `sec_exec_image_id` names an image that is executed
while the secure world runs: `LoadedIsAlwaysTracked` and `SecureIsAlwaysExecuted`.
`CopyIsSpared` (`OnlyStaleResetClears`) needs more (`IInv` of the proof module): the secure images
in their place are loaded; of each no more is copied than its size, which fits its place; the
ranges of any two in their place are disjoint, as the overlap check compared sizes with all
that are in the list; and nothing is copied of an image of the normal world. So a copy, a
failed authentication or a reset of an image in its place stays within its own range, and what
is left is the reset of one that is not in its place. `ExecutedIsAlwaysComplete` follows
from a second invariant (`CInv`), by which a secure image is in its place only while it is
copied or after, and beyond COPYING only with its last byte copied. None of these limits the
calls of either world.

**Exception handling** (`Bl31_proofs`; `PriorityAssumption`, `MaskAssumption`: any number of
priorities, any masks of the normal world). `EhfIInv` relates the masks to what is under way (`WorkOK`, `MasksOK`): dispatches are nested by priority; the mask of the normal world
is stashed exactly while the first thing under way is a call that does not yield; the mask below
the activated priorities is that of the normal world, or the highest priority of the normal
world if it is stashed; and while priorities are activated the mask is at or below all of
them. `MaskAlwaysRestored`, `SecureIsAlwaysProtected` and `PanicsOnlyOnStaleMask` hold for every
`MaxSync`. The last is an action property: from a state in which the mask is not above the active
priorities, every check of every step succeeds.

**TFTP** (`Tftp_proofs`; `SizeAssumption`, `SetupAssumption`, `SessionAssumption`: files of any
length, any size of the block number, any number of sessions, timeouts and repeats). The
theorems `InductiveInvariant`, `FileIsReceived` and `ServerIsNotAhead` assume `WrapsInTime`: a file
is shorter than a sequence of block numbers, or its packets are late by less than half a
sequence, 32 767 blocks in the code, as no protocol could tell them apart otherwise. Packets may
so be late across wraps; what is late across one and taken by the client makes `stray` true,
and the theorems say what holds until then. `ServerNotAhead` says that the server is at
most one block beyond memory, but nothing in it relates numbers to blocks. `IInv` does: while
nothing has failed or strayed there is a `k` such that the blocks 1 to k, and no others, are in
memory, the session the client talks to is at block k or k + 1, and the block the client takes
for the last one, counted with its wraps, is not beyond k, and in a file whose numbers wrap
no more than the window behind it (`Progress`). This
needs that an acknowledgement in the network which the server would take for that of its
last block is one (`AckOK`), that other sessions of the same request stay at their first block
(`RemoteOK`), and that packets and sessions are told apart by attempt (`PacketsOK`,
`AttemptOK`). The main lemma, `DataInPlace`, is that the number of a block that `tftp_handler`
stores, with the wraps it has counted, gives the block that the packet carries; it rests on
lemmas about remainders (`NumNext`: the number of the next block is one more, or 0 after the
last number). The instance of the run satisfies the hypothesis, which
`MCTftp` states as an assumption that TLC evaluates.

**SDEI** (`Sdei_proofs`; `SizeAssumption`, `EventAssumption`, `InterruptAssumption`,
`ClientAssumption`: any number of PEs, any private, shared, critical and bindable events, any
interrupts and any clients). What each PE has loaded and not stored yet is the difficulty:
between "lock" and "locked" another PE may dispatch, complete or mask. `SerialInv` says who is
inside: a lock is held by the PE whose `pc` says so (`LockOK`); the state a PE has loaded is
still that of the entry, up to the changes that may come without the lock (`OldOK`); at most
one PE handles an event, and the entry is running exactly then (`RunOK`, `StackOK`); an active
interrupt is one that is handled (`ActiveOK`); the map counts its registered entries
(`CountOK`). `SerialInvariant` says that it holds until a completion has collided with a call:
`"complete" \notin raced => SerialInv` is inductive, as the step that breaks `SerialInv` is the one
that makes `raced` say so. `RunningIsAlwaysDispatched` follows. `CarefulInv` adds the maps and
the interrupt controller: no two events are bound to one interrupt (`OneEventPerInterrupt`);
owner, route and enable bits follow the entries (`OwnerOK`, `RouteOK`, `EnableOK`); what is
handled stays bound (`HandledOK`); nobody panics. `CarefulInvariant` says that it holds while
`raced = {}`. No theorem restricts the clients: the collisions are steps of the model, and
`BindTake` and `Release` are proved to keep the invariant exactly when they do not collide.
From it follow `RegistrationAlwaysAgrees`, `NoEventEverForgotten`, `ActiveIsAlwaysHandled` and, with
`PreemptInv` (what is under a PE that acknowledges an interrupt is not critical), `NeverPanics`:
`AssertionsHold` derives each of the assertions from the invariant.

**Sending a file** (`UBoot_proofs`; `SizeAssumption`, `OptionAssumption`: files of any length,
any number of timeouts and repeats). `SendsAlwaysBounded` is an amortised bound. `PutInv` says that
a DATA packet carries the block that has its number, and that the server has a prefix of the
file; this is where `FewBlocks` is needed. Counting what was sent
is not enough: the invariant `SendsInv` says that what was sent, together with what can still be
sent without a timeout or a repeat, is within the bound. That `Potential` has a block for each
one that is not stored; two for each packet in the network that is still useful, but one
(`UsefulPackets`: a DATA packet the server is past makes nobody send); and what the current
number of the client allows before the server stores another block (`Armed`). Each step
either hands one useful packet on (`PaysOne`), uses one up, for which the client's number may
be set back by two (`PaysNone`), or is a timeout or a repeat and raises the bound
(`PaysMore`). The attempt to prove the bound with two packets for each timeout, which the run
satisfies, failed for a reason: TLC finds 15 packets for 8 blocks with three timeouts, and the
bound is three. The theorem assumes `FewBlocks`: no number wraps, not even of those beyond the
file that repeated OACKs make the client send. `MCTftpPut` states that the instance does.

**Network loop** (`UBoot_proofs`; the assumptions of `NetLoop`: any number of interfaces, any
settings, retries and timeouts). `LoopInv` holds under every setting. `AliveOK` says for a ping
that the loop is in SUCCESS only after an answer, and that after k retries the current interface
is k steps from the one that failed first, so that the rotation has not come back to it and
`net_start_again` restarts or gives up with an error. The proof showed that this needs
`RetryCnt <= Interfaces`, which `PingFew` says now. `TriesOK` says for RARP that the interfaces
visited are those that are met from the first one to the current one (`Visited`, `Arc`) and that
there was a try for each; as a move passes only over interfaces that do not start, enough
tries visit all that work. The theorems
`LoopInvariant`, `AliveIsAlwaysAnswered` and `AlwaysTriesAll`.

Only model-checked: liveness (`EventuallyHeld`, `EventuallyReturns`, `OnEventuallyRuns`,
`Returns` of `Tftp` and of `NetLoop`, `FindsServer`), which is out of the prover's reach. Every
other property of the runs is stated by a theorem.

## Abstractions

* The wrap of tickets is excluded (`NoWrap`, `MaxTicket`).
* Domain locks and spin locks are taken in one step each in `Psci`.
* Memory is sequentially consistent but for the caches modelled: the code has a barrier
  after each of these accesses.
* PSCI calls that change nothing (VERSION, FEATURES, MIGRATE_INFO, NODE_HW_STATE) are left
  out, as are parameters that are refused before any state is read.
* A cluster that is powered off while a CPU of it is asked to start is left by the library
  to the power controller, and so it is here.
* A copy of the environment is a value with its CRC; a CRC never matches by chance.
* In `Sdei` the body of a call under its lock is one step; for private events, which need no
  lock but at registration, it is the step of its own PE. Register contexts, handler
  addresses and arguments are left out.
* The server of TFTP and the network are external, as are the interrupt controller, the
  flash and the power controller: each may do what the code has to expect of it.
* Packets of others (ARP requests, echo requests), which the loop answers without a change
  of its state, are left out.

## Plan

1. `PsciSetup`: `populate_power_domain_tree` and `psci_update_pwrlvl_limits` as an algorithm,
   with `TreeAssumption` as its result.
2. `Tspd` with preemption, above `Ehf`; the platform hooks of the A3700 under `Psci`.
3. BOOTP and NFS on the loop of `NetLoop`.
