# A TLA+ verification project for IPCop

IPCop turns a small machine into a firewall. It is a collection of short
programs: Perl and shell scripts under `src/source/core/etc/rc.d` and
`scripts`, setuid C helpers under `src/source/core/progs`, CGI pages that call
those helpers, and libraries in `lib`. Nothing of it is a long-running server.
Its state lives in files under `/var/ipcop` and in the daemons and the kernel
it configures, and almost nothing takes a lock. What is hard about it is
therefore what many one-shot programs do to the same few files when they run at
once, are killed half way, or find the files a power loss has left behind.

## 1. Inventory

`PROJECT.json` lists every component with its sources. This is what each keeps
and does, and what would make it correct.

**Dialled RED link** (`rc.red`, `rc.connectioncheck`, the service `ipcop-red`,
`red.c`). State: the flag files `active`, `connecting`, `disconnecting`,
`keepconnected` (which holds the number of attempts) and `redial` in
`/var/ipcop/red`, the pid file of pppd, the link `ppp/settings` to the selected
profile, OpenRC's opinion of the service. Operations: `rc.red start|stop|clear`
and a connection checker that every start puts in the background, which watches
the link come up, and redials, counts, falls back to another profile or gives up.
Hard: any number of these run at once; all decisions are check-then-act on
files; users, the scheduler, the boot and the checkers all call them. Correct
when: one start and one pppd at a time, a Disconnect is final, retries end, a
boot dials whatever was left on the disk, the files tell the truth in the end.

**Command runner** (`setuid.c`). Every privileged helper runs its shell
commands through `system_core`, which can capture what the command writes:
two pipes, two fixed buffers, a `select` loop with a timeout. Hard: full
pipes, full buffers, daemons that inherit the pipes. Correct when the capture
neither harms the command nor keeps the helper waiting, and logs all it read.

**RED state update** (`rc.updatered`, `rc.event`). Called by pppd, dhcpcd and
`rc.red` with up, renew or down; writes the addresses, reloads the firewall and
aliases, starts and stops a dozen services, removes `connecting`. Hard: up and
down may overlap, and it calls others in the background.

**RED over ethernet** (`rc.red` with DHCP or STATIC, `dhcpcd.sh`). State: the
DHCP client, `active`, the addresses. Correct when, at rest, `active`, the
address and the masquerading rules agree.

**Firewall** (`rc.firewall`, `setfwrules.c`, `puzzleFwRules.pl`). State: the
chains in the kernel; policies and rules in `/var/ipcop/firewall`. Operations:
start, reload, stop, and regenerating one group of rules, each a sequence of
single iptables calls that packets see half done. Correct when the verdict for
a packet is what the configured policy says, and no intermediate state is
more open than both ends.

**Rule updates and time frames** (`puzzleFwRules.pl`, `setfwrules.c`, cron, the
rule pages). State: rules, settings, the chains of the five types of rules,
the lock file, and the time frame log, which says of each type whether it has
rules with a time frame and when the next of them begins or ends today. The
web pages start a run in the background after every edit, many helpers start
runs for the services, cron starts a check every five minutes. Hard: runs
overlap, only the iptables calls are under the lock, the log is read before and
written after it; time frames cross hours, midnight, weekdays. Correct when a
chain is never a mixture of two runs, and every rule begins and ends in time.

**Firewall data** (`DataAccess.pl`, `firewall-lib.pl`, CGI pages). Services,
addresses and groups with use counts kept by hand in every edit. Correct when
the counts equal the references, so nothing in use can be deleted.

**Settings store** (`helper.c`, `readhash`/`writehash`). key=value files read
and written by C, Perl and shell. Correct when a write is read back, and a
reader never sees a torn file; the code truncates before it locks and unlocks
before it flushes.

**Scheduler** (`scheduler.pl`). Cron runs it; it dials, hangs up, switches
profiles. It waits without limits.

**Service restarters** (`restartntpd`, `restartsquid`, `restartopenvpn`,
`restartwireguard`, `restartsuricata`, `restartssh`, `restartsyslogd`,
`setaliases`, `restartshaping`, `accountingctrl`, `ipsecctrl`). One setuid
program per service. State: the settings of the service, the daemon with its
pid file or its place in the runlevel, its configuration file, the rules that
belong to it. Operations: stop, configure, start, each in an order of its own.
Hard: a page, the boot and `rc.updatered` call them while settings and RED go
on changing; a daemon may have died, the machine may go down between two steps.
Correct when, at rest, daemon, rules and settings agree, and no step in
between sends clients to a daemon that is not there.

**Backup and restore** (`ipcopbkcfg.c`, `ipcoprestore.c`, `helper_backup.c`,
`upgrade.sh`, `backup.cgi`). State: the configuration, the key, the sets with
their tag files, an archive and its uncompressed form under fixed names in
`/tmp`. Hard: a chain of commands any of which may fail, be killed, or find the
leavings of one that was. Correct when a set in the list is complete, data of
a wrong version never gets in, and success is only reported for what was done.

**Installer** (`installer.c`, `hardware.c`, `partition.c`, `restore.c` and their
helpers). State: the hardware list, the source, the choice of disks, the plan
of the partitions, the stages that are done. Hard: every window has a way back
and every command may fail; disks are found by the first letters of a menu line
in a list that changes. Correct when only disks agreed to are erased, the
partitions fit, and a machine that is congratulated is complete.

**Setup** (`setup.c`, `networking.c`, `net_dhcp.c`, `net_isdn.c`,
`host_domain.c`, `timezone.c`, `passwords.c`). State: the table of cards,
`ethernet/settings`, the udev rules, the names of the system. Hard: cards move
between colours over visits and reboots, the three records are written at
different moments. Correct when they agree once setup is closed.

**Updates** (`installpackage.c`, `available.xml`), **DDNS, accounting, graphs,
web pages, packaging, flash images, modem drivers, information helpers**:
configuration generation and I/O, sequential, with no protocol of their own.

How they meet: the CGI pages and the scheduler call the setuid helpers; these
call `rc.red` through OpenRC and regenerate rules; pppd and dhcpcd call back
`rc.updatered`, which calls the firewall, IPsec and the other services. Apart
from these calls all communication is through files and `ps`.

`PROJECT.json` "hazards" lists where this code can go wrong in ways a test
would hardly show, each with the properties that cover it or the reason why none does.

## 2. Modules

| module | what it is |
|---|---|
| `RedDial` | the dialled link: `rc.red`, `rc.connectioncheck`, `ipcop-red`, the boot, with pppd and the users as environment |
| `SystemCore` | `system_core` of `setuid.c` with the captured command as environment |
| `FwTimes` | the time frames of firewall rules as operators: `inDayTime`, the days, the next switch, the check of cron |
| `FwUpdate` | runs of `puzzleFwRules.pl` over a running clock, with edits and cron (EXTENDS `FwTimes`) |
| `SettingsRegister` | abstract: what a program may rely on when it reads a settings file |
| `SettingsFile` | a settings file system call by system call; implements `SettingsRegister` |
| `ServiceControl` | eleven restarters, with their callers, RED and reboots as environment |
| `Backup` | `ipcopbkcfg` and `ipcoprestore`, with the page and its user |
| `DiskPlan` | the sizes of the partitions, as operators |
| `Preferences` | the kernel command line of the installer and the choice of a language, as operators |
| `HardwareScan` | what the scan of the busses makes of a set of devices, as operators |
| `Installer` | the installer (EXTENDS the three above) |
| `DhcpRange` | the range offered for the DHCP server, as operators |
| `NetSetup` | setup, in the installation and later (EXTENDS `DhcpRange`) |
| `MCRedDial`, `MCFwUpdate`, `MCSettingsFile`, `MCServiceControl`, `MCBackup`, `MCInstaller`, `MCNetSetup` | instances for TLC: machines, rules, archives, symmetry |
| `RedDialProofs`, `SystemCoreProofs`, `FwUpdateProofs`, `SettingsFileProofs`, `ServiceControlProofs`, `BackupProofs`, `InstallerProofs`, `NetSetupProofs` | theorems about the module of that name (`InstallerProofs`: of `DiskPlan` too, `NetSetupProofs`: of `DhcpRange`) |

Every module that is proved about is free of RECURSIVE operators; its parameters
are CONSTANTS under a named assumption.

### RedDial

Processes: `Svc` (the one `rc-service ipcop-red`, OpenRC runs no two at a
time), `Net` (`rc.net --startred` of the boot) and a set `Checkers` of instances
of `rc.connectioncheck`. Every process that is inside `rc.red` has its own
`pc`, so a checker that calls `rc.red stop` is at `"drop"` and comes back to
its own code from there. An action is one stretch of a script between two
points at which another process can see or change a file:

| code | actions |
|---|---|
| `rc.red start` | `StartCheck` (guards), `StartMark` (connecting, checker in background), then `StartFails` or `StartDials` |
| `rc.red stop` | `StopDrop`, `StopKeep`, `StopKill` |
| `rc.red clear` | `Clear` |
| `rc.connectioncheck` | `CheckerBegins`, `SyncTurn` (lines 46-73), `WatchTurn` (75-105), `CheckerSucceeds`, `CheckerAborts`, `CheckerRedials`, `CheckerWaits`, `CheckerCounts`, `CheckerBackup`, `CheckerHoldoff` |
| `ipcop-red` | `ServiceStart`; `StartReturns`, `StopReturns` are the returns of `rc.red` to its caller |
| boot | `Boot` (`rc.net --init`, `start_post` and the default runlevel) |
| `red.c`, scheduler | `UserConnects`, `UserDisconnects`; OpenRC turns them into nothing when `started` says so |
| pppd, `ip-up`, `ip-down`, `rc.updatered` (external) | `PppUp`, `PppFails`, `PppHangup`, `PppDown`, `PppExits`, `UpdateredEnds` |

`files` is the set of flag files that exist, `attempts` the number in
`keepconnected`, `cc` the variables of a checker (`$attempts`, the profile its
settings were read from, `$timetostart`, and whether it is in the branch of
lines 61-67). `wanted`, `requests` and `final` are history. `final` notes, at the
moment the stop of a Disconnect would remove `keepconnected`, whether some script
is committed to undo it (`Committed`): a start, a checker past its test of
`keepconnected` and before its write (lines 36, 129, 146), and a checker in a stop
of its own, which has left the `redial` file or starts again (115, 61-67).
`HangupHolds` is about the Disconnects that none of these stands against.

The constant `Faults` says what the environment does in an instance: a power
loss, a failed synchronisation, a pppd that ends before it is seen, a provider
that never answers, a lost link, an `rc.updatered` slower than HOLDOFF, a user
who connects before the last connection has wound up.

Abstractions: time is left out, so a loop that sleeps is an action that may be
taken at any moment its condition allows; the drivers, the profile checks and
the valid flag are one choice between `StartFails` and `StartDials`;
`CheckerAborts` may kill a start or none, because the script cuts the process
id out of padded `ps` output at a fixed place.

### SystemCore

Bytes are counted, not named. `pos` are the buffer positions, `fill` what the
pipes hold, `open` the streams the loop still watches, `readers` those whose
read end exists. `Select`, `Read` (stdout before stderr in one turn, a read of
nothing closes the stream for the loop), `Timeout`, `Close` and `Reap` are the
statements of the loop and of what follows. `quiet` is fixed at the start: such a
command may write nothing for a second. The command (external) chooses
streams and writes byte by byte (`Wants`, `Written`, `Refused`), exits, and may
leave a daemon that holds the pipes. One thing the model makes visible: a full
buffer closes the stream only for the loop. The command then blocks on the full
pipe, nothing becomes readable, and it is the one-second timeout that closes
the pipe and gets both going again; with a loop that went on after a timeout
they would wait for each other for ever (the mutant `TimeoutGoesOn`).

### FwTimes and FwUpdate

`FwTimes` has no state. `InDayTime`, `InDays`, `Visible` and `Timed` are the
conditions under which the loop over the rules of a type skips a rule;
`InForce` is what the loop leaves, as a set of rules with their places in the
list, and `Times` what it writes to the log. The search for the next switch is
there twice: `NextSwitch` says what it looks for, `SearchSwitch` is the loop of
lines 351-445 with its comparisons of hours and minutes; the model uses the
first, and that the second finds the same is `SearchFindsNearest`, checked by the
run `fw_polite` and proved.

In `FwUpdate` a member of `Runs` is one `puzzleFwRules.pl`:

| code | actions |
|---|---|
| `fwrules.cgi`, `fwrulesadm.cgi`, `setfwrules --ipcop / --wireless` | `SaveRule`, `SaveSettings`, `Services`: the file is written and a run started in the background |
| crontab | `Tick` (the clock, external) sets `cronDue`, `Cron` starts the check |
| lines 65-68 | `Start`: settings and local time |
| lines 86-216 | `ReadLog`: the log is read, types are chosen, their times reset |
| lines 218-456 | `Prepare`: configuration and rules |
| `submitAllRules` | `TakeLock`, `Flush`, `Add`, `Unlock`, one step per type or rule |
| `writehash` | `OpenLog` (truncates), `WriteLog` |

`installed` is history: what the last run to take the lock had prepared.

Abstractions. A chain is a set of rules with their places, and one rule is one
call; the chains of the services and of the address filter are left out, so a
run for them alone has no types and yet reads and writes the log. Config
files are read and written whole. One cycle of days stands for both weekday and
day of the month. The clock only ticks: it is not set, and there is no daylight
saving. `iptables` does not fail.

`Overlap` is a fault switch like `Faults` above. FALSE says that a run ends
before the next one starts and before the clock goes on. Nothing in the code
ensures that. `SwitchedInTime` and `LogAgrees` need it: with overlapping
runs an older configuration may be installed last, because it is read before the
lock is taken, and the log may be lost (see Known behaviours). `Whole` holds
without it.

### SettingsRegister and SettingsFile

`SettingsRegister` is the promise: one value, a write that takes time, reads
that take time. A read no write overlaps returns what is stored; one that is
overlapped may miss keys and find a value cut short, but if it takes the lock
what it gets belongs to one version. `SettingsFile` is the code:

| code | actions |
|---|---|
| `fopen` with `w` (`helper.c:350`), `open` with `>` (`writehash`) | `OpenToWrite`: the file is empty, the lock not yet taken |
| `flock` with LOCK_EX, LOCK_SH | `Lock`, `LockShared` |
| stdio, PerlIO | `Flush`: a buffer is full, the file may end within a line |
| `write_kv_to_file` | `Unlock` before the rest is written by `Close` |
| `writehash` | `Close` only |
| `read_kv_from_file` (`Locking`), `readhash` | `OpenToRead`, `ReadLine`, `EndOfFile` |

`Loaded` is the list of `helper.c`: `add_kv` puts a pair in front, `find_kv`
finds the first, so of equal keys the last line counts, as in a Perl hash. `Die` is
a writer that is killed. `value`, `seen` and `torn` are history variables:
they are what the refinement maps to the register. One write is under way at a
time; two at once can leave any mixture and nothing is claimed for them. Lines
have equal lengths here, and a version has all keys.

### ServiceControl

A behaviour follows one service, chosen in `Init`. `job[w]` is a restarter
called by `w`: at which step it is, how it was called, the settings and the
RED it has read. Each service has an action of its own name, whose disjuncts
are the stretches of `main` between two points at which settings, RED or the
machine can change, in the order of the C file. For example:

| code | steps of the action |
|---|---|
| `restartntpd.c` | `Ntpd`: the `--red` call only once, settings, chain emptied, stop, start, redirect |
| `restartsquid.c` | `Squid`, `SquidStop`, `SquidRead`, `SquidRules`: rules emptied, stop, settings, RED, start, rules |
| `restartssh.c`, `restartsyslogd.c` | `Configured`, `Create`: O_EXCL, `sed`, `rename`; then `Sshd`, `Rsyslogd` |
| `restartsuricata.c` | `Suricata`, `SuricataConf`: the file opened with `w`, written, then the restart |
| `setaliases.c`, `restartshaping.c`, `accountingctrl.c` | `Aliases`, `Flush`, `Shaping`, `Accounting` |
| `ipsecctrl.c` | `Ipsec`: start, delayed start and stop |
| the pages, `rc.sysinit`, `rc.updatered` | `Save`, `Stop`, `Boot`, `RedUp`, `RedDown`: they owe calls, which `Begin` makes in order |

Every start may fail (`Launched`, `Started`): no restarter but restartsyslogd
looks at the result, so the call goes on to its rules and returns success. Then there
is no daemon and, for those that write one, no pid file. `failed` notes it, for ntpd
and squid until the chain is emptied again, because by the missing
pid file the next call skips exactly that.

`Crash` is a daemon that dies and leaves its pid file, `Reboot` a power loss with
the boot after it, at any step. `rules` names what is in the kernel, not the
packets it matches. `Alone` are the services whose calls do not overlap; nothing
ensures that, so `AtRest` is stated for those only. `ConfWhole` needs no such
restriction: O_EXCL makes a second call fail. A settings record has two bits,
on and one more (`extra`), which is the second option that decides something in
the code, or else tells two configurations apart.

### Backup

A job is one call of a helper, a `pc` through its commands.

| code | actions |
|---|---|
| `ipcopbkcfg.c` `--write` | `Write`, `Tar`, `Encrypt`, `Encrypted`, `Label` |
| `--keygen` | `KeyGen` |
| `ipcoprestore.c` `--restore`, `--import` | `Restore`, `Import`, then `Decrypt`, `Test`, and `Gunzip`, `Untar`, `Untarred`, `Upgrade` or `Tag`, `Move` |
| the exit handlers | `WriteCleans`, `RestoreCleans` within the steps that exit |
| `helper_backup.c` | `VersionFits` |
| `backup.cgi`, setup | `Export`, `Remove`, `Edit`, `Reap` |

Every command may fail (`Fault`) and a job may be killed between two (`Kill`), in
which case its exit handler does not run and its files stay in `/tmp`. The
configuration is a port, hardware files and the version of its format: what
the properties tell apart. `setreservedports.pl`, which a restore calls when the
ports differ, is part of `Untarred`: it writes the ports that `main/settings`
has just got from the archive, and what it edits besides (`portgui.conf`, the pid file
of httpd) is not there in this system, whose lighttpd has fixed ports. `upgrade.sh`
goes on after a command that failed and returns the status of its last one, so
its failure (`Upgrade`) may be reported or not. Archives of other times that were
encrypted with
our key come in through `Import` (`Foreign`). `ForeignAssumption` says of them
that they were written before this history, that no two have one date (dates go
to the second; an import replaces the set of the same date, which is what the
code is meant to do with the same backup), and that the data in an archive are
as good as its version. `Past` bounds the dates before the history.

### DiskPlan, Preferences, HardwareScan, Installer

The pure parts are operators: the plan of the partitions with all its limits
(`Plan`, and `Fits` says what it must satisfy), what a command line asks for,
which languages can come out of `lang=`, which devices are network cards or
special modules. `Installer` has one action per window and per stage:

| code | actions |
|---|---|
| `language.c`, `keymap.c`, `timezone.c` | `HandleLanguage`, `Welcome`, `HandleKeymap`, `HandleTimezone` |
| `hardware.c` | `ScanBusses`, `ManualModule`, `ScanDrives`, `Rescan` |
| `installer.c`: sources | `SourceBoot`, `SourceCdrom`, `SourceNetwork`, `SourceCancel` |
| `installer.c`: `selectdestination` | `PickNothing`, `PickRaid`, `PickDisk`, `PickCancel`, `Confirm`, `Kind` |
| `partition.c`, `helper_apk.c` | `Partition`, `CreateRaid`, `Format`, `ConfigureRepos`, `UpdateIndexes`, `InstallPackages`, `Swapfile`, `Initramfs`, `MakeBootable`: each may fail, which ends the installation and undoes nothing |
| the end of `main`, `restore.c` | `WriteSettings`, `Attempt`, `SkipRestore`, `Congratulate`, `Setup`, `Exit` |

A machine is a record: its drives, which of them settle late, which modules each needs
to be seen and which the kernel has loaded before the scan (`needs`,
`kernel`), what holds our packages or a backup, its busses, whether the server answers.
`agreed`, `erased` and `done` are history; `done` tells a restore with a key
("restored") from one off a floppy ("copied"), which is reported as a success
when its files were good, however far `cp` and `upgrade.sh` got (`restore.c` 71-76).
The variable `kernel` grows with what is loaded: by the scan two of the three modules
it adds for a kind of controller, and by hand, before or after the drives were
looked for. The variable `type` of `hardware.c`
that keeps its value from drive to drive is `IdeType` (the type of the last
drive of a known kind up to this one); the fact that
`apk_check_network` returns SUCCESS, which is 0, to a caller that takes it for
a Boolean is `ConfigureRepos`.

### DhcpRange, NetSetup

One action per window of setup; `entries` says in which windows the user of a
behaviour makes changes, so that instances stay small.

| code | actions |
|---|---|
| `timezone.c`, `host_domain.c`, `passwords.c` | `Timezone`, `Hostname`, `Domain`, `Password` |
| `networking.c` | `NetEnter`, `MenuChoose`, `MenuLeave`, `RedType`, `Scan`, `AddCard`, `Assign`, `SelectNothing`, `CardsDone` (with `udevconfig`), `AskAddress`, `MenuAddress`, `ChangeDnsGateway`, `ChangeHostname`, `Save` |
| `net_isdn.c`, `net_dhcp.c` | `Isdn`, `IsdnLeave`, `Dhcp` |
| the machine | `Reboot`: udev renames the interfaces, drivers are loaded |

`nets`, `eth`/`file` and `rules` are the three records of the assignment. A card the
scan did not find is listed only if sysfs has its ids (`Known`, `networking.c` 368);
one of the ISA list has none (constant `NoIds`) and is dropped with its colour.
`lost` is history: the colours whose card was dropped and that no other card has got
since. `writable` says whether the udev rules can be written; if not, `udevconfig`
returns without a word and settings and rules keep the names they had (638-641). It
does not change within a behaviour. `shown.failed` says that the names could not be
written to the system, which `writehostsfiles` returns and nobody looks at. A
network is its size and GREEN's place in it: the range for the DHCP server does
not depend on more.

## 3. Runs

| run | shows |
|---|---|
| `dial_races` | `NoStaleRedial`, `HangupHolds` under hasty users, lost links, slow updates: 3 checkers, 2 pppds, 2 requests |
| `dial_polite` | `OneStart`, `OnePppd`, `HandOver`, `ActiveIsTrue` and the types: 3 checkers, 2 pppds, 2 profiles, 3 requests, failed synchronisations, short-lived pppds |
| `dial_gives_up` | `GivesUp`, `CheckerEnds`: a provider that never answers, 2 retries, a backup chain of 2 profiles |
| `dial_boot` | `BootDials`: power losses at any point |
| `capture` | `OnlyFullBuffersRefuse`, `LogIsComplete`, `Returns` and the types: buffers of 3, pipes of 2, 8 bytes; quiet and chatty commands, blocked commands, background daemons |
| `fw_polite` | `SwitchedInTime`, `LogAgrees`, `SearchFindsNearest`: two days of two hours of four minutes, two types, six lists of rules, edits and changes of mode at any minute |
| `fw_overlap` | `Whole` and the types: two runs, two types, two lists |
| `settings` | `IsARegister`, the refinement, and the types: two keys, two versions that differ in both, a reader in C and one in Perl |
| `services` | `AtRest`, `RedirectServed`, `ConfWhole` and the types: all eleven services, two saves, two times RED, one fault, starts that may fail at any call |
| `backup` | `SetsComplete`, `FormatFits`, `SuccessIsTrue`, `GoodSetsStay` and the types: one backup written, four archives from elsewhere, one fault |
| `installer` | `OnlyAgreedErased`, `PlanFitsChosen`, `Complete` and the types: nine machines, some forty command lines |
| `net_setup` | `CardsKeepColours`, `RedFollowsType`, `NamesAgree`, `RangeServes` and the types: three cards, one of them without ids, nine ways to come to setup, one of them with rules that cannot be written, reboots without limit |

The runs of RedDial, SystemCore and ServiceControl have CHECK_DEADLOCK FALSE: a
machine whose user asks nothing more and a helper that has returned stop. In
FwUpdate the clock never stops; in Backup and SettingsFile a next call is
always possible; Installer and NetSetup name the states in which they stop
(`Stopped`, `Idle`). There deadlock is checked. `fw_overlap` uses the symmetry of
runs and of types, `settings` that of the keys, the first two runs of RedDial
that of checkers and of pppds; these runs have safety properties only, and none
of them distinguishes what is permuted.

Bounds. `Checkers` and `Pppds` bound the instances alive at once, not those of
a behaviour: an instance that has ended can be used again. When all are busy the
action that would start one more waits, which cuts behaviours with four
overlapping checkers or three pppds. Two of each are what an overlap needs, the
third checker lets a hand-over begin while another is unfinished.
`MaxRequests` bounds connects, disconnects and power losses; two give every
order of a connect and a disconnect after the boot's own dial, three a
disconnect between two connects. `MaxRetries` of 2 tells "first",
"last" and "reset" apart. In SystemCore `MaxWrites` 8 exceeds two buffers and
two pipes together less what is left unread (2+2 in the buffers, 2+2 in the
pipes), so each of full buffer, full pipe and both at once happens.
In `fw_polite` two hours and two days are the least that have an hour in
between, a midnight on the next and one on the first day; with four minutes and
checks at 0 and 2 a rule can begin and end at a check, before and after it. The
rules of `MCFwUpdate` cover each branch of `inDayTime` and of the days; lists
in both orders of their switches exercise each comparison of the search. In
`fw_overlap` the clock stands still, because `Whole` does not look at it; two
runs are what a mixture needs, two lists of different length show one.

`settings`: two keys and two versions are the least that can be mixed. `services`:
two saves are the least that change a setting while the call for the first is
under way, two links the least for a rule with the address of the last one;
one fault is a daemon that died or a power loss, at any step, while the starts that
fail are not bounded. `backup`: one backup
beside those that come from elsewhere lets every call meet a set; one fault
lets one failing or killed call be followed by any calls that succeed. The
versions are one of each kind the test tells apart, and the archives include
one it must refuse on each side. `installer`: disks too small, just large enough
and large; the packages on a CD, a small key, a key large enough to be a target,
the network, or nowhere; command lines are tried one option at a time, not all
combinations. `net_setup`: one card the scan never finds and sysfs has no ids of,
another it does
not find on one of the systems, and one whose cards it does not find at all (all
drivers load, `Stubborn` is empty, so that the interface eth0 by default of
`net_dhcp.c` 251-257 is not reached); networks with room
above GREEN, only below it, and of four addresses; a behaviour makes changes in
one group of windows (`entries`), because windows of different groups share no
state but `eth`.

Fairness (`FairSpec`, in the runs with liveness properties): weak fairness of each
script, because the
kernel schedules every process and all their loops sleep and look again; of
pppd, which either gets an answer or gives up by its own limits; of
`rc.updatered`, which ends. Nothing is assumed of users, power, or lost
links. In SystemCore: the helper is scheduled, and a command whose writes do not
block exits; a daemon in the background may stay for ever. The other modules
state no liveness: their programs run to their end and what matters is what
they leave.

## 4. Proofs

TLAPS proves, from the named assumptions of the modules alone, hence
for any number of processes, profiles, retries, readers, drives, any sizes of
buffers, pipes and disks:

* `RedDialProofs!TypeCorrect`: `TypeOK`. `TypeOK` is not inductive: that
  `attempts` stays below MAXRETRIES needs that a checker at its count read a
  number below it and has read its profile (`BelowMax`, `HasRead`).
* `RedDialProofs!RedialNeverStale`: `NoStaleRedial`, without power losses. With
  them it is false: the file survives, and the loss comes in the middle of a stop.
* `RedDialProofs!StartsExclude`, `PppdsExclude`, `CheckersHandOver`: `OneStart`,
  `OnePppd` and `HandOver`, without power losses and hasty connects. The guard of
  `rc.red start` is a test of files
  that are only written much later, so exclusion rests on something else: at any
  time at most one process is a *driver*, one that is in `rc.red start` or about to
  be. The inductive invariant `Exclusive` says so (`OneDriver`), and that a
  driver before its mark has no checker beside it (`AloneAtFirst`), that after
  the mark its own checker does not leave its first loop (`AtDial`: the
  `$timetostart` flag of `rc.connectioncheck`), that no pppd exists while a
  driver drives (`DialsFree`) or a checker has seen the last one go
  (`SeesFree`), and that idle checkers carry nothing over (`Fresh`) and the
  boot comes first (`BootFirst`).
* `RedDialProofs!ActiveTellsTruth`: `ActiveIsTrue`, in the same circumstances. Its
  invariant `LinkInv` rests on `Exclusive`: the pid file names the pppd that runs
  or is about to be overwritten (`PidIsTrue`), `active` means a pppd that is up or
  closing (`ActiveMeansUp`), and a link without `active` has a script beside it that
  has removed the file and is about to end the link (`UpIsActive`).
* `RedDialProofs!NeverStuck`: in the same circumstances, unless everything is quiet,
  the guard of some action of a script, a checker or a pppd holds (`ScriptGoes`,
  `CheckerGoes`, `PppdGoes`). The scripts wait for each other with tests of files and
  of `ps`; the invariant `Moving` says who can be where (`Places`), that
  no rc.updatered runs beside a start past its guards (`Prepared`), and that the
  pppd a checker waits for has had its signal (`Signalled`, from `PidIsTrue`). Two
  checkers and one pppd are enough for it: these bounds of the runs block no
  dial. It is the safety part of `CheckerEnds`.
* `RedDialProofs!HangupIsFinal`: the action property `HangupHolds`, without power
  losses. The invariant `StaysGone` says that after a Disconnect no script was committed
  to
  undo, `keepconnected` stays gone and no script gets to a place where it would create it
  or dial. It rests on `NoStaleRedial`: as no checker is in a stop of its own,
  there is no `redial` file that would make the Disconnect keep `keepconnected`.
  With a power loss it is false for the reason given above.
* `SystemCoreProofs!TypeCorrect`, `CaptureIsHarmless`, `LogsAreComplete`:
  `TypeOK` (positions inside the buffers), `OnlyFullBuffersRefuse`,
  `LogIsComplete`. The inductive invariant `Captured` follows the parent through
  four phases (`Before`, `Loop`, `Ending`, `Ended`) and says that every byte a
  pipe has taken is in its buffer or still in the pipe, and that a stream
  closed for the loop is at its end or its buffer is full.
* `SystemCoreProofs!CaptureEnds`, `NeverStuck`: what is behind the liveness property
  `Returns`, for every size and under every fault. `Left` is a natural number that
  every step of the parent, the command, the process left behind or the administrator
  makes smaller: a
  round of the loop takes a byte out of a pipe or closes a stream, and bytes come
  from the command alone. And until the parent has returned, a guard of
  its own actions or of the command's holds (`ParentGoes`, `ChildGoes`), from the
  invariant `Living`: the timeout of `select` and the closing of the read ends before
  `waitpid` are what it rests on. A behaviour therefore has finitely many steps,
  and if the parent and the command are scheduled (`FairSpec`), the last one is the
  return. Only this last conclusion, with its ENABLED, is left to TLC.
* `FwUpdateProofs!DayTimeIsInterval`: `inDayTime`, with its five branches, is the
  cyclic interval from start to end, for every length of hours and days.
* `FwUpdateProofs!TypeCorrect`, `ChainsAreWhole`: `TypeOK`, `Whole`. The invariant
  `WholeInv` says, type by type, where the holder of the lock is: before its
  flush, or with a chain that together with what it has still to add is what it
  prepared (`Submission`).
* `FwUpdateProofs!RulesSwitchInTime`, `LogIsRight`: `SwitchedInTime` and
  `LogAgrees`, for `~Overlap`. The invariant `PoliteInv` says that at rest the
  chain holds what was in force at some time since the last check, that the log
  has the next switch after that time, and what a run on its way still owes
  each type. That a check may leave a type alone is the heart of it: if the next
  switch in the log is not reached, no rule has begun or ended since
  (`NothingSwitches`, from `HoldsBetween`), and the first minutes of a day are
  always checked. The next switch exists because a set of times has an
  earliest one (`Least`, from the well-foundedness of < on the naturals).
* `FwUpdateProofs!SearchIsRight`: `SearchFindsNearest`, for every list of rules in any
  order. The loop is a recursive function of the number of rules it has looked
  at. After each rule it has the earliest of the times that the rules so far have
  to come (`IsEarliest`, `ComingOf`), and that this time is later than now is
  why the comparison of minutes alone (`$hour == START_HOUR`) cannot go wrong.
  There is no induction rule to cite: that the function exists (`LoopRuns`) and
  what it has found (`LoopFinds`) go by the least number of rules for which it
  would fail (`Least`).
* `SettingsFileProofs!TypeCorrect`: `TypeOK`, in which the locks exclude each other.
* `SettingsFileProofs!FileImplementsRegister`: the refinement `Spec => IsARegister`,
  for any keys, versions and readers. Every step of the file is a step of the
  register or a stutter, under an invariant in two parts. `FileInv` says what
  the file holds while the writer is at each of its steps: nothing, a beginning
  of its lines with the last one perhaps cut, all of them. `ReadInv` says of
  each reader what its lines are: the beginning of the file at rest (`AtRest`),
  of the file since the last write ended (`Untorn`), of one of the versions seen
  if it holds the lock (`OneVersion`: the lock keeps the file from changing
  under it, although not from being emptied before), or of some of them
  (`SomeVersions`).
* `ServiceControlProofs!TypeCorrect`, `ConfigurationWhole`: `TypeOK`, `ConfWhole`. The
  invariant `Edits` says that one call at most owns the file made with O_EXCL,
  and that the file is complete when that call comes to its rename. A file left by a
  power loss belongs to none, and no later call gets past `Create`.
* `ServiceControlProofs!ClientsServed`: `RedirectServed`, if restartntpd and restartsquid
  are called one at a time. The invariant `RedirectInv` says that there is one
  call (`OneCall`), that between emptying the chain and filling it there is no
  redirect (`Emptied`), that a call about to fill it has started the daemon or failed
  to (`Manned`), and that without a pid file there is no redirect unless a start has
  failed. The last part says how far `if pid file exists` is a safe condition for the
  flush.
* `ServiceControlProofs!ServicesMatch`: `AtRest`, for any numbers of saves, times RED
  comes up and faults, starts that fail, and the services of `Alone`. The invariant
  `RestInv` says that
  there is one call (`OneCall`), what a restarter has done at each of its steps
  (`Does`, service by service) and what the pid file tells while it is kept
  (`Kept`: without it no daemon and no rules, with it only a daemon that died is
  missing). Settings and RED change under a restarter, so what it has read is
  those of now or a further call is owed that will do it again (`Fresh`, `Seen`,
  `Awaited`). Not every call counts: restartntpd does its work for `red` once
  after boot only and restartsquid for squid that runs only, so for these two a call
  for new settings must be a start or restart (`Full`), and the rules for the RED
  address, which squid's `red` does renew, have an invariant of their own
  (`Bypassed`). Between calls the last one has left daemon and rules as they
  should be, or has failed, or one is owed (`Rested`). A failed start excuses the
  missing daemon, and what ntpd's or squid's chain holds until it is next emptied, and
  nothing else.
* `InstallerProofs!PlanFitsDisk`: for every disk from the minimum on, every swap
  file that may be asked for, hard disk or flash: no size is negative and the
  partitions fit. The sum of least sizes in the code leaves out the swap file;
  the proof shows that the limits make up for it.
* `InstallerProofs!ErasesOnlyAgreed`, `PlansFit`: `OnlyAgreedErased`,
  `PlanFitsChosen`. The inductive invariant has a part for each idea:
  `SourceInv` (the medium is no target, because its type was changed),
  `ChoiceInv` (the disks chosen are targets at least as large as the size noted),
  `PickInv` (where in the choice of a RAID the user is), `ErasedInv` (nothing is
  written before the consent, which is for the disks chosen), `PlanInv`. The
  plan is `PlanFitsDisk` for the smaller disk, carried over to the larger.
* `InstallerProofs!TypeCorrect`, `InstallsCompletely`: `TypeOK`, `Complete`, with four
  more parts: `PlaceInv` (types), `ScanInv` (over all rescans, every drive of the
  list is one the kernel can see, and every module it has loaded is in the list of
  modules or was there before the scan),
  `StageInv` (which stages are behind the user at each place), `EndInv` (where the
  configuration comes from, and what is said at the end). That the initial RAM
  disk has the drivers of the disks chosen follows from `ScanInv` and the
  choice of `choice.d1` out of the list. Setup is passed over exactly when an attempt to
  restore was reported as a success. Nothing is assumed of drivers, and nothing
  claimed of the modules the kernel loads by itself for what no scan lists.
* `BackupProofs!TypeCorrect`, `CompleteSets`, `DataFit`, `SetsKept`: `TypeOK`,
  `SetsComplete`, `FormatFits`, `GoodSetsStay`, for `~Overlap`, any number of
  backups and faults and any archives from elsewhere that meet `ForeignAssumption`.
  The invariant is about what is around: the sets, the upload, the last
  download and the archives from elsewhere. `Dated` says that they are told
  apart by their dates, none later than the clock, `Sets` that a set has the date
  of its name, and that one cut short has no tag file and no archive around has its
  date, `Working` where the one call is: a backup on its way has a date no
  archive has (`Writing`), an import still has the file that was tested
  (`Reading`). `Data` follows the version from the test to the configuration. For
  `DataFit` the comparison of packed versions is shown to be the one by parts.
* `BackupProofs!SuccessIsTold`, `SetsAreStored`, for `~Overlap`. The
  invariant `Results` follows the call that is under way: what its set is
  (`Stored`) and how much of the set is in the configuration after each of the
  restore's commands (`Restored`), and says that without a fault no archive is left
  under the fixed names (`NothingLeft`). A restore that reports success has
  brought back its set, but its data may not be upgraded if a command failed in
  `upgrade.sh`. What `SuccessIsTold` says of a restore is about at most one
  fault, which is what the run `backup` has, and says so, because it is false with
  two: a restore that is killed after `gunzip` leaves `/tmp/<host>.tar`, the
  `gunzip` of the next restore fails, its result is not looked at
  (`ipcoprestore.c` 297), and the archive of the first is unpacked and success
  reported. What holds under any number of faults is `SetsAreStored`: a backup or an
  import that reports success has left its set complete and with its label.
* `NetSetupProofs!TypeCorrect`, `ColoursKept`, `RedAsTyped`, `NamesWritten`: `TypeOK`,
  `CardsKeepColours`, `RedFollowsType`, `NamesAgree`, for any cards, any settings and
  rules found at the start that meet `StartsAssumption` (no two interfaces of one
  name, an interface RED exactly when its type needs one, the name of a colour is
  that of its interface only and some card has it, and in an installation the rules can
  be written and cards come from the scan) and any user. The
  invariant says that cards, colours and names occur once (`Distinct`), how far
  setup is (`Stage`), and of the three records when they agree: `Agree` holds of
  the settings in memory inside the networking step and of the file outside it, and in
  between, in the list of cards, the settings are on the way (`OnTheWay`: a
  colour that is assigned has its interface counted, and its name too as long as
  nothing was changed). `Traced` follows the names the other way: a colour that has
  its own name in the settings has a card in the list, or will have one, unless it is
  in `lost`; `Own` keeps one colour from having the name of another. RED may come
  without a name, after a change of its type to a modem's and back. udev's new names are
  again all different because the
  name of a card with a colour is that of the colour, and the others are numbered
  past the names that are taken (`udevconfig`).
* `NetSetupProofs!DefaultRangeServes`, `RangeAndServer`: the range offered is not empty,
  lies in the network and holds neither GREEN nor the broadcast address, for every
  network of four addresses or more, but for GREEN as the first host of four; and
  `RangeServes`, for such networks and if the drivers of all cards load
  (`Stubborn = {}`, as in the run). Without the second it is false: in a later visit
  GREEN may be given to a card that has no interface, and dnsmasq keeps the old one.

Only model-checked: the liveness properties `GivesUp`, `CheckerEnds`, `BootDials`
and `Returns`, because fairness and ENABLED are out of the prover's reach (for
`Returns` and `CheckerEnds` the safety part is proved). The
invariants and action properties of the runs are all theorems, some under the
hypotheses named above.

## 5. Known behaviours

What the code does that a reader might not expect, and that the properties
leave room for, or that was seen while reading. No document of the repository
promises otherwise in a form a run could contradict, so none of these is
listed as a finding.

The RED link:
* The stop a checker orders after a failed synchronisation (`rc.connectioncheck`
  63) comes without the `redial` file and removes `keepconnected`, whereas `rc.red` 297
  speaks of keeping it: with a modem that never synchronises the attempts begin
  again at 0.
* A Disconnect during a checker's `rc.red start` finds no pid file, and the link
  comes up afterwards (`rc.red` 304).
* A Disconnect between a checker's `touch redial` (`rc.connectioncheck` 115) and the
  end of the stop it orders finds the `redial` file and keeps `keepconnected`
  (`rc.red` 298): the checker dials again. So does one between the test of
  `keepconnected` and its write (36, 129, 146).
* A `redial` file that a power loss leaves on the disk is not removed by the boot, and
  the first Disconnect after it keeps `keepconnected`.
* The timeout in `setuid.c` (257-260) leaves the loop without looking at the
  child: the pipes of a command that is quiet for a second are closed under it.

Rule updates: overlapping runs can lose the entries of the time frame log, and
install an older configuration last (`puzzleFwRules.pl` 86, 237, 1221).

Backup and restore:
* A restored or edited GUIPORT only gets into `main/settings`: `header.pl` (106) sends
  browsers to it, while lighttpd listens on the ports of its own configuration, which
  nothing changes.
* A command that fails in `upgrade.sh`, but for its last (135), is reported by no one: the
  restore returns success with data of the older format.
* The result of `gunzip` is ignored (297), a failing `tar` is not rolled back (330),
  a failing `--keygen` leaves an empty key (`ipcopbkcfg.c` 334), a failed encryption
  a cut `.dat` without a tag file (504).
* The exit handler of one `--write` removes the tag file another is about to pack
  (252).

Services:
* A daemon that does not start is missing after a call that returned success
  (`restartssh.c` 182, `restartopenvpn.c` 195, `restartwireguard.c` 90,
  `restartsuricata.c` 373), and clients are redirected to it (`restartntpd.c` 180,
  `restartsquid.c` 400). As there is no pid file then, the next call does not empty the
  chain (`restartsquid.c` 273-298, `restartntpd.c` 118): the redirect stays, also when the
  service is switched off.
* A pid file whose process is gone makes restartntpd (131) and restartopenvpn
  (138) exit with success without starting anything.
* `sshd_config.new` or `rsyslog.conf.new` left by a power loss makes every later
  call of restartssh (103) or restartsyslogd (171) fail.
* `suricata.yaml` is emptied and written in place (`restartsuricata.c` 95): after a
  power loss in between suricata has no usable configuration until the next call.
* The SURICATA chain that restartsuricata fills is created by nothing.
* accountingctrl (103) looks for vnstatd and acts on it later; the delayed
  `ipsecctrl --start --wait` may come after the `--stop` of the next down.

Installer:
* OK in an empty menu of disks dereferences NULL (`installer.c` 644); Select in an
  empty list of cards indexes in front of the table (`networking.c` 784). Both
  end in the state "crashed" of the models.
* `apk_configure_repos` writes the Alpine repository exactly when the server does
  not answer (`helper_apk.c` 114), so that an installation without a network fails;
  one from the network never succeeds, because the repository of our packages
  is only mounted for a CD. `make_bootable` does nothing on x86_64
  (`partition.c` 740).
* After a failed attempt at the network the interface tried stays selected (306-312);
  `lang=` with
  a language the installer cannot use gives the one at its place (`language.c`
  164); only the first alias of a device counts (`helper_kernel.c` 79); a tape is
  what the IDE drive before it is (`hardware.c` 202).
* A wrong password leaves a bad `backup.key` (`restore.c` 225); Skip after a restore that
  failed half way runs setup on what was unpacked.
* With RAID and manual partitioning the RAID is left to the user.
* A restore from a floppy is reported as a success when its files were found good: what
  `cp` and `upgrade.sh` did is not looked at (`restore.c` 71-76), and setup is passed
  over.
* The user is congratulated although setup did not run, if its command failed
  (`installer.c` 1100).
* The command that would load ide-gd_mod is made and not run (`hardware.c` 546). A USB
  disk found with `nousb` has no usb-storage in the initial RAM disk.

Setup:
* The settings shipped in `var/ipcop/ethernet` name interfaces that may not exist
  and are taken for assignments until they are changed.
* The udev rules are written at Done, the settings when the menu is left
  (`networking.c` 838).
* DHCP, then ANALOG, then DHCP again leaves one RED interface without a device
  (474-480), if the cards are not visited.
* A card that the scan does not find and that has no ids in sysfs is dropped from the
  list when setup is called again (368, 387-390); after Done the udev rules are
  written without it, and its colour keeps a name no card will have, until the card
  or another is given the colour.
* The cards taken over from sysfs share the static buffers of module and ids (372-380),
  and
  an interface that belongs to no card of the list can be taken for that of a driver
  loaded next (240, 268).
* If the udev rules cannot be written settings and rules keep the old names, without a
  message (638-641).
* `/tmp/dhcp.params`, which the windows for host and domain name read
  (`host_domain.c` 138, 214), is written by nobody in the repository.
* Skip in the window for the domain, in an installation, writes a name that was
  refused (`host_domain.c` 256).
* On a network of four addresses with GREEN the first host the range offered is
  empty. The window for the DHCP server is only reached in an installation.
* In an installation handletimezone changes `/etc/localtime` but not TIMEZONE, and
  removes the
  link before it makes the new one (`timezone.c` 137).

## 6. Not modelled

In the modelled parts: dial on demand and the manual mode (no checker);
`rc.connectioncheck reconnect`, which nothing calls; the persist mode of pppd;
what a background daemon itself writes to the pipes; the branches of
`rc.red start` for ethernet. `SelectProfile` is one step, although
it unlinks and links. Of the rule updates: the text of the iptables calls, the
chains of the services and of the address filter, failing calls, and the
moments between the save of a page and the start of its run. Of the settings:
two writers of one file, the shell readers. Of the services: the bodies of the
generated configurations, squid's rules around IPsec (`restartsquid.c` 72-206),
the search for a single key in `ipsecctrl.c` (490-527). Of the backup:
`ipcopbackup.c`, and two calls at once (constant `Overlap`, FALSE in the run). Of the
installer and setup: the layout of the windows, the boot loaders of powerpc and
sparc (`partition.c` 814-934), the table of USB names, the window for date and
time (`timezone.c` 203-254).

The other components are listed in `PROJECT.json` with the reason: RED over
ethernet, whose protocol is dhcpcd's; the chains of `rc.firewall`, whose meaning
is netfilter's; the use counts of services, addresses and groups; the scheduler's
choice and waits; the packages of an update; drivers, information helpers,
DDNS, graphs, flash images and web pages, which are I/O.

## 7. What is left

In the order of what the system most depends on:

1. Use counts of the firewall data: that they equal the references under every
   edit of the CGI pages, and hence nothing in use can be deleted.
2. RED over DHCP or STATIC with `rc.updatered` and the reload of the firewall:
   at rest `active`, address and masquerading agree. The services would then
   hear of RED from that module instead of `RedUp` and `RedDown`.
3. The scheduler against an abstract link that `RedDial` implements.
