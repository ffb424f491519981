# A verification project for xCAT

xCAT's server, `xcatd`, is a family of Perl processes that fork, signal, reap
and hand sockets to one another. Its web interface is a set of JavaScript pages
that drive chains of commands with asynchronous requests. This directory holds
TLA+ models of both, TLC configurations that check them on small instances, and
TLAPS proofs of safety properties for every value of the constants. Line numbers
alone refer to `src/xCAT-server/sbin/xcatd`; file names without a directory that
end in `.js` are under `src/xCAT-UI/js/`.

## 1. Inventory

### Processes of xcatd

| component | state it keeps | operations | talks to |
|---|---|---|---|
| main process: SSL service loop (1645-1864) | `@pendingconnections`, `%immediatechildren`, `$sslclients`, `$sslfudgefactor`, `$pid_UDP`, `$pid_MON`, `$mon_respawn`, `$quit`, its SIGCHLD handler | accept, throttle, fork a worker, answer the UDP process, re-fork the monitor, reap, stop and wait | workers and monitor (fork, SIGCHLD, USR2), UDP process (socket pair) |
| supervision of the monitor (`RespawnUtils.pm`, 1195-1205, 1373-1384, 1647-1679) | delay, `next_at`, `started_at`, `streak`, `reported` | `due`, `forked`, `exited`, `should_report`, `reported`, `supervise` | main loop, reapers |
| install monitor (342-431, 433-805) | `%installm_kids`, `%installm_busy`, `%installm_queue`, the socket, `$quit` | accept, queue per node, fork a handler, reap, wait, serve in line, stand down and drain | nodes (TCP), handlers (fork, SIGCHLD), an older monitor (pid file, USR2) |
| install handler (635-778) | one connection | one of the install requests of a node: `next`, `ready`, `unlocktftpdir`, `setiscsiparms`, ... | destiny and other plugins |
| UDP process (889-1082, 808-833) | packets, resource requests | receive, pass discovery packets on, grant slots | main process, discovery worker |
| discovery worker (835-887) | none | parse and run the discovery plugins | UDP process |
| client worker (1763-1856, `service_connection` 3023) | one TLS connection | authorise, `plugin_command`, relay, abort | plugins (fork, socket pairs) |
| `plugin_command`, `dispatch_request` (1927-2415, 2483-2709) | `%plugin_children`, `%dispatched_children`, the SIGCHLD handler that was | one child per plugin, one per destination; failover to another service node | service nodes, plugins |
| DB access process (`perl-xCAT/xCAT/Table.pm`) | handles, open tables, node caches | one request at a time over a UNIX socket; clone a broken handle | every other process |
| command log writer (1386-1540), monitoring (`monitorctrl.pm`), `NotifHandler.pm` | log file, plug-ins, registrations | append, start and stop, notify | main process |

Around the daemon: `NodeRange.pm` expands node ranges; `plugins/destiny.pm`
moves a node along its chain of states; some hundred plugins drive hardware,
DHCP, DNS and images; `Client.pm` and its commands, the REST API and the web UI
send requests. Every part is listed in `PROJECT.json` with its status.

### Pages of the web interface

A page posts a command with `$.ajax` to `lib/cmd.php` (or another `.php`), which
runs it at xcatd and returns what it printed. Nearly all requests have a success
callback only. JavaScript runs one callback to its end before the next; between
two callbacks everything may have changed.

| page | state it keeps | operations | shared with |
|---|---|---|---|
| new z/VM machine (`custom/zvmUtils.js`, `createZProvisionNew`, `updateZProvisionNewStatus`) | the form, its loader, the directory entry, handlers of `ajaxStop`, two cookies with the disks to add | freeze the form; `nodeadd`, `mkvm`, `makehosts`, `makedns`, one `chvm` per disk, `noderes`, `makedhcp`, `nodeset`, `rnetboot`; look up a control point | the cookies: other windows |
| existing z/VM machines (`createZProvisionExisting`) | the table of a group's nodes and their boxes | list, check, `nodeadd`, `nodeset`, `rnetboot` | |
| ranges of nodes: clone, add (`custom/zvm.js`) | the range, the loader | a `nodeadd` per node, `makehosts`, `makedns`, `mkvm` | |
| a z/VM machine (`updateZNodeStatus` and its callers) | a cookie with the number of processes, the loader | the `chvm` operations, add an adapter in two commands | the cookie: other windows, pages that were left |
| z/VM resources and their dialogs | three tables; a modal dialog with its requests | ask every control point, refresh; twelve operations and a confirmation | |
| nodes (`nodes/nodes.js`) | group, summary, table, globals `nodesList`, `origAttrs`, `nodeAttrs` | select a group, draw, page, status, power, monitoring | |
| tabs of the nodes page (`nodes/nodeset.js`, `rnetboot.js`, `updatenode.js`, ...) | tabs by number, the global `newTabId`, a cookie of images | open, close, run, delete | |
| provisioning of iDataPlex, BladeCenter, KVM, ESX | a table or a form, the status bar | chains of commands without an end at an error | |
| configure: images, groups, profiles, users | a table that is a copy, dialogs, `topPriority` | open, edit, delete, refresh | other sessions |
| discovery of System p (`configure/discover.js`, `custom/hmc.js`) | a wizard's step, what its pages were filled with (`discoverEnv`), buttons | go on, back, cancel; write files, `xcatsetup`, a chain of `lsslp`, DHCP and connections, LPARs | files on the server |

The rest (images, monitoring, discovery of iDataPlex, the self-service portal, the
editor of tables) is listed in `PROJECT.json` as not modelled.

### What is hard, and what makes each part correct

* **Signals against straight-line code.** Perl runs a SIGCHLD handler between
  any two statements. A handler that exits just before the select of its parent
  interrupts nothing (357-360); a worker may be reaped before it is entered
  (1753-1755); the monitor may be dead before `fork` returns
  (`RespawnUtils.pm:63`). *Correct:* no process is forgotten or counted twice,
  and no wait depends on a signal that came too early.
* **Order per node with a process per connection.** *Correct:* the connections
  of one node are answered one at a time in the order of arrival, also when a
  handler dies or pids are reused; nobody waits for a stranger.
* **Limits.** 64 handlers, 64 clients, 50 slots for nodes. *Correct:* never
  exceeded, and nobody starves at the limit.
* **Restart pacing.** *Correct:* one monitor at a time, no fork storm, never
  given up.
* **Shutdown.** USR2, TERM, drains and a final `wait`. *Correct:* what was told
  to stop ends, nothing is cut off early, no orphan keeps a port.
* **Code meant for a child that runs in the parent** (a fork that failed).
* **Parallel requests that are counted or summed up by one of them** (disks in
  a cookie, `custom/zvmUtils.js:660-690`; the end of a range, 989-991, where the
  code does not see to it).
  *Correct:* what follows starts once, and after all of them; one that failed
  stops it.
* **State read again from the page after an answer** (`nodes/nodeset.js:211`).
  *Correct:* every step of a chain goes to the nodes of its first.
* **Answers that come late** for a group, dialog, control point or table that
  is no longer the one shown. *Correct:* they are not taken for the current one's.
* **Copies of what the server holds** (tables, `topPriority`). *Correct:* an
  edit or a new entry changes nothing else.
* **Takeover of ports by a new incarnation, failover of dispatched requests,
  retries of the install protocol, database handles that break.** Not modelled
  yet; see the plan.

`PROJECT.json` lists each hazard at its line with the properties aimed at it.

## 2. Plan

| step | modules | question | state |
|---|---|---|---|
| 1 | `NodeService`, `InstallMonitor` | order, limits, wake-ups, drain | done, safety and the refinement proved |
| 2 | `Respawn` | one monitor, paced, never given up, shutdown | done, safety and the pacing proved |
| 3 | `SSLListener` | counting, throttling, traffic control, final wait | done, safety proved |
| 3a | `ZvmProvision`, `ZvmDirectoryEntry`, `ZvmHcpLookup`, `ZvmClone`, `ZvmReprovision` | are chains of parallel commands sound | done, safety of the first three and the targets of the last proved, `ZvmClone` checked |
| 3b | `ZvmNodeActions`, `ZvmResources`, `ZvmDialogs`, `NodesPage`, `NodeTabs` | do pages show the truth under late answers | done, safety proved |
| 3c | `ProvisionChains`, `Catalogs`, `UserPolicies`, `DiscoverWizard`; `MCWebUI` composes 3a to 3c | chains without error ends, edits from copies, a wizard walked to and fro | done, safety proved |
| 3d | the self-service portal, images, discovery of iDataPlex | the same | to do |
| 4 | refinement proof `InstallMonitor => NodeService` | order for every instance | done |
| 5 | `Takeover`: two incarnations, pid files, USR2, ports; handlers orphaned by a crash; the UDP process' side of a shutdown; composes 2 and 3 | does a takeover always end with one owner per port; does a shutdown end | to do |
| 6 | `Dispatch`: children, relayed answers, failover | each destination answered once or reported | to do |
| 7 | `PluginCommand`: plugin children, relay, abort, nested SIGCHLD handlers | every answer reaches the client before `serverdone` | to do |
| 8 | `DBWorker`, table cache, `Notif` | no stale handle, no stale cache | to do |
| 9 | `Destiny` with `InstallProtocol` | chain advance under retries | to do |
| 10 | discovery, command log, node ranges | | to do |

Steps 1 to 3c use no recursive operator, so all that follows can be proved about
them. Step 5 is to take over what `MCRespawnStop` shows.

## 3. The modules

### NodeService

The abstract service: per node a sequence of pending connections and the one
being answered; `Accept`, `Begin` (only the head, only if none is served),
`Finish`, `Close`. `InstallMonitor` refines it (`PerNodeOrder`, a theorem).

### InstallMonitor

| variable | code |
|---|---|
| `pc` | where the parent is: top of the loop (508), before the select (`poll`, 420-428), in it (`wait`), with a connection in hand at the limit test (`cap`, 609), serving in line (`inline`, `command`, `xexit`), in the drain (788-792), gone |
| `queue`, `kids`, `busy` | `%installm_queue`, `%installm_kids`, `%installm_busy` |
| `cur` | `$conn` |
| `sigchld`, `oldchld` | `$SIG{CHLD}` and `plugin_command`'s `$old_sig_chld` |
| `backlog` | completed connections in the kernel |
| `stage`, `serves`, `stray` | the kernel's processes: pids live, zombie or free; the connection a handler has; a child that is no handler, such as the `nodeset` forked in line (727) |

A step is what the parent does between two points where another process can
change what it reads. `Loop` is reap and dequeue; `StartWait`, `WaitExpires` are
`wait_for_installm_connection`; `Accept` is accept, resolve, and close, queue
or take; `WaitForHandler` the blocking reap; `Fork`/`ForkFails` both outcomes
of `xfork`. A failed fork leads to serving in line: `Command`, `Dispatch`,
`CommandReturns`, `CommandDies`, `CommandExits`, `ChildForkFails`, `XExit`,
`InlineForksNodeset`, `PluginReaper` say what the code of `plugin_command` and
`dispatch_request` does to the monitor's signal handlers and children.
`StandDown`, `StopServing`, `Drain`, `DrainEnds`, `DrainExpires` are USR2 and
the end. Abstracted: the text protocol (a handler lives and exits), the
resolution of a peer (a connection has a node, or is closed), time (the 1
second bound and the 20 second bound may expire at any moment in their state).

### Respawn

`phase` is where the main process is, from the first fork (1373) over
`monitorctrl::start` (`deaf`, SIGCHLD undefined) and the service loop to the
final wait. `pace` is the hash of `RespawnUtils`, with a relative clock:
`wait` is `next_at - time()`, `age` is `time() - started_at` as far as
`healthy` can tell. `Tick` passes a second where the process blocks or
starts. `mon` has the kernel's view of each pid and how far the monitor in it
is (`new` without handlers of its own, `binding`, `serving`, `stopping`);
`told` has those whose own `$quit` is set, by USR2 or by inheritance; `held`
says that another program has the port. `supervise` is `Fork` or `ForkFails`,
then `Assign`, with SIGCHLD masked between. `Reap` is both reapers with
`reap_install_monitor`. Clients, the throttle and the UDP process are
`SSLListener`'s; here they are `SelectReady`, after which the loop goes on
(`Answer`) or dies since the client's worker cannot be forked (`ServiceDies`,
1758-1761), and `OtherChildExits`.

`MCRespawn` adds history variables (failures in a row, seconds since the last
death, of those the ones slept in service, seconds since the fork) computed
from the steps alone, so that `Paced` and `Prompt` do not restate the backoff:
`Owed` is the power of two of the failures in a row (`Twice`), up to the ceiling.
The counters stop where they cannot tell more, the failures at `MaxFails`, where
doubling has reached the ceiling (`MaxFailsOK`).

### SSLListener

The service loop with each statement that a SIGCHLD can fall between a step
(`Fork`, `Record`, `Count`; `Listen`, `AcceptAll`/`AcceptOne`), `ssl_reaper`
enabled at each of them, the broker (`GetClientCount`, `SetFudgeFactor`), the
UDP process' `grant_tcrequests` (`Ask`, `Grant`), TERM, and the final wait.
Clients have no identity: what waits is a number, a worker is a pid.

### The pages of the web interface

The modules share conventions. `calls` is the set of requests in flight, and an
action named for a command with `Answered` (or for the function it stands for)
is its callback: it takes any element of `calls`, so answers come in any order.
`Ajax` says what a page can tell of an answer (`Answers`: empty, text, or text
with an error) and the two tests the code uses; a step has the test its code
has. `Lose` is a request whose exchange fails, so that no callback is called,
and sets `lost`. Texts, layout, checks of what was typed, and answers that are
only displayed are left out. History variables are marked as such in each
module by what they are for: properties name them as the only excuses.

| module | code | what its state and actions are |
|---|---|---|
| `ZvmProvision` | `updateZProvisionNewStatus`, the click in `createZProvisionNew` | the rows of the two disk tables, which can change after the click; `NodeaddAnswered` ... `RnetbootAnswered` are the ten steps; `AddDisksAnswered` posts one `chvm` per row and sets the two cookies, `RowAnswered` counts one off; `OtherWindow` writes the cookies |
| `ZvmDirectoryEntry` | `updateUserEntry`, `getNetworkDetails`, the click | for whom the entry in the textarea is; `AjaxStop` is what the registered handlers do when nothing is in flight |
| `ZvmHcpLookup` | `createZProvisionNew` from 5800 on, `checkProvisionCallsDone`, the cookies of pools | `lookups` with what each still waits for; the visible field `hcpNode` and the hidden `hcp` |
| `ZvmClone` | `loadClonePage`, `addNode`, `updateZCloneStatus` | nodes of a range as numbers; the answer for `last` stands for all, whatever is still to come |
| `ZvmReprovision` | `createZProvisionExisting`, `createNodesDatatable`, `getNodesChecked` | three commands, each for the boxes that are checked on the page that is `drawn` when it is posted; `TurnPage` also between them |
| `ZvmNodeActions` | `updateZNodeStatus`, the operations that call it, `loadInventory`, the tabs of a node | the cookie, which every load of the inventory clears, against the requests of this window and of others |
| `ZvmResources` | `getZResources`, `getDiskPool` ... `loadDiskPoolTable` and their likes | requests and rows per refresh (`gen`); the answers so far (`listed`) |
| `ZvmDialogs` | the `open...Dialog` functions, `updateResourceDialog` | the open dialog by its id, under which an answer finds it; an action per operation |
| `NodesPage` | `nodes/nodes.js` | group, summary, table, globals, columns with a loader |
| `NodeTabs` | `nodeset.js`, `rnetboot.js`, `updatenode.js`, the script, unlock and delete tabs | tabs by number, with what a late answer finds under it |
| `ProvisionChains` | `ipmi.js`, `blade.js`, `kvm.js`, `esx.js`, `getNodesChecked`, the encoding in `lib/cmd.php` | a chain with what its first step found: the rows drawn and those checked; `encoded` says that the server encodes the messages it returns, and then no chain goes on (`Unrecognised`) |
| `Catalogs` | `configure/service.js`, profiles in `zvmUtils.js` | the server's entries, the table that is a copy of them cut at commas (`Columns`), dialogs with what was typed |
| `UserPolicies` | `configure/users.js` | rules by priority on the server and in the table, `topPriority` |
| `DiscoverWizard` | `configure/discover.js`, `custom/hmc.js` | `step`, the entries (`env`) and buttons of the page; `written` and `setup` are the files on the server and what `xcatsetup` read of them; a `check...` action is a click on "Next" or "Back" with what it saves, `Enter` the page that comes; `FramesUpdated`, `CecsUpdated` the chain of nine commands |

In `Catalogs` and `UserPolicies` the server's reading and writing are steps of
their own between request and answer, since requests of one page overtake each
other there. Elsewhere what the server holds decides nothing the page does.

`MCWebUI` composes the fourteen. They are documents of their own: a browser
window shows one, and the others reach it through cookies and the server only,
which each module models where it reads them (`OtherWindow`, `Reload`, `Init`).
So a behaviour of `MCWebUI` is one page in use, and the state of the others is
`Unused`. Variables of one name are one variable, as the pages' `calls` or
`loader`; `Idle` and `Rest` say which page has which. What two windows do to
one another is in the pages; two windows that both run a chain in full are not
composed.

## 4. Runs

| run | instance | what it shows |
|---|---|---|
| `MCInstallMonitor` | 2 nodes, 4 connections (3 of one node), 2 pids, limit 2, forks may fail | `EveryHandlerKnown`, `NoneLeftBehind`, `DrainWaits`, `PerNodeOrder` (refinement of `NodeService`) |
| `MCInstallMonitorLive` | the same, limit 1, `FairSpec` | `HandlerLimit`, `NobodyStarves`, `StandDownEnds` |
| `MCInstallMonitorReaped` | the first instance | violated: `MonitorAccounts` (finding 1) |
| `MCRespawn` | 2 pids, minimum 0 (raised to 1), maximum 4, healthy 2, hops 1 and 3, `MCBusySpec` | `MonitorTracked`, `NoOrphan`, `Prompt`, `Paced`, `ComesBack`, `ToldEnds` |
| `MCRespawnIdle` | the same, `FairSpec` | violated: `ComesBack` without other children (finding 2) |
| `MCRespawnStop` | the same | violated: `StopEnds` (finding 3) |
| `MCSSLListener` | 3 pids, limit 1, 2 slots, backlog 1, 2 pending, 2 requests, `FairSpec` | `NeverUndercounted`, `WorkerLimit`, `WaitCovers`, `ForecastBounded`, `ClientServed`, `UdpAnswered` |
| `MCSSLListenerQueue` | 3 pids, limit 1, 1 slot | violated: `QueuesOnlyWhenFull` (finding 4) |
| `MCWebUI` | every page, see below | the seventeen properties of the table below |
| `MCZvmEntryTiming` | 2 user IDs | violated: `EntryForUser` (finding 5) |
| `MCNodeTabsDelete` | 2 targets, 2 tabs, 4 acts | violated: `DeleteAsChecked` (finding 6) |
| `MCUserPolicies` | 2 users, 2 priorities, 3 acts | violated: `HighestPriority` (finding 7) |

| property of `MCWebUI` | page | what could break it |
|---|---|---|
| `OsAfterDisks`, `BootOnlyIfAllSucceeded`, `QuietWhenHidden` | new machine | disks counted off in any order, rows added while the chain runs, failures among several |
| `AdvancedEntryForUser` | its directory entry | handlers of `ajaxStop`, a default entry that comes late |
| `HcpAsEntered` | its control point | two lookups, cookies that save one half of the requests |
| `SameTargets` | existing nodes, tabs, other hardware | boxes, pages, tables, tabs or forms that change between two steps |
| `LoaderWhileBusy`, `LoaderHidden`, `CookieCounts` | a machine | the cookie of all windows |
| `TableExact` | resources | answers of many control points and of a refresh in one table |
| `OwnAnswers` | dialogs | an answer or a remainder of a dialog that was closed |
| `ShowsSelected` | nodes | another group selected with answers in flight |
| `EditKeepsRest` | images, groups, profiles | a late answer over what was typed, a table that is old |
| `OwnRule` | users | edits, refreshes and creations in any order |
| `UpdateAsEntered` | discovery wizard | pages gone back to, changed and passed again; files written too late or not again |
| `WaitingEnds` | all that show a loader | an answer that takes the wrong branch; a count that never reaches zero |

Each run also checks its module's `TypeOK` once, where it is a passing one
under the safety specification.

**Why the bounds suffice.** Three connections of one node are the fewest that
can be taken up in the wrong order, a fourth lets another node interfere. Two
pids make every fork after a reap reuse a pid, which is what the tables must
survive, and the limit of 1 or 2 is reached all the time. Closed connections
may come again, so behaviours have no bound on their length. In `Respawn` the
doubling 1, 2, 4 reaches its ceiling and stays there, `healthy` lies between
the delays, and the two hops differ. In `SSLListener` three pids are one more
than the `MaxClients + 1` workers that may run, so exceeding the limit is
possible for a wrong count. Symmetry is not used, because of the liveness
properties.

In `MCWebUI`: two disks and one zFCP device are the least with which one table is
done before the other and one row of several fails; two control points and two
lookups let an answer overtake another; a range of three has a first, an inner and a
last node, and starts at any number; two calls in flight and a count of up to four
processes let both windows and a page that was left share a cookie, which one of
them clears; a table of two rows has two pages of one; one refresh, two dialogs,
three clicks on groups (the third node makes them overlap without being equal, one
row per page asks for definitions twice) and two chains are the fewest in which
something of an earlier round is in flight; two tabs and four acts open two, close
one and reuse its number; two edits and three acts on rules allow an edit before a
creation, and the priorities 1.00 and 9.98 reach the end of the digits that
`toPrecision(3)` keeps. In the wizard two changes of direction go back, change an
entry and come on again, or cancel and start anew; one act off the plan is such an
entry, a cancel, a loss, or a click while a file is still to be written; the two
values tell a file of now from one of before. Counts of user acts bound behaviours
whose steps only repeat. Pages that start with state of an earlier session (cookies,
rules, tables that are old) start with any of it.

**Deadlock** is not checked: every system here really stops (`gone`, `died`; a
page whose bounded user has nothing left to do).

**Fairness.** Only of steps the scheduler or the kernel owes: a process that can run
does; a handler or worker ends, since its reads are under `alarm(2)`, its handshake
under `alarm(10)`, and plugins terminate; `InlineEnds`, `Fork` in `Respawn`, the
steps of its start and loop, and `Tick` are strongly fair since a node cannot keep
the monitor on one connection for ever, fork is not refused for ever, and signals do
not arrive before every single statement. `Listen` is strongly fair because the UDP
process pauses in its own 5 second select between two questions. No client, node or
operator is fair: connections, TERM and USR2 may never come. `MCBusySpec` adds that
other children of the daemon exit now and then, which holds in a daemon with
clients; `MCRespawnIdle` shows that `ComesBack` needs it.

`MCWebUI` is fair only to answers: a request that is not lost is answered, as
one disjunction, so no particular order is promised. Users, losses and other
windows are not fair.

Exceptions written into properties, each a state the code really gets into:
`NobodyStarves` excludes a monitor that lost track of a handler (finding 1),
`ClientServed` one whose count has leaked (finding 4) or that ends, `ToldEnds` waits
only for monitors that were told (finding 3), `NoOrphan` excepts the service loop
that dies (section 5), and `NoneLeftBehind` lets a node wait for an entry of
`%installm_busy` whose handler a plugin collected (`Stale`, finding 1). On the pages
they are history variables: `shared` (another window wrote the cookies), `lost` and
`failed` requests, `reopened` (a tab of a node was opened or closed while processes
of it ran: its cookie was cleared over them), `replaced`, `reused`, `crossed`,
`early` (something was drawn, closed or selected while the old one's requests were
in flight), `upset` (a lookup was overtaken; a callback raised an exception),
`lowered` (finding 7), `hasty` (a dialog was closed before its answer came; a file
of the wizard was wanted, or to be written again, before it was written: no page
waits for either), `intruded` (an answer for a page that was left put buttons under
a command that runs), `encoded` (the server encodes messages, and chains stop) and
the wizard's `stuck` page (an empty answer of `lsslp`). In these states the pages
really do what the property excludes; each is read as a limit of the code, stated at
the property, not as a promise it makes.

Two exceptions are in what a property compares. `SameTargets` compares two steps
on the rows that were drawn for both: a box on another page is not read, so that a
node can be booted that was not given the image, and a node that was given it be
left out. `EditKeepsRest` lets a column with a comma be sent cut. That
`/etc/hosts` is made when all nodes of a range are defined is no property at all:
the code takes the answer for the last name for the last answer
(`custom/zvmUtils.js:989-991`), parallel requests overtake each other, and if they
did not, the property would restate the test of the name.

Every property of a passing run has a mutant: a plausible wrong form of one
definition (in the modules next to the right one, with a comment "the bug of
..." or "A fault: ...") under which TLC finds that property violated.

## 5. Findings

1. **Foreign reapers in the monitor** (`MonitorAccounts`). After a failed fork
   the monitor runs `plugin_command` itself, whose SIGCHLD handlers collect the
   monitor's handlers without its tables; the comment at 441 says nothing else
   accounts for them. `EveryHandlerKnown`, the limit and the order survive it:
   stale entries err on the side of waiting.
2. **SIGCHLD undefined at startup** (`ComesBack`). A monitor that dies between
   `monitorctrl::start` (`monitorctrl.pm:86`) and the service loop (1646) is
   not noticed until another child exits.
3. **TERM while the monitor is being forked or binds** (`StopEnds`). The USR2
   is not sent or ignored, and the daemon waits for that monitor for ever.
4. **A worker reaped before it is entered** (`QueuesOnlyWhenFull`). Its count
   stays; clients queue below `xcatmaxconnections`, after 65 such cases for
   ever.

5. **A directory entry generated too late** (`EntryForUser`). On the basic tab
   the entry is generated at the click, but for a VSWITCH whose details are
   missing only after the next quiet moment; `mkvm` may have sent the old one.
6. **One global for all delete tabs** (`DeleteAsChecked`). The button of a tab
   reads the box of the tab opened last, and removes virtual machines although
   its own box says that only the database is touched.
7. **The highest priority is the last one** (`HighestPriority`). After an edit
   a new rule is offered a priority that may be taken, and `web_policy` then
   changes that rule.

Seen while modelling and not shown by a run: the first monitor's quick death is
taken for a failed fork and ends the daemon (1381-1384);
`XCATD_MON_RESPAWN_HEALTHY=0` passes `_tunable`, and then every death counts as a
service, a fork that failed too (`RespawnUtils.pm:138-142`: "could not fork: count
it and back off"), so the delay never doubles; a minimum of 0 is raised since it
"doubles to 0, which is a fork storm", a time to serve of 0 is not. `Paced` fails
for it, and `Pacing` names it as its one condition; the comparison `>` in 1727 lets
one client more than the limit in (`WorkerLimit` states it); at shutdown the UDP
process may wait for an answer of the main process while that one waits for it (816,
1878); a listener failure with `$pid_MON` 0 sends INT to the process group (1618); a
service loop that cannot fork the worker of a client dies (1758-1761) without a word
to the monitor, which stays on `xcatiport`: that is the one exception in `NoOrphan`,
and `ServiceDies` reaches it. On the pages: an image "needs disks" of which the rows
of two headers already count as two (`ZvmProvision`, `TableRows`); a clone goes on
after an error of the last step although the comment says "If there was an error, do
not continue" (`custom/zvmUtils.js:1053`, `NamesKnown`); the condition of the third
step in `custom/blade.js` repeats that of the second (`cmd == 'nodeadd'`, 824 and
856), so the boot order and the preparation are posted together and the boot does
not wait for the boot order; two dialogs of different operations have the same id
(`ZvmDialogs`, `DialogId`); after the names of the frames were changed, "Discover
frames" still lists the maps of the old ones (`custom/hmc.js:1089-1098`), and "Next"
writes them; a second "Parse" that is answered late puts buttons under a page that
runs `xcatsetup` (1206). `lib/cmd.php` encodes `;` and `=` of the message it returns
(160; `htmlentities` with `ENT_HTML5` does from PHP 5.4 on), and the chains of
`ipmi.js`, `blade.js`, `kvm.js` and `esx.js` use it undecoded, so that none goes
beyond its first step there (`Unrecognised`); at this commit
`provision/provision.js:87-92` disables the radio buttons that lead to them.
`esx.js:451` makes its status bar in the tab of KVM and 655-656 look for a tab of an
id that does not exist, so its later steps find no node. The site table is searched
for quotes that `cmd.php` has encoded, so the wizard's page shows empty fields
(`TabdumpAnswered`). `custom/zvm.js:1001-1002` clears the cookie of a node's
processes, written by other windows too; `nodes/nodes.js:1956-1957` resets a cookie
of another name, `...Processes` with a capital, which nothing reads. An answer of
`lsdef` that is an error raises in `loadNodes` after the tab was emptied, and in
`addNodes2Table` before the dialog is closed (`nodes/nodes.js:546`, 1525). A
description with a comma is cut, and makes a group unselectable, when the group is
edited (`configure/service.js:211-219`, 786-790; `users.js:97` joins what is in
quotes).

## 6. Proofs

All are safety, for every value of the constants that satisfies the module's
`ConstantsOK`.

**`InstallMonitorProofs`.** `EveryHandlerKnown` is not inductive alone: `Fork`
overwrites `busy[n]`, which is harmless only if the node in hand has no handler. So
the invariant is `TypeOK`, `InHandFree` (the node of the connection in hand is not
busy, as long as one is in hand), `EveryHandlerKnown`, `QueuedBusy` (the node of a
queued connection is busy when the monitor waits) and `NoneStale` (unless a fork may
fail, an entry of `%installm_busy` names a handler that is not collected), from the
last two of which `NoneLeftBehind` follows; the lemmas on reaping say that a live
handler keeps its entries (`ReapKnown`) and what `Dequeueable` finds stays true
after the reap (`ReapFrees`). `TypeCorrect` is proved separately with the lemmas on
queues. `HandlersLimited` needs in addition that the table never exceeds the limit
(`TrackLimit`), a cardinality argument, and that handlers are in the table.
`DrainComplete` is an action property that follows from the invariant.

`OrderKept` is the refinement. What a node is being served (`Serving`) is chosen
among its handlers; the invariant makes the choice unique, and `ServingIs` says
what it is: the connection in hand if it is served in line, else that of the one
handler, which is `busy`'s. `ServingKept` and `QuietStep` are for the many steps
that leave all of this alone and map to a stutter; each of the others has a lemma
that names the abstract step: `AcceptStep`, `CloseStep`, `ForkStep` and
`ForkFailsStep` (`Begin`, of the head since the connection in hand is the oldest of
its node), `DequeueStep` (nothing: the head stays pending until its handler is
there), `FinishStep`, `InlineOver` and `HandlerExitStep` (`Finish`).

**`RespawnProofs`.** `Backoff` is a theorem about the operators of
`RespawnUtils` alone. The invariant for `Tracked` and `Orphanless` is `TypeOK`,
`MonitorTracked` and `NoOrphan`, which excepts a service loop that dies of a failed
fork (`ServiceDies`); `MonitorMoves` says once what every step that changes only the
state of the one monitor preserves.

`Pacing` and `Promptness` relate the pacing, kept by doubling and a relative clock,
to the history of `MCRespawn`. `PaceInv` says that until the daemon ends the delay
is the power of two for the failures so far (`DelayTold`), both clocks agree on how
long a monitor lived (`AgeTold`), what was waited and is still to wait makes up what
is owed (`WaitTold`: no less in seconds since the death, no more in those the loop
slept), and the select the loop is in ends within the bound (`IdleTold`). That an
attempt is made only when the wait is over then gives `AttemptOwed`. What `Twice` is
(`TwiceIs`), and that it grows, needs induction: `Induction` states it for a set of
numbers in place of a predicate, and follows from the well-foundedness of `<` on the
naturals. `Pacing` has the condition `Healthy # 0`: with 0 no death and no failed
fork counts as one (section 5). `Promptness` has none.

**`SSLListenerProofs`.** `TypeCorrect` carries `HandsFull` (a client is in
hand when one is taken; the child is a pid once forked), without which
`pendingconnections - 1` leaves its range. `Counts` compares cardinalities over
the steps that change the set of running workers; `Limits` adds that a fork
happens at most at the limit; `Waits` needs `Entered`: every running worker is
in `%immediatechildren`, except the one just forked. `Forecasts` needs that
the count the UDP process was told is not negative, which `Counts` gives.

**`ZvmProvisionProofs`.** While no other window writes the cookies, the chain is
in one of three parts (`BeforeRows`, `WithRows`, `AfterRows`). In the second,
each cookie is at least the number of its rows that are not attached
(`Counted`, a cardinality argument: `RowsCounted`, `OneLessLeft`, `NoneLeft`),
so both at zero means all are attached (`AllAttached`). It is needed that a
failed or lost row stays counted (`Stuck`): that is why nothing after it
starts. The three action properties follow from who can post `noderes`,
`rnetboot`, or anything (`WhoSetsOs`, `WhoBoots`, `StepKinds`).

**`ZvmDirectoryEntryProofs`.** From the click on the advanced tab to `mkvm` the
entry is the registered user's; the handlers of `ajaxStop` cannot write in
between because `nodeadd` itself is in flight (`InFlight`, `StopQuiet`).

**`ZvmHcpLookupProofs`.** The two requests of a lookup that lead to the hidden
field follow each other (`Single`); if none failed or was overtaken, either the
last lookup still has one or the field has its name (`Settled`).

**`ZvmNodeActionsProofs`.** `CookieCounts` and `LoaderWhileBusy` are inductive
together with types; `LoaderHidden` needs `NotTooMany`: as long as nothing went
uncounted, the cookie does not exceed what is in flight, cleared or not.

Each of the four also proves the types of its page (`InitTypes`, `StepTypes`); those
of the lookups and of the actions are inductive with the invariant only. The
modules assume nothing of their constants; the lemmas on types alone need that
the bounds in the guards are numbers.

**`WebUIProofs`.** The theorems about the pages are theorems of the
specification that the run `MCWebUI` checks. The lemmas `NewPage` to
`WizardPage` say that the page in use stays and that its variables move by steps
of its own module; so what one of the four modules above proves of its page
holds of the whole (`MCWebUI` instantiates those modules, and with them the ones
they extend). Of the other pages it proves:

- the chains (`TargetsKept`): what the first command of a chain was posted for
  is what is still checked, among the rows that it could read (`OnClick`, `Began`:
  their boxes are the ones disabled), or still held by its tab, as long as a request
  of the chain is in flight (`ExistingIInv`, `ChainsIInv`, `TabsIInv` with `Held`);
- the dialogs (`AnswersOwn`): while no dialog was closed before its answer came, what
  is in flight was asked by the dialog that is open, and what is shown was shown
  under its id, since closing removes a dialog (`DialogsIInv`);
- the users (`RuleOfItsOwn`): as long as the highest priority was not lowered,
  no priority in use is above it, the one an open "Create" dialog offers is just
  above it, and the request for a new user is the only trace of its priority
  (`InUse`, `Offered`, `NewAlone`). That a table has a highest priority is the
  lemma `Greatest`, from the well-foundedness of strict inclusion on finite sets.

- the nodes page (`GroupShown`): if nothing was awaited for the group before,
  what is in flight for a tab is for the group selected, and what the tabs show
  and the nodes asked about are its own (`SelectedIInv`);
- the resources (`ListedOnce`): of the refresh of now each resource that a control
  point named is in the table, or its details are asked for, or the names are, and
  only one of these (`NamedOnce`, `ListedOrAsked`); nothing in flight is of an
  earlier refresh (`CallsOfNow`), and nothing is listed for a later one
  (`NoneLater`), as long as no refresh came early;
- the catalogs (`EditsKeep`): if the table was renewed with nothing in flight and the
  server did not change since (`Current`), then what it answers (`AnswersNow`), what
  the table shows (`CellsNow`) and what an open dialog was filled with, except
  what was typed, (`DialogNow`) are the server's entries, or these cut at a comma;
- the wizard (`SetUpAsEntered`): of a page that was passed, the entries are on the
  server or in the one request for that file (`OneWriter`, `EarlySaved`); while a
  command is waited for there is one, on its page and without buttons
  (`OneCommand`), so that from `xcatsetup` on the set-up is what the pages hold
  (`SetUp`). `EnterInv` is about every click that leaves a page, `StayInv` about
  what neither writes nor starts such a command.

`Types` is the type correctness of all fourteen pages. A handler writes what an
answer brings, and an answer is for the request as it was posted, so the types hold
only together with something about what is in flight, or about the page, that no
type says:

- an open dialog of the resources has a number, which its request carries
  (`DialogTypes`);
- a table of nodes that is drawn is that of a group, and the definitions are asked
  for of at least one node (`NodesTypes`), since the first page is one of the pages
  (`FirstPageIs`, by the lemma `Greatest`);
- the requests that define the nodes of a tab and make `/etc/hosts` name a range
  (`TabRequest`), although others may have none; what a tab holds is in `TabsIInv`;
- a copy of the table in a dialog of images, and the answer on its way to it, is as
  old as some write (`CatalogAges`); what it holds is in `CatalogsIInv`;
- the rules on their way to the panel of users are of the type of a rule
  (`UsersTypes`), and the next priority does not exceed `Limit` (`PriorityIn`);
- the wizard counts an LPAR as made when any `mkvm` is answered. That it never counts
  more than there are drawers is a matter of cardinality: what is counted and
  what is in flight are together at most the drawers (`DrawersLeft`).

It uses the assumptions of `MCWebUI` on its constants: `BoundsOK`, that the bounds
are positive numbers (a page has a line, a wizard a drawer); `NoTabOK`, that `NoTab`
is not a tab; `PrioritiesOK`, that priorities start below 10.00; `PlannedOK`, that
what is planned can be entered; and `NoValuesOK`, that what stands for no value, no
tab content or the loader is no group.

**Model-checked only.** Liveness (`NobodyStarves`, `StandDownEnds`,
`ComesBack`, `ToldEnds`, `ClientServed`, `UdpAnswered`, `WaitingEnds`): temporal
reasoning with fairness and ENABLED is outside what the prover supports. Induction
over data can be stated for sets of numbers only, as above, since no installed
prover takes the library's induction theorems with their operator parameter.

## 7. What is not modelled

The rest of the inventory, with the reason in `PROJECT.json`: steps 3d and 4
to 10 of the plan are to come; hardware protocols, image building, the boot
and name services, the command-line front ends and the REST API are I/O,
formatting or clients of services outside the repository.

Within the daemon's modelled parts the pid files and takeover by another
incarnation (463-497, 1586-1611), the rescan of plugins (520-531, 1737-1745),
and the loss of the UDP channel (`$udpalive`) are left out.

Of the web interface: the text of a directory entry and of inventories; the checks
of what is typed, except those that decide whether a chain starts; the graph of the
physical layout; edits of single attributes in the table of nodes and in its dialog;
tabs with one request and no state (rscan, rpower, console, statistics); upload of
images and custom packages; the dialogs that add nodes of other hardware; discovery
of iDataPlex; in the wizard of System p the checks of what is typed beyond its
presence, and the addresses to search on; monitoring; the editor of tables; the
self-service portal, which repeats the z/VM pages for users without administration
rights. PHP files under `lib/` are modelled from what the pages do with their
answers, except `web_policy` and `web_deleteuser`, whose effect on the rules
`UserPolicies` needs.
