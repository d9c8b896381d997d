# trezord: models, checks and proofs

TLA+ models of trezord-go, the bridge between web pages and Trezor devices,
with the TLC runs that check them and the TLAPS proofs about them.  Paths such
as `core/core.go` are relative to the repository; `libusb/` stands for
`usb/lowlevel/libusb/c/`, the copy of libusb the bridge is built with.

    tlc -config Core_safety.cfg MCCore        # a run: configuration, module
    tlapm CoreProof.tla                       # the proofs of a module

## The system

| component | code | state it keeps | operations | modules |
|---|---|---|---|---|
| core sessions | `core/core.go` | `normalSessions`, `debugSessions`, `callsInProgress`, `lastInfos`, `latestSessionID`, four kinds of mutex | Enumerate, Acquire, Release, Call (call, read, post), backgroundListen, the watcher of a call | `Core`, `SessionOwner` |
| presented paths | `core/core.go`, saveUsbPaths | `usbPaths`, `biggestID` | renumber at each listing of the buses | `UsbPaths`, `PathTable` |
| listen | `core/core.go`, Listen | the entries of the client | polls Enumerate until they change | `Listen` |
| bus multiplexer | `usb/bus.go` | none | Enumerate all, Connect by prefix | in `Core`, `UdpBus` |
| libusb bus | `usb/libusb.go` | `attach` of a handle; claims and drivers in the kernel | Enumerate, Connect, identify, the releasing part of Close | `LibUSBBus` |
| libusb device handle | `usb/libusb.go`, the Trezor code in `libusb/sync.c` | `closed`, a mutex for each direction, the table of running transfers | Read, Write, Close with cancel and drain | `LibUSBDevice` |
| UDP emulator bus | `usb/udp.go` | for each port a socket, a goroutine, a ping and a data channel | Enumerate, checkPort, Read, Write, Close | `UdpBus` |
| HIDAPI bus | `usb/hidapi.go`, `usb/lowlevel/hidapi/hid.go` | `closed`, one mutex for each handle, the C device | Connect with detectPrepend, Read, Write, Close | `Hid` |
| wire format | `wire/v1.go` | none | WriteTo, ReadFrom | `Wire` |
| message encoding | `wire/protobuf.go` | none | Validate | `Protobuf` |
| memory log | `memorywriter/` | first lines, window of last lines | Write, export | `MemoryLog` |
| libusb events | `libusb/io.c`, `sync.c`, `events_posix.c` | events lock, waiters lock, event pipe and flags | handle events, wait, interrupt, close a handle | `LibusbEvents` |
| libusb transfers | `libusb/io.c`, `sync.c` | flying list by timeout, state and timeout flags | submit, cancel, time out, complete, disconnect, free | `LibusbTransfers` |
| libusb hotplug | `libusb/hotplug.c`, `core.c` | device list, reference counts, callbacks, messages | connect, disconnect, register, deregister, process, exit | `LibusbHotplug` |
| libusb descriptors | `libusb/descriptor.c`, `linux_usbfs.c` | the parsed tree, located configurations | parse, get active or by index, BOS, strings | `ConfigParser`, `LinuxConfigs`, `BosReader` |
| libusb on Linux | `libusb/os/linux_usbfs.c`, `linux_netlink.c` | contexts, objects of devices, claims, URBs | init, exit, monitor, poll; open to close; submit, cancel, reap | `LinuxMonitor`, `UsbfsClaims`, `UsbfsTransfers` |
| libusb on macOS | `libusb/os/darwin_usb.c` | cached devices, run loop, interfaces, frame lists | attach, detach, re-enumerate, probe; handles; transfers | `DarwinDevices`, `DarwinProbe`, `DarwinHandles`, `DarwinTransfers` |
| libusb on Windows | `libusb/os/windows_winusb.c`, `windows_common.c` | device objects, interface handles, completion port | list; claim and auto-claim; submit, cancel, complete | `WindowsDevices`, `WindowsClaims`, `WindowsTransfers` |
| HTTP API | `server/` | none of its own; one goroutine and context for each request | one handler for each operation of core | in `Core` |
| status page, CORS, start | `server/status`, `server/api/cors.go`, `trezord.go` | none | formatting, filtering, wiring | |

`net/http` runs each request in a goroutine of its own, so the operations of
core interleave freely.  Core calls the buses, the buses hand out device
handles, a session owns one handle.  A call spawns a watcher goroutine that
releases the session when the context of its request ends.  Below a handle is
libusb: sync.c turns a read or a write into a transfer and waits for it by
handling the events of all transfers, the backend gives the transfer to the
system and reports what comes back.

What makes it hard, and what makes each part correct:

* **Core sessions.**  Five actors (requests, background enumeration, watchers,
  clients that go away, devices that go away) share two session tables under
  mutexes that cover only part of the accesses: Acquire and Enumerate hold
  `libusbMutex`, Release and the watcher hold nothing.  Correct means: at most
  one session for each interface of a path; a session is ended exactly when
  it should be; no handle is lost; no listing of the buses during a call; no
  two calls on one session; nobody waits for ever.
* **Presented paths and listen.**  A client keeps a path over an unknown number
  of listings; the number must never come to mean another port.  A client that
  listens must learn of every lasting change, whatever happened between two polls.
* **Device handles.**  Close must end a transfer that has no timeout, from
  another goroutine, through a table kept beside libusb; over hidapi it must
  wait for a read of 50 ms and free the C device once.
* **The libusb bus.**  A connect takes the device from a kernel driver and a
  close gives it back, while a release may run beside the next acquire.
* **UDP, wire, log.**  Late pongs and bounded channels, packets of an earlier
  message, window arithmetic, a reader of the log that holds its mutex.
* **libusb, shared part.**  One waiting thread handles the events of all, so the
  role must pass on when it stops; flying_transfers_lock and the lock of a
  transfer nest; a transfer is cancelled, timed out and completed by three
  threads at once; callbacks free themselves while the list of callbacks is walked.
* **libusb, backends.**  The list of devices is built by one thread from
  messages that are late; reference counts span contexts; a reset makes a
  device leave and come back; a transfer is several requests of the system,
  each of which may end at any moment; claims are kept in the library and in
  the kernel, and automatic claims beside the program's own.

`PROJECT.json` lists the hazards one by one, each at its line, with the
properties that cover it.

## Modules

| module | models | checked by | proved in |
|---|---|---|---|
| `UsbPaths` | saveUsbPaths: the table and one operator for the renumbering | used by `PathTable`, `Core` | `MCBridgeProof` |
| `PathTable` | devices, ports and listings around `UsbPaths`; remembers what was shown | `bridge`, `paths_replug` | `MCBridgeProof` |
| `SessionOwner` | abstract: who owns which interface of which path text | refined by `Core` | |
| `Core` (`MCCore`) | core.go as concurrent processes | `core_*` | `CoreProof` |
| `LibUSBDevice` | one handle or several, their transfers, the table of sync.c | `libusb`, `libusb_cancel` | `LibUSBDeviceProof` |
| `Listen` | the polling loop over listings that change | `bridge`, `liveness` | `MCBridgeProof` |
| `LibUSBBus` | Connect and Close over claims, drivers and devices at equal ports | `bridge` | `LibUSBBusProof` |
| `UdpBus` | sockets, goroutines, channels, checks and timeouts | `liveness` | |
| `Hid` | handles over hidapi, detection, Close beside Read | `bridge`, `liveness` | `HidProof` |
| `Wire` | messages in packets, with reads given up | `bridge` | `MCBridgeProof` |
| `Protobuf` | Validate against what fields are | `bridge` | |
| `MemoryLog` | the log and its export | `bridge` | `MCBridgeProof` |
| `LibusbEvents` | who handles events, who sleeps, who is woken | `libusb_core`, `liveness` | `LibusbEventsProof` |
| `LibusbTransfers` | the life of a transfer | `libusb_core`, `liveness` | `MCLibusbProof` |
| `LibusbHotplug` | devices, callbacks and messages of a context | `libusb_core` | |
| `ConfigParser` | the parser of configurations, allocation by allocation | `backends` | |
| `BosReader` | descriptors read in two requests: BOS, strings | `backends`, `liveness` | |
| `LinuxConfigs` | configurations in the file of descriptors | `backends` | |
| `LinuxMonitor` | contexts, scan, monitor thread and poll | `libusb_core`, `backends`, `liveness` | `MCLibusbProof` |
| `UsbfsClaims` | handles of one device, system call by system call | `libusb_core` | `UsbfsClaimsProof` |
| `UsbfsTransfers` | a transfer as URBs | `backends`, `liveness` | |
| `DarwinDevices` | cached devices, run loop thread, resets | `backends`, `liveness` | |
| `DarwinProbe` | the probe of a new device | `backends`, `liveness` | |
| `DarwinHandles` | what handles hold of IOKit | `backends` | |
| `DarwinTransfers` | requests on pipes, aborts, frame lists | `backends`, `liveness` | |
| `WindowsDevices` | the passes of a listing over a registry that changes | `backends` | |
| `WindowsClaims` | files, WinUSB handles, automatic claims | `backends` | |
| `WindowsTransfers` | overlapped I/O, completion port, callbacks | `backends` | |

`MCBridge`, `MCLibusb`, `MCBackends` and `MCLiveness` are suites.  Each
INSTANCEs several modules, some of them more than once with other constants,
and checks them side by side: the variable `which` names the instance that runs,
the variables of the others are 0 and stay so, and a property is a conjunction
over the instances (`which = "hid" => HidDevice!NoUseAfterClose`, and so on).
A suite explores the disjoint union of the state spaces of its instances, never
their product, so nothing is lost or gained beside separate runs.  The
components that really act on each other are composed in one module: Core with
the paths and with its watchers, LibUSBBus with acquire and release, LibusbEvents
with the closing of handles, LibusbHotplug with the backend's thread,
UdpBus with all its askers.

A named assumption on the constants (`ClaimsAssumption`, say) is a definition in
the module, and each suite ASSUMEs it of every instance (`ConstantsAreAllowed`).
The theorems about a module take it as their hypothesis; those about a suite
(`MCBridgeProof`, `MCLibusbProof`) have `ConstantsAreAllowed` and the proofs of the modules.

A suite stops when its bounds are used up or its call has ended (a parser
returns, a plug counter is at its limit), hence CHECK_DEADLOCK FALSE there.  That
nobody waits for another for ever is `NobodyStuck` of `liveness`, not the absence of
deadlock.  The runs of Core and LibUSBDevice check deadlock.

### UsbPaths and PathTable

`usbPaths`, `biggestID` and `lastInfos` are the fields of Core.  `SaveUsbPaths(devs)`
is the whole function: new numbers for the listed ports that have none (any
order of the listing, so any bijection), then the ports that are not listed
lose theirs.  `PathTable` adds devices: a device is numbered at plug-in, so
the device that comes back at a port is another one, and `shown` records which
number each listing showed for which port and device.  A listing may miss
attached devices, because LibUSB.Enumerate skips a device whose descriptor it
cannot read (libusb.go:146-160) and an emulator may be late.

### Core

A process is a request slot (the goroutine of a handler), the background
goroutine or the watcher of the call in a slot.  `pc` says where it is, `arg`
holds its parameters and locals.  A step is what a process does between two
accesses to shared state:

| code | steps |
|---|---|
| backgroundListen | `BackgroundTick`, then those of Enumerate |
| Enumerate | `EnumLock`, `EnumCalls` (tests callsInProgress), `EnumBusOK` or `EnumBusError`, `Reap` for each disconnected session, `EnumReturn` |
| release | `RelLoad`, `RelDelete`, `RelClose`, `RelDrain` if it has to wait; `RelReturn` goes back to whoever called it |
| Acquire | `AcqCheck` (lock, findPrevSession by text, the two refusals), release of the previous session, `AcqPrepare` (reset or not, by text; USB path, by number), `AcqRetry` or `AcqConnect` |
| Call | `CallBegin`, `CallLoad`, `CallCAS` (not for post), `WriteLock`, `WriteDone`, `ReadRefused` or `ReadLock` and `ReadDone`, then the deferred functions `CallFinish`, `CallUnflag`, `CallEnd` |
| watcher | `WatchFinished` or `WatchClosed`, then those of release |

`sess` holds every session object ever made, because a call keeps the object
it loaded after the session has left the table; `table` is the two sync.Maps.
A session number stands for its id; the prefix `debug` is the table it is in.
`table[debug]` is read in one step where the code ranges over a sync.Map:
sessions that meet the condition of the range are added only under
`libusbMutex`, which every caller of findPrevSession and releaseDisconnected
holds; a concurrent delete makes the range see one session more or less, and
`RelLoad` then finds out.  When `Reap` is taken again for a session that another
process has deleted in the meantime is the same as the range having passed it.

A path is a text.  findPrevSession and releaseDisconnected compare texts
(core.go:332, 406-418), and Acquire converts the text its client sent with
strconv.Atoi to look it up (core.go:461-466), so "1", "01" and "+1" are three
paths of one number.  A text is a record of a number and a spelling; `Itoa` is the one
a listing has, `Atoi` drops the spelling, and number 0, which is never given, stands for
texts that name nothing.  A session keeps the text of its client.  So an acquire
under a second spelling finds no session, and a session under such a text is in no
listing, which ends it at the next enumeration.

`RelClose` is the closing and cancelling part of dev.Close.  It takes effect on the
transfers it finds; any of them it may miss (`missed`), because the table of sync.c does
not have them all the time: LibUSBDevice is the detail.  Close then drains the
read queue, unless it is told that the device is gone or transfers are not
cancelled at all (libusb.go:454), and there waits for the mutex a missed read holds
(`WaitsForRead`, `RelDrain`).  A second Close of the handle may find what the first missed.

Merged steps: EnumCalls takes `callMutex` and `lastInfosMutex` together (the only
other users hold them for one assignment or one read), and an unlock belongs
to the step before it (nothing shared is touched in between).  The read lock
of `lastInfosMutex` in backgroundListen is the guard of `BackgroundTick`.

The environment: `Plug` and `Unplug`; a client may start any request at any time
with any text of any path number that was ever given, a path that was not, or any session
number, right or wrong; the client of a call may go away at any time (`ClientClose`).  A transfer ends with
data or an error at any time or never (`WriteDone`, `ReadDone` have no
fairness while the handle is open).

A slot is used again when its request has returned and its watcher has ended,
so the number of requests over time is not bounded, only how many there are at
once.

### LibUSBDevice

Core lets one request read and one request write at a time, so a handle has a
reader, a writer and Close.  `running` is the table of sync.c; `Save`, `Remove`,
`CancelGet` are its three accesses, each atomic under `running_transfers_lock`,
and they are apart from `Submit`, `Complete`, `Wake` and `Cancel`.  `RemoveEntry`
takes the first entry of the handle, whichever transfer it is for, as
get_and_remove_running_transfer does.  Modelled for `cancel` on, that is on every
system but FreeBSD and OpenBSD.  A handle is opened again when nobody uses it
any more; a reader that passed the test of `closed` before Close and submits
after the handle is freed gets an error, whatever a freed handle would do.


### Listen

`Poll` is one round of the loop of core.Listen: `Different`, `Equal` with `Wait`, or `Same`
after iterMax equal rounds.  The listing is Enumerate with its effect on sessions:
`Infos` are lastInfos while a call is in progress, and `Connected` ends the sessions of
devices that are not listed.  Acquires, releases and calls are single steps
here; Core has them in detail.  `ListingFails` and `Closed` end a request.

### LibUSBBus

Acquire goes step by step through Connect: `Stolen` (the previous session's handle is closed),
`Prepare`, `ListDevices`, `Open`, `ResetDevice`, `Detach`, `Claim`, with the next candidate after an
error.  The candidates (`acq.left`) are places in libusb's list, and the foremost is tried first.  A close is `ReleaseInterface`, `AttachDriver`, `CloseHandle`, in any order with the next
acquire, since release holds no mutex.  `claim` and `driver` are what the kernel knows.
Enumerate reads the list of devices in libusb's order and skips devices at ports it
has seen already.

### UdpBus

For a port, `wire` is what its socket has received, `hand` the datagram the goroutine
(listen) is about to put into a channel, `ping` and `data` the channels.  `Check`,
`Pong` and `Timeout` are checkPort, which every asker uses: Enumerate, and each loop of
a read or write.  A full channel blocks `Deliver`, and a socket that sent to nobody
fails at its next use.

### Hid

`Lock`, `Transfer`, `Again` and `Unlock` are readWrite, which lets the mutex of the handle go
every 50 ms; Close is `CheckClosed`, `StoreClosed`, `Lock`, `CloseDevice`.  `device` is the C device:
none, open, freed.  detectPrepend is `DetectNewer` and `DetectOlder`.  The C code of
hidapi is a git submodule and external; it does what hid.go relies on.

### Wire, Protobuf, MemoryLog

`Wire` has the writer of a device and the reader of the bridge packet by packet; `GiveUp`
ends a read anywhere and the next one starts in the middle of a message.
`Protobuf` states what a sequence of fields is and compares Validate with it on every
buffer up to five bytes; its states are the buffers.  `MemoryLog` counts lines; `Write` is one
step under the mutex, an export holds the mutex over `WriteTo`, `WriteLine`, `WriteGap`,
`WriteStartLine` and `Unlock`, and its writer may fail at each.

### LibusbEvents

A thread of sync.c tries the events lock, handles events if it gets it (`poll`, the
event pipe, the backend), or locks the waiters and sleeps.  A thread that closes a
handle sets device_close, signals the pipe, takes the events lock and makes the
others notice.  Backend "poll" is Linux; "signal" is macOS and Windows, where
a finished transfer is put on completed_transfers and the pipe is written.

### LibusbTransfers

`Submitting` is libusb_submit_transfer with both locks, `Timer` handle_timeouts, `Cancel` the
user, `Events` the backend's completion with the callback, `DisconnectBegin` to `DisconnectEnd`
usbi_handle_disconnect.  `owed` records a callback the user is owed and `cause`
what really ended the transfer; `Tick` is the clock.

### LibusbHotplug

The steps have the names of the functions.  `dev` and `cb` follow memory: none, live, freed.
hotplug_cbs_lock is dropped around each call of a callback, so a registration, a
deregistration and an exit come between.  `EarlyUnplug` lets the backend lose a device
before hotplug is ready (see the deviations).

### ConfigParser, BosReader, LinuxConfigs

A configuration is a sequence of descriptors with a type, a number and a length that
may be wrong.  `ConfigParser` builds the tree step by step with a `heap` of what is
allocated; its properties compare the tree with the input.  `BosReader` asks the device
twice, and the device answers each time as it likes.  `LinuxConfigs` locates the
configurations in a file with holes (usbfs) or without invalid ones (sysfs), and reads
them in two parts while the active one may change.

### LinuxMonitor

Per context: `libusb_init`, the start of the monitor, the scan device by device, exit; the monitor
thread (`MonitorPoll`, `MonitorRead`); poll and a failing open, all under
linux_hotplug_lock where the code takes it.  `Share` and `Unshare` are the default
context.  The kernel (`Plug`, `Unplug`) acts between any two steps; `uevents` are its
messages, with the address and port only.

### UsbfsClaims, UsbfsTransfers

`UsbfsClaims` takes the calls of core.c and linux_usbfs.c one system call at a time.
`owner` is who is bound to an interface in the kernel (nobody, a driver, a file
descriptor), `claimed` the mask in the library; `vouched` and `had` are history: that no
reset made the mask doubtful, and drivers that automatic detaching took off.  `UsbfsTransfers` submits, discards and reaps
URB by URB; `Device` is the kernel at work on one URB, `urb` what it did with each, and
`outcome` the status the callback is given, which is compared with it.

### DarwinDevices, DarwinProbe, DarwinHandles, DarwinTransfers

`DarwinDevices` has the kernel with its notifications, the thread of the run loop, contexts
and resets; `cached`, `mem` and `cache` are the list of cached devices and its objects, `broken`
records a call through a NULL interface or the use of a freed object.
`DarwinProbe` is one probe of a new device and the configuration read afterwards.
`DarwinHandles` writes each function as an operator from a state to its outcomes,
because they call each other in every direction; a call is one step.
`DarwinTransfers` keeps the requests of each pipe in order, from submission over
`darwin_async_io_callback` to `darwin_handle_transfer_completion`, with aborts of the whole
pipe; `os` is what IOKit did, `cause` why a transfer ended.

### WindowsDevices, WindowsClaims, WindowsTransfers

`WindowsDevices` walks the registry in the passes of winusb_get_device_list: hubs,
interfaces by class, the generic pass with its own snapshot, the composite parts.
`objs` are device objects with their count; `discdevs`, `unrefs`, `app` and `handles` say who
holds a reference, `leaked` which references were forgotten; CountIsHolders ties them
together.  `WindowsClaims` follows the files and WinUSB handles of one open device while
transfers claim interfaces for themselves.  `WindowsTransfers` goes from `Submit` and `Start` over the
system's `Complete`, the thread of the completion port and the event thread to
`Callback`; `io` is the OVERLAPPED, `owed`, `asked` and `told` are history.

## Runs

| run | expects | shows |
|---|---|---|
| `core_safety` | pass | `OneSessionPerPath`, `SessionsListed`, `AcquireStillRight`, and Core implements `SessionOwner`, with paths in two spellings |
| `core_calls` | pass | the types of Core, `NoEnumerationDuringCall`, `OneCallPerSession`, `NoLostHandle` |
| `core_liveness` | pass | `RequestsEnd`, `ClosedCallsEnd` (both unless a missed read lasts for ever), `GoneSessionsEnd` |
| `libusb` | pass | `OneTransferPerEndpoint`, `NoSlotLeak`, `CloseEnds` |
| `bridge` | pass | `IdNamesOnePort`, `RetiredStaysRetired`, `PathIsUnique` of the paths; `BusSound`, `HidSound`, `MessagesSound`, `ValidationSound`, `LogSound`, and the action properties `StepsSound` |
| `libusb_core` | pass | `EventsSound`, `TransfersSound`, `HotplugSound`; Linux: `LinuxSound`, and the action properties of its claims, `StepsSound` |
| `backends` | pass | `DescriptorsSound`; Linux: `MonitorSound`, `UrbsSound`; macOS: `DarwinSound`, `HandlesSound`; `WindowsSound`; the action properties of macOS, `StepsSound` |
| `liveness` | pass | `NobodyStuck`, `ListingsSettle`, `SessionsSettle` |
| `paths_replug` | violation | `DifferentDevicesDifferentPaths`: README.md:87 against core.go:198 |
| `core_autorelease` | violation | `AutoReleaseOnlyOnClose`: core.go:590 against the select at core.go:586 |
| `core_closeonce` | violation | `CloseOnce`: CHANGELOG.md:24 against core.go:361-369 |
| `libusb_cancel` | violation | `WaitingIsCancellable`: libusb.go:518 and sync.c:176 against sync.c:270 |

What the conjunctions of the suites say (each named property has its comment in its module):

| property | says |
|---|---|
| `BusSound` | a session has its device's interface claimed (`SessionHoldsClaim`), no handle stays open without a session (`NoHandleLeft`), a kernel driver comes back when the last session ends (`DriverRestored`, where clients steal but do not release) |
| `HidSound` | no hidapi call has a freed device (`NoUseAfterClose`), every write has the prefix the device takes (`PrependIsRight`), a closed device is given back once (`ClosedIsGivenBack`) |
| `MessagesSound` | what is read is one whole message (`WholeMessages`), none is lost that was not given up (`NoneLost`) |
| `ValidationSound` | Validate accepts exactly the sequences of fields (`AcceptsFields`) |
| `LogSound` | first and newest lines (`KeepsFirstAndLast`), an export is the log of one moment and whole (`ExportIsOneMoment`, `ExportIsWhole`) |
| `StepsSound` of `bridge` | a kernel driver is lost only to somebody who claims its interface, with releases, resets and another program (`DriverLostToClaim`), a session is made on the device its path was listed for where ports differ (`SessionOnShown`), only packets of a message whose read was given up are skipped (`SkipsOnlyCut`), a request that listens is answered with the old entries only at its end (`SameIsLate`) |
| `EventsSound` | the pipe is readable exactly while a flag is set, events are reported for open handles only |
| `TransfersSound` | one callback for each submission, on the list while it is owed, the list sorted, the status says what happened, freed memory untouched, a gone device leaves nothing |
| `HotplugSound` | a pointer is to something alive, nothing leaks, exit leaves what the program keeps, callbacks are told in order and of every device |
| `LinuxSound` | claims: the mask is what the kernel has bound to the file descriptor (`MaskIsOwned`), the lock of the handle protects it (`LockProtects`), drivers come back (`DriverComesBack`), the cached configuration is the active one (`CacheIsActive`); monitor: a context that is in use is served (`InsideIsServed`), a poll has handled what came before it (`PolledIsFresh`) |
| `StepsSound` of `libusb_core` | the descriptor of a wrapped device is left open and others are closed (`DescriptorsAreOwned`), no claim is taken from its holder (`NeverSteals`) |
| `DescriptorsSound` | the tree is what the descriptors say, every failure frees all of it, capabilities and strings fit; every configuration of a file is located, what is returned is whole and the wanted one |
| `MonitorSound` | the list of a context becomes the devices of the system |
| `UrbsSound` | memory is freed when the last URB is back, data are in order, a cancellation and the first failure decide the status, packets are in place |
| `DarwinSound` | references are owners, nothing freed is touched, the list is current, a probe leaves the device as it found it |
| `HandlesSound` | open_count is the handles, a claimed interface is open, nothing is left after the last close, a capture is counted; status and data of transfers are what IOKit did, frame lists fit and do not overlap |
| `WindowsSound` | claims are kept, no system handle is lost, an interface is valid while it is used; reference counts are the holders, the listing is true if nothing changed meanwhile; callbacks are owed, buffers given back, zero packets sent where asked |
| `StepsSound` of `backends` | a reset ends with the device in the list, a device that answers is not configured again, a reset restores the claims, the requests of a pipe are reported in order |

The suites name a type invariant of each module first, as part of these conjunctions.

### Bounds and why they are enough

* Paths (`bridge`, `paths_replug`): two ports, four plug-ins, four numbers.  A
  number can be given, dropped, and another one given for the same port, for the other
  port and for both at once.  The proofs remove the bounds.
* `core_safety`: two requests of any kind but calls at a time, beside the background
  enumeration; one port; two interfaces; two spellings of a number and a path that names
  nothing; two sessions and two path numbers over the whole behaviour, so that a
  session is stolen, that one device has sessions under two texts, that a
  device comes back under a second number, and that both interfaces are owned; three
  retries, as in the code.  What a call adds to the table is the release by its watcher,
  which takes the same steps as a client's.
* `core_calls`: two requests beside their watchers and the background enumeration, so that two
  calls, also a post beside a call, meet a listing; two sessions of one interface and two path
  numbers, so that a call goes on with a session that was stolen or whose device is gone
  while the next one exists.
* `core_liveness`: two requests, one session, one path.  Liveness is checked without
  symmetry.
* `libusb`: one handle that is opened again without end, two slots for up to two
  concurrent transfers, so the table is full when both directions wait and a leak
  of one slot shows.
* Requests are interchangeable: nothing in Core orders them, so the invariant
  runs use their symmetry.
* Listen: three rounds stand for 600, and five changes (four in `liveness`) for any number; a change
  before, between and after two polls and one that undoes another are among them.
* LibUSBBus: one device with both interfaces and three or four handles (one being
  closed, one stolen, one connecting), or two devices and two handles.  Another program claims
  interfaces except where `DriverRestored` is checked.  A session is looked up
  and deleted in one step, and clients send paths as they were listed: Core has the two
  steps and the other texts, with which a reset may meet a session (`NoResetBesideSession`
  under the deviations).  Enumerate's
  closing of lost sessions is asynchronous, which allows more than the code does; a reset rebinds
  drivers only on the interfaces it frees.
* UdpBus: a normal port with a debug port, or one port with late pongs; the data
  channel has room for one or two messages instead of 100, a socket for one or two datagrams.
* Hid: three goroutines, two handles; Wire: packets of 11 bytes, sizes below, at and
  above one packet; Protobuf: seven bytes that are the edges of tags and varints;
  MemoryLog: two and three lines, twelve writes.
* LibusbEvents, LibusbTransfers: two threads or transfers, which is what a wake-up or
  an order in the list takes.  LibusbHotplug: two devices and one callback, or one device and
  two callbacks; memory is never short there, and no callback registers another.
* ConfigParser: three descriptors of any kind with any length, or five correct ones
  (the header of the configuration is valid); BosReader: two capabilities, a string of six.
* LinuxMonitor: for the counts (`libusb_core`) three users, two of them of the default
  context, so that one leaves it while the other starts, beside a context of its
  own; for the lists (`backends`) two users with a context each, with two devices that share
  an address, or a hub with one.  Each device is plugged once, and the default
  context is not made again before it is freed.
* UsbfsClaims: three to five calls by one or two threads on one or two handles;
  UsbfsTransfers: three URBs, one transfer at a time.
* DarwinDevices: two or three services, one or two resets, under the exclusions `Calm`:
  nothing comes or goes while a context starts, no reset begins while one starts or an
  arrival is handled, no device is pulled while it is reset.  Starts and ends of contexts are one after the other, as default_context_lock makes them.
  DarwinProbe: every kind of device, one retry.  DarwinHandles: eight or nine calls, under the `Rules`
  a program keeps to.  DarwinTransfers: one interface, two or three submissions, data of one unit.
* WindowsDevices: two or three listings with one to three changes between any two
  steps.  WindowsClaims: six or seven calls, two interfaces, two transfers.  WindowsTransfers:
  three submissions, data of one or two units.

Where an exclusion stands in the bounds (`Calm`, `Rules`, `Noise`, `EarlyUnplug`, `Lookalikes`, `Racing` and the like), the
module also has the behaviour without it; what happens then is under "Deviations".

### Fairness

* A goroutine that can run runs: weak fairness of the steps that wait for
  nothing (`Running`) and of the watchers.
* A goroutine that waits for a mutex gets it: strong fairness of `Locking`, because
  a Go mutex that a goroutine has waited for longer than 1 ms is handed to it.
* backgroundListen wakes up for ever: strong fairness of `BackgroundTick`, since
  the read lock it needs is free again and again.
* A transfer ends once its handle is closed and Close has not missed it.  It never has to
  while the handle is open, nor if Close missed it.
* `BusAnswers`: a listing that is tried again and again succeeds in the end.
  `GoneSessionsEnd` needs it.
* Close ends unless it waits for the mutex of a read it missed (`RelDrain` is enabled only
  after that read has ended).  `RequestsEnd` says that requests end if no such
  wait is for ever, and `ClosedCallsEnd` that a call ends if no transfer of it stays missed for
  ever; neither holds without that condition, as `libusb_cancel` and `CloseUnblocks` of
  LibUSBDevice show: a silent device and a read that is not in the table leave
  the drain waiting, and a stealing acquire waits there with `libusbMutex`.
* A device that is drained falls silent, so that the drain itself ends: `CloseEnds` shows it
  of LibUSBDevice for a device that answers.
* `AnsweringSpec` of LibUSBDevice: every transfer ends, and the drain meets its
  50 ms timeout at last.  In `SilentSpec` only the transfers of the drain time out.
* In `liveness` (`Fairness` of MCLiveness), one role for each kind of actor, over the
  components that have it: a `Thread` of a program that is inside a call, a `Closer`, the
  kernel that gives back what is cancelled (`Discarder`) and signals it (`Signaller`), a
  `Timeout` that passes, the `EventLoop` (the thread of events, of the monitor, of the run loop),
  the `Application` that takes its events, the `Clock`, an `Emulator` that reads its socket,
  the goroutine of its port (`Receiver`, `Deliverer`), who asks (`Asker`, `Answered`) and who calls (`Caller`).
  All are weak; only `Locker`, a goroutine that waits for a Go mutex, is strong.  pthread
  mutexes get no strong fairness, so that nobody waits for ever there does not rest on
  the scheduler's kindness.  A device never has to answer, a program never has to start a call.

| `liveness` instance | what must not last |
|---|---|
| `woken`, `closed` | a thread sleeps though something is there for it, or waits for a transfer whose handle is closed; a close waits for the events lock |
| `transfers` | a transfer with a timeout, or one that is cancelled or whose device is gone, has no callback |
| `bos`, `probe` | a loop over what a device sends goes on |
| `urbs` | a transfer whose URBs must all come back is not reported |
| `monitor` | the exit of the last context waits for the monitor thread |
| `darwin` | a reset waits for the device to come back, a call for the event thread |
| `aborts` | a cancelled transfer is not reported |
| `hid` | a call on a closed handle has not returned |
| `debug`, `late` | the listing is not the emulators that are up; an emulator that is gone stays listed, or a call of a closed device goes on |
| `listen` | the client does not know a lasting change of devices or sessions |

## Proofs

What TLAPS proves holds for all values of the constants, from the named
assumptions of the modules.  They say nothing about the code, only what the constants are:

| assumption | says |
|---|---|
| `PortsAssumption` | the ports are finite |
| `BoundsAssumption`, `ConfigAssumption`, `LogAssumption` | bounds are natural numbers, switches are Boolean |
| `ProcsAssumption` | the processes of Core are distinct and finitely many |
| `DeviceAssumption` | the handles are finitely many, the slots a natural number |
| `TransfersAssumption` | synchronous, other transfers and the two threads of the library are distinct; a timeout is a number above zero and below "none" |
| `HidAssumption` | switches are Boolean, there may be at least one handle |
| `BusAssumption` | the devices are a list that is not empty, interfaces are 0 and 1, switches are Boolean, bounds are numbers |
| `WireAssumption` | a packet is longer than the header, sizes are numbers |
| `ListenAssumption` | there is at least one round; the delay is a number |
| `EventsAssumption` | the threads are finitely many and not "none"; the backend is "poll" or "signal", switches are Boolean |
| `ClaimsAssumption` | at least one interface and handle, configurations are numbers above zero, the calls are some of those in the model |
| `MonitorAssumption` | the users are finitely many, and two of them share at most the default context, which is the one the code counts users of |
| `ConstantsAreAllowed` | all of these for the instances of a suite |

Some theorems have a further hypothesis, which excludes a circumstance in which
the code does not do what is stated: `~Lookalikes` of `Wire`.  It is listed under Deviations,
with the constant that makes TLC find the counterexample.
Of the handles of Linux, `Locking`, `Keeping` and `Caching` (`UsbfsClaimsProof`) say
that one thread makes the calls, or that the call that breaks the property is not
among them: libusb_set_interface_alt_setting for the lock; that one and
libusb_detach_kernel_driver for the mask, with IOCTL_USBFS_DISCONNECT_CLAIM or one handle;
libusb_set_configuration for the cache.  `ReportedStaysOpen` has `Backend = "poll" \/ ~CloseBusy`: on
macOS and Windows a handle that is closed under its transfer stays in completed_transfers,
and do_close reports the closing of a handle in use as an error (core.c:1406).  The instance
of the monitor has `Noise` FALSE.

In every module the properties are conjuncts of, or follow from, an inductive
invariant `IInv` (`CoreInv` in `CoreProof`; `PathsIInv`, `WireIInv`, `LogIInv` and `ListenIInv` in
`MCBridgeProof`; `MonitorIInv` in `MCLibusbProof`), which TLC checked on the bounds of the
runs before it was proved.  Its proof has one lemma or step for each action.

### The suites: `MCBridgeProof`, `MCLibusbProof`

What `bridge` and `libusb_core` check of proved components is itself proved, for all
constants the suites allow: `PathsHold`, `BusHolds`, `HidHolds`, `MessagesHold`, `LogHolds`,
`StepsHold`; `EventsHold`, `TransfersHold`, `LinuxHolds` and a `StepsHold` of its own.  The components
that only a suite needs are proved in its module, the others are used through
INSTANCE of their proof modules.  The step from a component to the suite is the
same each time: `which` never changes (`BusPRuns`, say: the specification of the suite
implies that of the component wherever `which` names it), so an invariant of the
component's `Spec` holds in every behaviour that `which` sends there, and in all others
the conjunct says nothing.  The hypotheses of the component's theorems (clients that only steal,
distinct ports, `DisconnectClaim`) are facts about the instances.

### Paths (`MCBridgeProof`)

`SaveUsbPathsEffect` says what a renumbering does to the table: numbers only grow, a
kept number keeps its port, a new one is beyond all old ones and names a port
that had none.  From it `Invariant`, and `PathsNameOnePort`, `RetiredPathsStayRetired`,
`PathsAreUnique`.  None of the three is inductive alone; what they need is that
everything ever shown with a number still in the table agrees with the table,
and that the retired numbers are not in it.

### Sessions: `CoreProof`

`TypeCorrect`, every safety property of `core_safety` and `core_calls`
(`InterfacesHaveOneSession`, `SessionsAreListed`, `AcquireStaysRight`,
`CallsExcludeEnumeration`, `CallsExcludeCalls`, `HandlesAreKept`) and
`SessionsImplementOwnership`, that Core implements `SessionOwner`, for any number
of requests and any set of spellings.  What is said of sessions and texts is true of
the text a client sent; that a number is listed is true of its number, whatever the
text.  The parts of `CoreInv`:

* `CallsCounted`: callsInProgress *is* the number of requests between CallBegin
  and CallEnd, so the deferred decrement never takes it below zero.  It is what the
  type of the counter needs.
* `OpsAgree`, `LocksHeld`: where a process is says what it is doing and which
  mutexes it holds.  Hence enumerations that hold `libusbMutex` and acquires past
  their first checks exclude each other (`OneAtATime`).  Release is not among
  them, so tables may lose an entry at any time but gain one only from the one
  acquire under way.
* `AcquireRelies`: that acquire has seen its interface free, or taken only by the
  session it is about to release, and both stay true under deletions.  With
  `NamesListed` its path is still listed when it stores the session, which gives
  `OneSessionPerPath` and `AcquireStillRight`.
* `Reaped`: sessions of dropped paths exist only while an enumeration is between
  its listing and its return, and that one holds `lastInfosMutex`.
* `BusQuiet`: the counter is zero while the buses are listed, because `callMutex`
  keeps new calls out; with `CallsCounted` no call is under way at all.
* `FlagsHeld`: a call that reads finds its own flag set to the end, so the
  compare-and-swap of another fails; it is cleared only by the call that set it.
* `WatchersWait`: a watcher is spawned once per call, so no watcher that is about
  to close a handle is ever restarted over it.

`TableSteps` sorts the steps by what they do to sessions: only RelDelete,
AcqConnect, the listing, RelClose and the two flag steps do anything, and the
refinement follows from the first two (a delete of an entry that is gone
already is a stutter).

### The handle and its transfers: `LibUSBDeviceProof`

`EndpointsHaveOneTransfer` and `SlotsDoNotLeak`, for any number of handles that share
the table of sync.c.  `Holders` says that whoever is between the lock of an
endpoint and its unlock holds the mutex of that endpoint, `Allocated` that only
such a process has a transfer; two transfers of one endpoint would be one
process.  `NoSlotLeak` compares two numbers, the entries of a handle and its
waiting processes.  It is inductive with the types: an entry comes with a
process that begins to wait, and a process that ends its wait takes out the first entry
of its handle, not always its own, but one if there is any.

### The bus: `LibUSBBusProof`

`SessionsHoldClaims`, `NoHandleIsLeft`: `Acquiring` says that the acquire under way has
seen its interface free, and the other one too if it may reset the device,
since a reset takes the claims of all; `NewHandle` that the handle it opened is
no session's; `OwnHandle` that a session's handle is the one that was opened for
its path and interface.  Steps are sorted by what they do to handles and tables
(opening, storing, neither).

`DriversLostToClaims`, with releases, resets and other programs: no step leaves an interface
without its driver and without a handle that will attach it, unless somebody claims
the interface who has not detached the driver.  A handle gives up its flag in two steps
only (`AttachEnds`: the attach of a close, and a claim that fails), and a driver is unbound
only by a handle that sets its flag (`DriverTaken`).  `ClaimsOwned` has every claim at another
program or at a handle that is used or about to release it, so the claim
in the way is never that of the handle that detached.

Two more theorems are steps towards those of the suite and no results of their own, because
their hypotheses take away the cases in which the code fails: `DriversRestored`
(clients only steal and no other program claims) and `SessionsOnShown` (no equal
ports).  The deviations have these cases.

### hidapi: `HidProof`

`DeviceNotUsedAfterClose`, `PrependRight`, `ClosedGivenBack`.  `MutexHeld` ties the
mutex of a handle to the steps between its lock and unlock; `Operations` has what
a goroutine knows of its handle; `Opened` and `Closes` order what a handle goes
through: a C device is closed only by the Close that stored `closed` and holds the
mutex, and an operation that got the mutex later tests `closed` first.

### Transfers of libusb (`MCLibusbProof`)

`CallbackOnce`, `ListTrueAndSorted`, `StatusTrue`, `FreedStaysUntouched`,
`DisconnectLeavesNone`, for any set of transfers and timeouts.  What is not
inductive alone, and what each needs:

* `Control`, `LocksHeld`: where each thread may be, on which transfer, and which
  of the two kinds of locks it then holds.
* `Flight`: a transfer is owed a callback exactly while it is in flight, being
  put in flight, or in its callback; it is what a callback relies on.
* `Kernel`, `Stamps`, `Verdicts`: the kernel has only what is owed and discards it for
  one cause; the flag of a timeout is set before flying_transfers_lock is let go; hence the
  status is that cause.
* `Waiting`: a synchronous transfer that is owed nothing any more has its status,
  so that it may be freed.
* `Disconnect`: the walk of the list still has all that are owed their callback.

The order of the list needs lemmas about taking an element out of a sequence and
putting one in (`RemoveAtEffect` and its counterpart for `InsertAt`), and that the place
add_to_flying_list looks for exists (`LeastNumber`).

### Packets (`MCBridgeProof`)

`MessagesAreWhole`, `NoMessageIsLost`, `OnlyLeftoversSkipped`.  A place in the stream is
a message and the number of its bytes before the packet.  `Stream`: the packets on their way are
a run of places, each following the last (`Follows`), that ends where the writer
(`Writer`) is.  `Reader`: a read inside a message has as many bytes as the
place of the next packet says, and if nobody reads there, the message was
cut by a read given up.  `Returned`: what was returned are whole
messages in the order of their writing, and all up to the reader but those that
were cut.  A continuation packet is never taken for a header by `~Lookalikes`.

### The log (`MCBridgeProof`)

`LogTypeCorrect`, `FirstAndLastKept`, `ExportTrue`, for every number of first
lines and every window.  `RotatedKeepsNewest` is the arithmetic of the window.  That an
export is the log of one moment is not inductive: `Progress` adds how much of it has
been written at each of its steps, and that the mutex keeps the lines as they were.

### Events of libusb: `LibusbEventsProof`

`PipeIsRight`, `ReportedStaysOpen`, `HandledByOne`, for any number of threads, with either
backend.  `LockHeld` ties events_lock to the steps of a thread that handles events and of
one that closes a handle; from it `HandledByOne`.  `CloseCounted`: device_close *is* the
number of closes between their first and last step, so the flag DEVICE_CLOSE is there
while one is waiting (`FlagsKept`) and the pipe is not emptied under it.
`InFlight`, `Reported`: a transfer the kernel has belongs to an open handle whose thread waits,
and something is reported only while some thread is handling it, which keeps closes out.
`SignalledOnce`: with the other backend a transfer is in completed_transfers, or in the
part cut off from it, at most once; this is what fails when a handle in use is closed.

### Handles and claims of Linux: `UsbfsClaimsProof`

`MasksAreOwned`, `LocksProtect`, `DriversComeBack`, `CachesAreActive`, and of steps `ClaimsAreKept` and
`DescriptorsOwned`, for any threads, handles, interfaces and number of calls.  What
the mask says and what the kernel has differ in the middle of every call, so
`Masked` has, for each interface in the mask that is not bound, the call that is
about to settle it (`Pending`); `NotBound` says the reverse of the interfaces a reset gave up
or a release takes a driver for.  `Owns` is the lock; without it a second call would
settle the same interface.  `Missing` follows a driver that was taken off to the claim it
made room for, `Cached` a configuration between the system call and its storing.

### The monitor (`MCLibusbProof`)

`MonitorInvariance`, for any finite set of users, whichever of them share the default
context.  That whoever is inside is served says nothing of the steps that could break it,
since the thread is stopped by the exit of somebody else.  The induction counts:
`Counted` has init_count as the number of contexts with somebody inside and
default_context_refcnt as the number of users of the default one, so that only the exit of the
last one, or the failure of the only one, stops the thread (`Monitored`).  `LocksAreHeld` says what a
holder of either lock is doing; `Alive` and `ExitsApart` that a context is not freed under another
user, though the last steps of an exit are outside the lock.  `PollsFresh`: the
messages that waited when a poll began are the first of those that wait.

### Listen (`MCBridgeProof`)

`AnswersAreLate`: the age of a request is its rounds times the delay (`Waited`), so it is
answered with the old entries after IterMax rounds and not before.

### Only model-checked

* Liveness, all of `liveness`, `CloseEnds` of `libusb` and `core_liveness`: the prover has no
  support for temporal proofs under fairness, nor for ENABLED.
* What a recursion over data computes, for every input, which takes an induction the
  installed provers cannot instantiate: `ValidationSound` (the fields of a buffer), `HotplugSound` (dropping a
  reference drops the parent's, and so on up the tree), `DescriptorsSound` (the tree is the
  sequence that was parsed), and in `MonitorSound` the list, which is
  what a sequence of messages makes of it.  These are checked on all inputs up to their bounds.
* `UrbsSound`, `HandlesSound`, `WindowsSound` and the `StepsSound` of `backends`: their modules have
  recursive operators (sums over URBs, claims that configure and configurations that
  claim, the walk up a chain of hubs), and in a module that reaches one the prover has
  no SMT backend.  The suite reaches them, so nothing is proved of it.
* `DarwinSound`, and the safety properties of `UdpBus`, `LinuxConfigs`, `DarwinTransfers`, `WindowsClaims` and
  `WindowsTransfers`: nothing but work is in the way of theorems about the modules themselves.

## Deviations

Four runs expect a violation (above).  The modelling met more places where the code
does not do what its documentation or its own comments say.  For each of these the
property is a definition of the module, and the last column says what makes TLC find a
behaviour that violates it: the constant to change, or nothing if it fails
as it stands.  The passing runs either exclude that circumstance by the constant
or do not list the property.

| property | where | what the code does | shown by |
|---|---|---|---|
| `Listen!ThirtySeconds` | core.go:165 | a request without a change returns after 300 s, not 30 (README.md:88) | `IterMax` 600 |
| `LibUSBBus!SessionOnShown` | libusb.go:415 | the ports without the bus number are one path for two devices | two devices at equal ports |
| `LibUSBBus!DriverRestored` | libusb.go:472, 272 | an acquire between the release of the interface and the attach leaves the driver off, and so does a claim that fails after the detach | `Releases`; `Foreign` |
| `Core!OneSessionPerDevice` | core.go:436, 461 | "only one of them succeed" (README.md, /acquire): an acquire under another text of the number ("01" for "1") is refused nothing and steals nothing, and opens the same interface a second time | a second spelling in `Spellings` |
| `Core!NoResetBesideSession` | core.go:458, 461 | "reset device ONLY if no call on the other port" (core.go:456): under another text no session is found, and the device is reset beside the live one | a second spelling in `Spellings` |
| `LibUSBDevice!CloseUnblocks` | sync.c:264 | a read past the test of closed and not yet in the table is not cancelled by Close (libusb.go:444); Close waits for it (libusb.go:493), so `RequestsEnd` and `ClosedCallsEnd` of Core fail without their condition | `SilentSpec` |
| `UdpBus!AnswerIsOwn` | udp.go:218 | Close does not empty the channel: a read returns the answer to another session | two devices |
| `ListingSettles` of UdpBus | udp.go:49 | a full data channel hides the pongs behind it, the emulator is never listed again | unread answers beyond `DataCap` |
| `Wire!WholeMessages` | v1.go:87 | a continuation packet whose data begin like a header starts a message (v1.go:86) | `Lookalikes` |
| `LibusbHotplug!NothingLeaks` | hotplug.c:250 | a device that leaves before hotplug is ready keeps its reference | `EarlyUnplug` |
| `LibusbHotplug!RegisteredIsAlive` | hotplug.c:402 | a callback may be freed by the event thread before its registration returns its handle | |
| `LibusbHotplug!GoneStaysGone` | hotplug.c:391 | an arrival is told after the removal; libusb.h:2020 lists two other cases only | |
| `ConfigParser!CountsMatch` | descriptor.c:263 | after a too long class descriptor bNumEndpoints stays as sent, endpoint is NULL | `Lens` with "long" |
| `ConfigParser!NothingLeaks` | descriptor.c:438 | an alternate setting that is allocated for what is no interface is never freed | |
| `LinuxConfigs!ReturnedIsWhole` | descriptor.c:581 | the active configuration changes between the two reads: cut to the first one's length | `Racing` |
| `LinuxMonitor!PolledIsFresh` | linux_netlink.c:397 | the poll ends at a message that is not of a device (libusbi.h:1011) | `Noise` |
| `UsbfsClaims!NeverSteals` | linux_usbfs.c:1735 | detaching may take off a claim of usbfs made after its test (core.c:1998) | "detach" in `Ops` |
| `UsbfsClaims!LockProtects` | core.c:1763 | set_interface_alt_setting unlocks a lock it has not taken | "alt" in `Ops` |
| `UsbfsClaims!CacheIsActive` | linux_usbfs.c:1481 | of two set_configuration calls the earlier may store last | two threads, "set" in `Ops` |
| `UsbfsTransfers!FailureIsReported` | linux_usbfs.c:2053 | a stall before a continuation URB is submitted is taken for a short transfer | |
| `DarwinDevices!ListIsCurrent` | darwin_usb.c:543 | what comes or goes between scan and arming is missed | `Calm` without "plug" |
| `DarwinDevices!NeverThroughNull` | darwin_usb.c:1802 | a device pulled during its reset is called through NULL | `Calm` without "pull" |
| `DarwinDevices!ResetDerefs` | darwin_usb.c:1833 | after the timeout of a reset the old device stays in the lists (401) | `Timeouts` |
| `DarwinDevices!InEachContext` | darwin_usb.c:1186 | a context that did not list a device in reset does not get it (357) | two contexts, `Calm` of "pull" only |
| `DarwinDevices!FirstFindsNothing` | darwin_usb.c:605 | an init that failed leaves cached devices, the next one asserts there are none | `StartupFails` |
| `DarwinDevices!OneResetAtATime` | darwin_usb.c:1774 | the test of in_reenumerate has no lock | two threads |
| `DarwinProbe!OnlySleepersSleep` | darwin_usb.c:834 | a device that was awake may be left suspended (883) | |
| `DarwinHandles!NothingLeft` | darwin_usb.c:1295 | handles closed in the order they were opened leave source and device open | `Rules` without "lifo" |
| `DarwinHandles!Pointed` | darwin_usb.c:1518, 1709 | an interface object of a failed claim, or of before a reset, is overwritten | `Rules` without "apart"; "reset" in `Ops` |
| `DarwinHandles!ClaimedIsOpen` | darwin_usb.c:1847 | a reset restores the claims of the handle that asked only | `Rules` without "alone" |
| `DarwinHandles!ReleasedIsReleased` | darwin_usb.c:2609 | automatic attaching claims again what was just released | "auto" in `Ops` |
| `DarwinHandles!DetachedIsCaptured` | darwin_usb.c:2578 | an attach too many takes capture_count to -1, the next detach does nothing | `Rules` without "paired" |
| `DarwinHandles!ClaimReturns` | darwin_usb.c:1486 | a claim that needs a configuration and is in another recurs without end | an interface outside `Config1` |
| `DarwinHandles!NeverThroughNull` | darwin_usb.c:1672 | a failed reclaim after a pipe error is called through NULL | "stall" and "nopipe" in `Fails` |
| `DarwinTransfers!TimeoutKeepsData` | darwin_usb.c:2373 | data of a transfer the library times out are not counted (sync.c:375) | |
| `DarwinTransfers!PacketStatusIsOwn` | darwin_usb.c:2327 | one late frame makes all later packets late | `Iso` with "timeout" in `Results` |
| `DarwinTransfers!ZeroPacketSent` | darwin_usb.c:1997 | the zero packet flag is cleared in the caller's transfer | "flag" in `Ops` |
| `DarwinTransfers!CancelAborts` | darwin_usb.c:2286 | a stream transfer cannot be cancelled | `Stream` |
| `DarwinTransfers!NoListLost` | darwin_usb.c:2086 | the frame list is not freed with the transfer | "free" in `Ops` |
| `WindowsDevices!NothingForgotten` | windows_winusb.c:1065, 1836 | the parent's reference of a device that is listed again is forgotten | |
| `WindowsDevices!NeverThroughNull` | windows_winusb.c | a device whose class changed is disconnected twice | `Reinstalls` |
| `WindowsDevices!PortsTell` | windows_winusb.c | external hubs are filtered out before they get ports, so two devices have equal ports and, by libusb.go:410, one path | an external hub |
| `WindowsClaims!ClaimsKept` | windows_winusb.c:621, 4442 | the end of a transfer releases what the program had claimed; an unsuitable automatic claim stays | `Rules` without "addressed"; "setconf" of a composite device |
| `WindowsClaims!InUse` | windows_winusb.c:2819 | a transfer that did not claim releases early for one that uses the claim | two transfers, `Rules` without "held" |
| `WindowsClaims!CountWasZero` | windows_winusb.c:624 | two transfers claim at once and both count from zero | two transfers, `Rules` without "held" |
| `WindowsClaims!NothingOpen` | windows_winusb.c:4298 | with both WinUSB and libusbK interfaces each is opened and closed twice | both drivers |
| `WindowsClaims!NoHandleLost` | windows_winusb.c:2671 | interface 0 is initialised for another one and again for itself | `Rules` without "first" |
| `WindowsTransfers!DataIsCounted` | windows_winusb.c:4231 | a HID report counts its prefix byte | `prefix` |
| `WindowsTransfers!CallbackIsItsOwn`, `CallbackIsOwed` | windows_winusb.c:3055, 2873 | a stream whose resubmission fails keeps the wrong callback, and nobody is told | isochronous with `Refuses` |
| `WindowsTransfers!AskedIsNotStarted` | windows_winusb.c:2873 | a cancelled isochronous transfer is submitted again | isochronous |
| `WindowsTransfers!BufferIsReturned` | windows_winusb.c | the buffer handle is stored after the start and may stay registered | isochronous |
| `WindowsTransfers!StatusIsTrue` | windows_common.c:783 | a cancel after its own transfer has ended aborts the pipe under another one | two transfers on a pipe |

## Plan

Done: everything of `core/`, the buses and their handles, the wire format,
validation and the log; the platform-independent part of libusb that has state; its Linux, macOS
and Windows backends.

Left:

1. Proofs about the backends: DarwinDevices, WindowsClaims and WindowsTransfers first;
   then the counts of DarwinHandles and `CountIsHolders` of WindowsDevices, once their
   recursive operators are functions.
2. Core with LibUSBDevice for a second handle on a device that is being released,
   in place of `RelClose` and `RelDrain`, which only say what Close may miss.
3. An abstract transfer (submitted once, ended once, with the status of its cause),
   with LibusbTransfers and the three backends' transfers shown to implement it.
4. Timers of the Windows events and streams of Linux and macOS.

## Not modelled

* Formatting of responses and of the status page, JSON and hex, CORS and origin
  checks: functions of one request without state.
* Flags and start-up, packaging: wiring.
* usbdk, a second Windows backend for a driver the bridge does not install; the
  files that rename threads, locks and events of the systems, which the models take as
  locks and pipes.
* The C code of hidapi: a submodule that is not in the repository; `Hid` has it as hid.go uses it.
* Inside modelled parts: streams, device memory, clear_halt, power
  and speeds, the fields of descriptors, hub parents on macOS, HID control requests and allocation failures
  on Windows, device descriptors and their cache there; closing a Windows handle under its transfers.
  A bus that fails to start (InitUDP), datagrams that are neither packets nor pongs, a message the bridge gives up
  writing, a packet without the marker and the error for it (v1.go:111-113), the filter of
  hotplug callbacks by event, vendor, product and class.  `PROJECT.json` says for each component what is left out.
* Beyond the prover: liveness, and what a recursion over data computes
  ("Only model-checked" above); these are checked by TLC on their bounds.
