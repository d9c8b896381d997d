------------------------------ MODULE MCBridge --------------------------------
(***************************************************************************)
(* The bridge beside its core: the table of the presented paths, the buses *)
(* of libusb and HIDAPI, the format of the messages, their validation, the *)
(* request that listens, and the log.  They are checked side by side:      *)
(* "which" names the one that runs, the table stays as it was and the      *)
(* variables of the others are 0.                                          *)
(***************************************************************************)
EXTENDS PathTable, TLC

CONSTANTS HasDriver, Interfaces, MaxTries, MaxHandles,       \* libusb
          HidThreads, HidrawThreads, HidHandles,             \* HIDAPI
          PacketLen, Sizes, MaxMessages,                     \* messages
          ListenDevices, IterMax, IterDelay, MaxChanges,     \* listen
          StartCount, MaxLineCount, MaxWrites                \* log

VARIABLES which,
          bus_attached, driver, claim, bus_shown, table, handle, acq,
          present, device, closed, hid_mutex, prepend, conn, thread,
          sizes, wire_written, offset, bus, reading, size, data, got, cut,
          buf,
          listen_attached, session, lastId, calling, listen_lastInfos, known,
          listen, changes,
          log_written, startLines, lines, log_mutex, out

busVars ==
  <<bus_attached, driver, claim, bus_shown, table, handle, acq>>
hidVars ==
  <<present, device, closed, hid_mutex, prepend, conn, thread>>
wireVars ==
  <<sizes, wire_written, offset, bus, reading, size, data, got, cut>>
protobufVars ==
  <<buf>>
listenVars ==
  <<listen_attached, session, lastId, calling, listen_lastInfos, known, listen,
    changes>>
logVars ==
  <<log_written, startLines, lines, log_mutex, out>>
others == <<which, busVars, hidVars, wireVars, protobufVars, listenVars, logVars>>
all == <<vars, others>>

OwnPorts(d) == d
-----------------------------------------------------------------------------
Bus == INSTANCE LibUSBBus WITH
  Devices <- <<"a">>, PortsOf <- OwnPorts, Foreign <- TRUE, Releases <- TRUE,
  attached <- bus_attached, shown <- bus_shown
BusSteal == INSTANCE LibUSBBus WITH
  Devices <- <<"a">>, PortsOf <- OwnPorts, Foreign <- FALSE, Releases <- FALSE,
  MaxHandles <- MaxHandles + 1, attached <- bus_attached, shown <- bus_shown
BusTwo == INSTANCE LibUSBBus WITH
  Devices <- <<"a", "b">>, PortsOf <- OwnPorts, HasDriver <- {},
  Interfaces <- {0}, Foreign <- TRUE, Releases <- TRUE, MaxHandles <- 2, attached <- bus_attached, shown <- bus_shown

HidDevice == INSTANCE Hid WITH
  Threads <- HidThreads, Windows <- TRUE, Newer <- TRUE, Quiet <- TRUE,
  MaxHandles <- HidHandles, mutex <- hid_mutex
HidNoPrepend == INSTANCE Hid WITH
  Threads <- HidrawThreads, Windows <- FALSE, Newer <- TRUE, Quiet <- TRUE,
  MaxHandles <- 1, mutex <- hid_mutex

WireV1 == INSTANCE Wire WITH
  Lookalikes <- FALSE, written <- wire_written

Validation == INSTANCE Protobuf WITH
  Bytes <- {1, 2, 8, 10, 13, 128, 130}, MaxLen <- 5, VarintLen <- 2,
  MaxFieldSize <- 3

Client == INSTANCE Listen WITH
  Devices <- ListenDevices, attached <- listen_attached,
  lastInfos <- listen_lastInfos

Log == INSTANCE MemoryLog WITH
  written <- log_written, mutex <- log_mutex

ASSUME ConstantsAreAllowed ==
  /\ Bus!BusAssumption
  /\ BusSteal!BusAssumption
  /\ BusTwo!BusAssumption
  /\ HidDevice!HidAssumption
  /\ HidNoPrepend!HidAssumption
  /\ WireV1!WireAssumption
  /\ Validation!ProtobufAssumption
  /\ Client!ListenAssumption
  /\ Log!LogAssumption
-----------------------------------------------------------------------------
BusOff ==
  /\ bus_attached = 0 /\ driver = 0 /\ claim = 0 /\ bus_shown = 0
  /\ table = 0 /\ handle = 0 /\ acq = 0
HidOff ==
  /\ present = 0 /\ device = 0 /\ closed = 0 /\ hid_mutex = 0 /\ prepend = 0
  /\ conn = 0 /\ thread = 0
WireOff ==
  /\ sizes = 0 /\ wire_written = 0 /\ offset = 0 /\ bus = 0 /\ reading = 0
  /\ size = 0 /\ data = 0 /\ got = 0 /\ cut = 0
ProtobufOff ==
  /\ buf = 0
ListenOff ==
  /\ listen_attached = 0 /\ session = 0 /\ lastId = 0 /\ calling = 0
  /\ listen_lastInfos = 0 /\ known = 0 /\ listen = 0 /\ changes = 0
LogOff ==
  /\ log_written = 0 /\ startLines = 0 /\ lines = 0 /\ log_mutex = 0 /\ out = 0
AllInit ==
  /\ Init
  /\ \/ which = "paths" /\ BusOff /\ HidOff /\ WireOff /\ ProtobufOff /\ ListenOff /\ LogOff
     \/ /\ \/ which = "bus" /\ Bus!Init
           \/ which = "steal" /\ BusSteal!Init
           \/ which = "two" /\ BusTwo!Init
        /\ HidOff /\ WireOff /\ ProtobufOff /\ ListenOff /\ LogOff
     \/ /\ \/ which = "hid" /\ HidDevice!Init
           \/ which = "hidraw" /\ HidNoPrepend!Init
        /\ BusOff /\ WireOff /\ ProtobufOff /\ ListenOff /\ LogOff
     \/ which = "wire" /\ WireV1!Init
        /\ BusOff /\ HidOff /\ ProtobufOff /\ ListenOff /\ LogOff
     \/ which = "protobuf" /\ Validation!Init
        /\ BusOff /\ HidOff /\ WireOff /\ ListenOff /\ LogOff
     \/ which = "listen" /\ Client!Init
        /\ BusOff /\ HidOff /\ WireOff /\ ProtobufOff /\ LogOff
     \/ which = "log" /\ Log!Init
        /\ BusOff /\ HidOff /\ WireOff /\ ProtobufOff /\ ListenOff

AllNext ==
  \/ which = "paths" /\ Next /\ UNCHANGED others
  \/ /\ \/ which = "bus" /\ Bus!Next
        \/ which = "steal" /\ BusSteal!Next
        \/ which = "two" /\ BusTwo!Next
     /\ UNCHANGED <<which, hidVars, wireVars, protobufVars, listenVars, logVars, vars>>
  \/ /\ \/ which = "hid" /\ HidDevice!Next
        \/ which = "hidraw" /\ HidNoPrepend!Next
     /\ UNCHANGED <<which, busVars, wireVars, protobufVars, listenVars, logVars, vars>>
  \/ which = "wire" /\ WireV1!Next
     /\ UNCHANGED <<which, busVars, hidVars, protobufVars, listenVars, logVars, vars>>
  \/ which = "protobuf" /\ Validation!Next
     /\ UNCHANGED <<which, busVars, hidVars, wireVars, listenVars, logVars, vars>>
  \/ which = "listen" /\ Client!Next
     /\ UNCHANGED <<which, busVars, hidVars, wireVars, protobufVars, logVars, vars>>
  \/ which = "log" /\ Log!Next
     /\ UNCHANGED <<which, busVars, hidVars, wireVars, protobufVars, listenVars, vars>>

AllSpec == AllInit /\ [][AllNext]_all
-----------------------------------------------------------------------------
(***************************************************************************)
(* The libusb bus: a session holds its interfaces, a handle is closed      *)
(* unless a session has it, and the drivers come back (usb/libusb.go; see  *)
(* LibUSBBus).                                                             *)
(***************************************************************************)
BusSound ==
  /\ which = "bus" => Bus!TypeOK /\ Bus!SessionHoldsClaim /\ Bus!NoHandleLeft
  /\ which = "steal" => BusSteal!DriverRestored
  /\ which = "two" => BusTwo!NoHandleLeft

(***************************************************************************)
(* The HIDAPI bus: hidapi is given no device that is closed, report        *)
(* numbers are prepended where they must be, a closed handle is given back *)
(* (usb/hidapi.go; see Hid).                                               *)
(***************************************************************************)
HidSound ==
  /\ which = "hid" => /\ HidDevice!TypeOK /\ HidDevice!NoUseAfterClose
                      /\ HidDevice!PrependIsRight /\ HidDevice!ClosedIsGivenBack
  /\ which = "hidraw" => HidNoPrepend!PrependIsRight

(***************************************************************************)
(* The messages: a read returns a whole message and none is lost           *)
(* (wire/v1.go; see Wire).                                                 *)
(***************************************************************************)
MessagesSound ==
  which = "wire" => WireV1!TypeOK /\ WireV1!WholeMessages /\ WireV1!NoneLost

(***************************************************************************)
(* Validate accepts exactly the sequences of fields (wire/protobuf.go; see *)
(* Protobuf).                                                              *)
(***************************************************************************)
ValidationSound ==
  which = "protobuf" => Validation!AcceptsFields

(***************************************************************************)
(* The log keeps its first and its newest lines, and an export is the log  *)
(* of one moment and whole (memorywriter/memorywriter.go; see MemoryLog).  *)
(* Next to it the types of the request that listens (Listen).              *)
(***************************************************************************)
LogSound ==
  /\ which = "log" => /\ Log!TypeOK /\ Log!KeepsFirstAndLast
                      /\ Log!ExportIsOneMoment /\ Log!ExportIsWhole
  /\ which = "listen" => Client!TypeOK

(***************************************************************************)
(* What no step of the bridge may do: lose a driver but to somebody who    *)
(* claims its interface; give the session of a path a device               *)
(* that was not shown for it; skip a packet of a message that is still     *)
(* read; answer a request that listens with what its client knew before    *)
(* its time is over.                                                       *)
(***************************************************************************)
StepsSound ==
  [][/\ which = "bus" => Bus!DriverLostToClaim
     /\ which = "two" => BusTwo!SessionOnShown
     /\ which = "wire" => WireV1!SkipsOnlyCut
     /\ which = "listen" => Client!SameIsLate]_all
=============================================================================
