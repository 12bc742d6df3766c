# airstreamer in TLA+

airstreamer captures an MPEG transport stream from a file or a DVB adapter,
splits it into programs and elementary streams, and transcodes the video.
These modules model how it does so where the order of things matters: the
capture thread and its callers with the file and the DVB source under it, the
framing of packets, the payload handlers under packet loss, the growing table of
handlers, the reordering of decoded frames, and the hardware transcoder against
the callbacks of its components. TLC checks every property on a small instance;
for the most important safety properties TLAPS proofs hold for every value of the
constants.

## 1. The system

| component | state | operations | talks to |
|---|---|---|---|
| `TSSource` (`capture/tsSource`) | `m_Mutex`, `m_Started`, `m_ThreadFinished`, `m_Thread` | `start`, `stop`, `running`, destructor, `mainLoop` (the reader thread) | callers, a derived source (`doStart`, `doStop`, `readDataInto`), the callbacks |
| framing in `mainLoop` | the 8192-byte buffer | find `0x47`, take 188 bytes, keep the rest | the dispatch |
| dispatch in `mainLoop` | `pidPayload`, one handler per PID | make handlers, `reset`, `append` | payload handlers |
| `PaketisedPayloadHandler`, `PaketisedESPayloadHandler` | `m_Counter`, `m_Error`, `m_PayloadStart`, `m_Data` | `append`, `reset`, `supplyStream` | a stream object, the PES parser |
| `PATHandler`, `PMTHandler` | `m_PAT`, `m_Services`; `m_PMT`, `m_Program` | `supplyFrame` | the dispatch (callbacks that add handlers), `createVideoStream`, `createAudioStream`, `programSpawned` |
| `FileSource` | `m_File`, `m_Content`, `m_Offset` | `doStart`, `doStop`, `readDataInto`, destructor | the C library |
| `DVBSource` | `m_Frontend`, `m_DemuxIO` | the same | libdvbv5 |
| `VideoTranscoder`, `SoftwareVideoTranscoder` | the pool of frames, `m_DecodedFrame`, the codec contexts | `init`, `reset`, `supplyFrame`, `insertFrame` | decoder, encoder, the output stream |
| `CoreIVVideoTranscoder` | pipeline flags, four components | `init`, `supplyFrame`, the OpenMAX callbacks | `omx::Client`, `Component`, `Tunnel` |
| `omx::Client` and its parts | registry of weak references, enabled ports, tunnels | creation, callbacks, buffers | OpenMAX IL |
| `main` with `MySource` | - | start, poll, leave | `FileSource` |
| `AirStream` | a buffer, a PAT | an older capture loop that nothing uses | libdvbv5 |

How they interact: a caller starts a source, which creates the reader thread.
The reader calls `readDataInto`, finds packets, and gives each to the handler
of its PID. A packet that starts a payload unit first resets the handler, which
supplies the previous unit to the handler's stream: a table handler, which adds
handlers to the same table, or a stream of the application, which may be a
transcoder. All of that runs in the reader thread, without the mutex. The
callers share with it two plain `bool`s, the members of the derived source, and
the life of the object.

What is hard: the reader and `stop()` use the same file and flags without a
common lock; the object is destroyed from the outside in, while the reader still
calls its outer part; packets are lost and repeated and only four bits tell;
tables change the table that is being walked; exceptions leave `supplyFrame`
half way; frames arrive in decoding order and leave in presentation order
through a pool of shared references.

What makes each part correct: one reader at a time and none left behind, and a
`stop()` that returns (capture thread); frames that are beginnings of one unit,
and no whole unit missing (payload); every wanted stream fed, no other, nothing
replaced (dispatch); no file leaked or used after it was closed, and an end of
stream that means one (file source; the code keeps none of the three on every
path, and the properties say on which it does); no frame lost, doubled, aliased or out of
order (transcoder).

## 2. The modules

| module | models | checked by | proved in |
|---|---|---|---|
| `PayloadHandler` | the handler's `append` and `reset` as operators on a record | through `PidTransport` | |
| `PidTransport` | one PID: multiplexer, lossy channel, dispatch, stream | `PidTransport.cfg` | `PidTransportProofs` |
| `PacketScanner` | what the framing promises, abstractly | as `ImplementsScanner` | |
| `TsFraming` | the read buffer of `mainLoop`, which implements it | `TsFraming.cfg` | `TsFramingProofs` |
| `EsPayload` | how an elementary stream's unit is parsed and supplied | `EsPayload.cfg` | |
| `TSSource` | the capture thread and its callers | through `DVBSource` and `FileSource` | `TSSourceProofs` |
| `DVBSource` (extends `TSSource`) | the DVB source, a refinement of it | `DVBSource.cfg` | `TSSourceProofs` |
| `FileSource` (extends `TSSource`) | the file source, a refinement of it | `FileSource.cfg` | `TSSourceProofs` |
| `MainProgram` (extends `FileSource`) | `main()` | `MainProgram.cfg` | `MainProgramProofs` |
| `Demux` | the table of handlers over all PIDs | `MCDemux`, `Demux.cfg` | `DemuxProofs` |
| `ReorderBuffer` | what the transcoder promises, abstractly | as `ImplementsReorderBuffer` | |
| `VideoTranscoder` | the pool of decoded frames, which implements it | `VideoTranscoder.cfg` | `VideoTranscoderProofs` |
| `CoreIVTranscoder` | `supplyFrame` of the hardware transcoder against the OpenMAX callbacks | `CoreIVTranscoder.cfg` | `CoreIVTranscoderProofs` |
| `OmxClient` | the registry the OpenMAX callbacks go through, and `init` called again | `OmxClient.cfg` | `OmxClientProofs` |
| `AirStream` | the older capture loop | `AirStream.cfg` | |

**PayloadHandler, PidTransport.** A handler is a record with the fields of the
class; the bytes of a packet are one value, the packet's number. `AppendPacket`,
`Reset` and `Dispatch` are the code's functions. Around them, the external part:
a multiplexer that numbers packets and stamps counters, and a channel that loses
at most `MaxLoss` packets in a row and repeats a packet at most once, right
after it, which is what the transport stream format allows. `Arrive`, `Lose`
and `Repeat` are the three fates of a packet, `EndOfStream` the final reset.

**TsFraming, PacketScanner.** A byte of the stream is its position, so that a
byte lost or misplaced shows, and `sync` is the set of positions that hold
`0x47`. `Read` puts a piece of any length behind what is left, `TakePacket` and
`SkipByte` are the two branches of the scan, `KeepRest` the `memmove`. A read
that is given no room returns 0 like one at the end (`ReadNothing`), which is why
it matters that there is always room. The abstract module scans the whole stream
in one pass; `next` and `packets` are mapped to the position of the read pointer
and the first bytes of the packets taken.

**EsPayload.** One action, `SupplyStream`: the parse of a unit's header and what
the stream gets. Units are of any size with any header. The flags of the table
carry the number of the unit they were parsed from.

**TSSource.** `pc` says where each caller is, `reader` where the reader thread
is. Each read or write of a shared variable is a step; the steps of a call are
one action each (`BeginStop`, `DoStop`, `ClearStarted`, `Join`). `running()` is
one step, since it holds the mutex and `m_Started` changes only under it, and
`m_ThreadFinished` is read once. The unlocked `bool`s are a data race in the
sense of C++; between their uses lie calls the compiler cannot see through, so
the model lets each read see the last write. Virtual functions are left open:
`doStart` returns or throws, `readDataInto` returns data, returns 0 or throws.
The destructor may only be called by `Owner` when no call is in progress, and
`Enter` says that nobody calls a source that is being destroyed: both are the
callers' duty. `"dying"` is the time from the destruction of the class that
implements the callbacks to the end of `~TSSource`.

**FileSource.** Extends `TSSource` with the file handle. `m_File` can be
`"garbage"` (the constructor leaves it unassigned) and `"dangling"` (between
`fclose` and the assignment of null). `readDataInto` is split at its test of
`m_File`, since `doStop` may run in between. A read of a closed file is
undefined and may return anything. An `fread` that fails returns what it had
read, or 0, which the reader takes for the end of the stream; only the next call
sees `ferror`, which stays set (`ferror`), and throws. A `doStart` that refuses
the file's format throws with the file open: `refused` counts those calls, and
the next `fopen` overwrites `m_File`. Each step is a step of `TSSource` or leaves
its variables alone, so the module refines it with the identity mapping.

**DVBSource.** Extends `TSSource` with the frontend and the demultiplexer's
descriptor. `m_DemuxIO` is `"stale"` between `dvb_dmx_close` and the assignment
of -1. `readDataInto` is split at its test of `m_DemuxIO`, as in `FileSource`. A
failed or an empty read is an exception, so a DVB capture never sees an end of
its input and never takes the step of `mainLoop` that flushes the handlers: the
last unit of each PID is not supplied. Constructor and destructor are
`OpenFrontend` and `CloseFrontend`.

**MainProgram.** One caller which starts, polls, and leaves `main`: the steps of
`FileSource` in the order in which `main.cpp` takes them.

**Demux.** `handlers` is `pidPayload`, where a handler is `None`, the PAT's, a
PMT's, or feeds a stream object, which is named by the PMT that created it and
its PID. A unit is one value, intact or damaged. `StartUnit` is a packet that
starts a unit: the dispatch makes the PAT handler, resets the PID's handler
(which supplies the unit before) and begins the next. `FlushHandler` walks the
table at the end of the input, and the table may grow behind it or ahead of it.
Whether the application creates each stream and wants each program is left open.
The table parsers `dvb_table_pat_init` and `dvb_table_pmt_init` are external. An
intact table they take. The handlers test their result for -1 only, so a damaged
table has three fates: it is refused with -1 and nothing happens (`Refuses`); it
is taken with those of its entries that the parser got to, whatever it returned,
and kept (`Takes`, `Entries`; `latched` remembers that it was damaged); or the
parser returns another error before it has made a table, and the handler
dereferences null, which ends the program (`Crashes`).

**VideoTranscoder, ReorderBuffer.** `pool` holds references to frame objects,
`content` the number of the decoded frame in each. An action is one call of
`supplyFrame` that decodes a frame: it is rejected (no encoder, no PTS), held
(PTS and DTS differ), or flushes; a flush may fail at any frame. `insertFrame`
is `Kept`, `Found` and `Inserted`, the overflow, the search and the shift. The
abstract module keeps a set of waiting frames, with `Capacity = PoolSize - 1`.

**CoreIVTranscoder.** `reader` says where `supplyFrame` is, `decoderEvent` and
`encoderEvent` where the two port-settings callbacks are. The three `bool`s they
share are each read and written in a step of its own, since only the encoder's
callback takes `m_Mutex` and `supplyFrame` does not. Each call into a component
in `supplyFrame` succeeds or throws; `setupFailed` remembers that a setup was
left after its first tunnel. The buffers of a port are counted by where they are:
at the client, at the component, in the hands of `supplyFrame`, or lost. The
decoder may report a change of its output at any time and any number of times
(`asked`: at least once), and so may the encoder after it started (`reported`),
one callback of each at a time. The encoder's callback takes its output port down
and up again: the port's buffers go, wherever they are, and one that
`supplyFrame` holds then is `stale`, no buffer any more, when it is given to the
encoder. That use of a freed buffer is undefined; the model lets the call succeed
or fail and change nothing else.

**OmxClient.** What `init` creates and frees, call by call, and the registry
`m_Components`, a map from the address of a component to a weak reference. The
addresses of freed components may be given to new ones, as an allocator does;
`Lock` gives a component only while a member, the tunnel or a callback holds it.

**AirStream.** The buffer is the packets at its places; `Read`, `ConsumePacket`
and `ReadAgain` are the three loops of the constructor, `ProcessTs` all of
`processTs`.

Definitions marked `faulty` are plausible mistakes in the code. No specification
uses them; substituted for the definition that follows them they violate a
property, which shows that the property depends on that code.

## 3. The runs

| run | shows |
|---|---|
| `pid_transport` | Frames are beginnings of units (`FramesAreUnitPrefixes`), a unit without a loss arrives whole (`IntactUnitsDelivered`), frames come in order and no packet's payload twice but for a repeated unit start (`FramesInOrder`), only the first frame is empty (`EmptyOnlyFirst`), a repeat inside a unit changes nothing (`RepeatIgnored`). A repeated packet that starts a unit does: `reset` comes before `append`, so the stream gets that packet alone as a frame first. |
| `ts_framing` | However the stream is cut into reads, the packets taken are those of one scan over all of it, and the scan gets to its end (`ImplementsScanner`); a packet is whole (`PacketsWhole`); a full buffer is never taken for the end (`EndMeansAllRead`). |
| `demux` | Handlers are never replaced, only wanted streams are fed, an intact table is missed only if a damaged one was taken in its place, never for one that was refused (`TablesTaken`), a fed stream gets each unit once and in order (`EveryUnitOnce`). |
| `pes_finding` | Violation: a unit whose stream id the PES parser refuses with -2 is supplied from two bytes before its beginning, with the stamps of another unit. |
| `dvb_source` | No reader is left behind (`NoOrphanReader`), only one exists (`OneReader`), `stop()` returns (`StopCompletes`) though reads fail, a descriptor is used after it was closed only while a `stop()` is in progress (`StaleReadOnlyInStop`), devices are closed on every path (`DevicesNotLeaked`), and the DVB source implements `TSSource`. |
| `file_source` | Whatever fails, the file source implements `TSSource`, its progress included; the files it leaves open are one for each start that refused the format, but for the last if the destructor finds it, and no other (`HandlesAccounted`); a capture that nobody stops ends at the end of the file or after a failed read (`EosMeansAllDelivered`); and `m_ThreadFinished` means what it says (`FinishedMeansEnded`). |
| `file_close_finding` | Violation: `doStop` closes the file under a reader that uses it. |
| `main_program` | The program as written avoids the faults of its source: it destroys the source only when nothing calls it (`NoCallbackWhenDying`, with its reason `FinishedBeforeDying`), and it ends, whatever fails (`MainTerminates`). That it reads the whole content is proved (`WholeFileDelivered`). |
| `video_transcoder` | No frame object is in two places, the pool is sorted, every frame is accounted for, encoded once, in order, and the pool implements the reorder buffer. |
| `coreiv` | `m_PipelineSet` can be relied on (`PipelineReady`), no tunnel is made twice unless a setup failed half way (`TunnelsOnce`), no report of the decoder is lost, however often a setup fails (`ReportNotLost`), the port is idle while the encoder's first report reconnects it, and only a later report can take a buffer away from `supplyFrame` (`OutputPortStable`), and buffers are conserved (in `InductiveInv`). |
| `omx_finding` | Violation: after a second `init()` a new component's events are dropped or go to an old one, since `m_Components` keeps the entry of a component that was freed. |
| `airstream_finding` | Violation: from its second read on `AirStream` processes old packets again and not the new ones. |

Deadlock is checked in `coreiv`, where the decoder may always report, and not
elsewhere: the other systems may stop (the stream ends, the callers stop calling,
a bound is reached). Where something must happen, a
liveness property says so.

### Bounds, and why they are enough

- `pid_transport`: a counter of 4 values, 8 packets, at most 2 lost in a row.
  The counter wraps twice; three units with losses before, in and after the
  middle one fit. The proofs hold for every counter range and every loss of at
  most `CtrMod - 2` packets; that limit is the code's: after 15 lost packets the
  next looks like a duplicate and after 16 like the next.
- `ts_framing`: packets of 3 bytes in a buffer of 5, so that a rest of one or two
  bytes is moved and the buffer fills; streams of up to 9 bytes, three packets or
  garbage before, between and behind fewer, with every set of sync positions. The
  proofs hold for every packet, buffer and stream size.
- `dvb_source`, `file_source`: two callers, one of them the owner; the mutex
  serialises more. The state space is finite without a bound on calls or
  restarts. The file is two reads long, so that there is a first, a last and
  the end. `MaxHandles`, three, is the number of files after which `fopen` fails,
  so that one is left by each of two refused starts and a capture has a third;
  every one of `open`, `format` and `read` may fail.
- `pes_finding`: two units, one to leave its stamps and one to pick them up.
  `omx_finding`: four addresses and five components, since `init` makes four.
  `airstream_finding`: the buffer's five places; the second packet read shows it.
- `main_program`: twelve reads; the program is sequential but for the reader.
- `demux`: five PIDs, two programs that share a PID, a network entry which is
  no program, a stream of an unsupported kind on a PID that another program uses
  for video. Three units for the PAT, the first PMT and the shared stream: one to
  be taken or refused, one behind it, and one to make the reset; two for the
  second PMT and one for the last stream.
- `video_transcoder`: a pool of 4, so that three frames wait; five frames
  overflow it and leave one to flush; two times suffice for frames in, out of
  and of equal order.
- `coreiv`: three input buffers, so that one is lost, one is at the decoder and
  one is free; two output buffers, one lost and one in use. Frames and reports
  are unbounded; more than one report of the encoder are told apart from one, as
  are more than one setup of a tunnel.

### Fairness

`TSSource` assumes weak fairness of the reader's steps and of the steps of a
call in progress: the operating system runs a thread that can run. It does not
assume that anybody makes a call. A caller that waits for the mutex is only
served fairly inside the destructor, where no other caller exists. Under it
`StopCompletes` says that once `stop()` holds the mutex it returns. That rests on
`readDataInto` returning (`ReadReturns` is a step of the reader): a read that
blocks for ever, as a DVB device without a signal may, blocks `stop()` too.
It also rests on the handlers returning: `Handle` and `Flush` stand for all that
`mainLoop` does with a packet, the callbacks and the stream's `supplyFrame`
included. `StopCompletes`, `MainTerminates` and the progress that both sources
implement assume that. `CoreIVVideoTranscoder::supplyFrame` does not always return: it waits
for an input buffer without a limit, and a reader that is stuck there keeps
`stop()` waiting.
For `DVBSource` that a read of the device
returns, with data or with an exception, is an assumption of its own.
`main_program` also assumes that `main` goes on polling, which the loop does.
`CoreIVTranscoder` assumes no fairness and states safety only: a decoder that has
reported its format and waits for its tunnel may keep its buffers, while
`supplyFrame` waits for one at line 486 and does not get to the setup at line 404.
`TsFraming` assumes that the loop runs and that a read before the end returns
something. The other modules state safety only.

## 4. The proofs

Each proof module extends the module it is about. The constants are arbitrary,
under the assumptions named in the modules (`CtrModAssumption` and the like).

- **PidTransportProofs.** The inductive invariant is `CounterTracksLoss`: while
  the handler is not in error, the last packet it stored is the last one that
  arrived and its counter lies behind the multiplexer's by the packets lost
  since, modulo `CtrMod`. With at most `CtrMod - 2` of them, "equal" can only
  mean a repeat and "next" only no loss. `FramesAreUnitPrefixes`,
  `EmptyOnlyFirst` and `RepeatIgnored` follow. `HistoryInv` adds the past: while
  no packet of the open unit was lost the handler holds all of them
  (`OpenUnitsCollected`), and what it holds comes after every frame
  (`DataComesNext`), but for a repeated unit start. So `IntactUnitsDelivered` and
  `FramesInOrder` hold for every loss the counter can tell.
- **TSSourceProofs.** `CallsSeeReader` says what each place inside a call knows
  of `m_Started` and the reader; it holds since the mutex belongs to exactly one
  call, which `TypeOK` includes. `OwnerDestroys` keeps the destructor alone.
  For `DVBSource`, `DvbInductiveInv` says what each step of a call knows of the
  descriptor. `DevicesClosed` follows from it, and `StaleReadsConfined`: while a
  reader reads, either `m_Started` is set, and then the descriptor is open or a
  `stop()` is about to clear it, or somebody joins the reader. Every
  step is a step of `TSSource` or leaves its variables alone (`DvbKeepsProtocol`),
  so the safety of `TSSource` carries over (`DvbInheritsSafety`).
  `JoinDescends` is what `StopCompletes` rests on besides fairness: while a
  `stop()` joins, each step of the reader lowers `ReaderRank`, which is 7 at
  most, and nobody else touches it.
  The steps of `FileSource` map in the same way, whatever fails
  (`FileInheritsSafety`). `FileInvariance` says whose file is in `m_File`: that of
  the capture from `doStart` to `doStop`, and otherwise one that a refused start
  left. So the open files are accounted for (`HandlesAreAccounted`): nothing but
  the exception of `fileSource.cpp:66` leaves one open. `ReaderFileInv` says what
  the reader finds. With preloading there is no file, so it uses no closed one
  (`PreloadNeverReadsClosed`); without, the file is open and was read from its
  beginning until somebody takes the mutex to stop the capture, so a closed file
  is used only in a `stop()` (`ClosedReadsConfined`) and an end that nobody stopped
  is the end of the file, unless a read of it failed (`EndMeansWholeFile`). None of
  this assumes that anything succeeds.
- **TsFramingProofs.** What was not scanned yet is the end of what was received,
  in order, at its place in the buffer, and outside a scan it is less than a
  packet. So a packet is whole, and there is room for a read, for any sizes, and
  what is left at the end of the stream is no packet (`EndIsComplete`). Each step
  lowers `ScanWork`, which begins at three times the length plus one
  (`ScanEnds`): the scanner cannot go round without advancing.
- **MainProgramProofs.** `FinishedBeforeDying`: `main` starts the source once,
  so `m_ThreadFinished` cannot be stale, and it leaves only after it saw it
  (`SourceFinishedBeforeDying`). `ReadsWholeContent`: the one capture starts with
  `m_Offset` at 0 and ends only with it at the end (`WholeFileDelivered`). Each
  step lowers `MainWork`, what is left to read and to do of both threads
  (`MainRunsOut`), so the program makes a bounded number of steps, whatever the
  interleaving.
- **VideoTranscoderProofs.** The pool and `m_DecodedFrame` together hold each
  frame object at most once, and what waits is sorted, for any pool size.
  `HistoryInv` adds that what waits was decoded after all that was encoded, while
  no flush has failed; `FramesAccounted`, `EncodedOnce` and `OutputInOrder` follow.
  Every step is a step of `ReorderBuffer` (`PoolImplementsBuffer`), which rests on
  the number of waiting frames being the number of distinct references.
- **DemuxProofs.** `TableRooted`: a PMT's handler is on a PID that the PAT lists,
  a table other than the PAT's exists only after the PAT's. `FedFromStart`: a
  stream has got something if and only if its handler has begun to collect, and
  its handler is in the table; a stream that is attached during a reset is not the
  one that is reset. So each unit goes to its stream once (`EveryUnitOnce`).
  `TablesNotMissed` holds since a handler that was reset with an intact unit has a
  table, that one or a damaged one before it.
  `WantedListened` is the other direction: what an accepted program lists has a
  handler for good (`ProgramsListened`), and once a PID was flushed at the end its
  stream has got all of it (`NothingWithheld`). For any PAT, PMTs and PID range.
- **CoreIVTranscoderProofs.** `SetupSoFar` says what each place of the setup
  knows of tunnels and components, `EncoderSetLast` that the callback of the
  encoder's first report writes `m_EncoderSet` last, so that before it nobody has
  an output buffer (`OutputPortNotTorn`), and `NeedCleared` that a setup is
  forgotten only when it was made (`ReportsKept`). For any number of buffers and
  reports. A reader that waits finds a buffer, or the decoder has one, or all were
  lost (`WaitJustified`), and then it waits for good (`LossIsFinal`).
  `SetupNotRepeated` is the action property that a report which races the end of
  a setup begins no second one.
- **OmxClientProofs.** The run shows `EventsTrigger` violated; the proofs say how
  much of it is true, for any addresses and any number of components.
  `RegistryKeepsFirst`: the entry of an address is the first component made
  there, since `emplace` keeps it and nothing removes it. With `HandledByFirst`
  (an event dropped for such a component finds it held by nobody, so it is no
  member and becomes none) an event of a component in use is lost only if its
  address was used before (`OnlyReuseLosesEvents`), which needs a destroyed tunnel
  (`FirstInitIsHeard`, by `OneLiveAtAddress`). `InitProgress` says which members
  are alive at each place of `init`; so the tunnel takes no freed component and
  frees none twice, although `init` may be left by an exception and keeps two
  members of the last one (`TunnelKeepsLive`). `InductiveInv` holds in
  TLC for five addresses and six components, too.

Only model-checked, since fairness and ENABLED are out of the prover's reach:
that the steps which the theorems above bound are taken. `StopCompletes`,
`MainTerminates` and the fairness part of `ImplementsTSSource`,
`DvbImplementsTSSource` and `ImplementsScanner` stay with TLC.
`EsPayload` and `AirStream` only show how a statement fails and have no theorems.

## 5. What the models leave out

- The bytes: packet headers, tables, PES headers and pictures are values that
  differ only in what the control looks at. `StreamType` is video, audio or other.
- A PES unit that is a header without payload, which supplies nothing.
- A damaged table with entries that were not sent; one that is taken has some of
  those that were.
- A thread that cannot be created after `m_Started` was set (`tsSource.cpp:34`),
  and callbacks that call back into the source: `stop()` would wait for a reader
  that waits for the mutex.
- Presentation times that wrap at 33 bits, and frames whose memory the decoder
  reuses while they wait.
- `MyVideoStream` and `MyEncodedStream` of `main.cpp`, which write files.
- In the CoreIV transcoder: `init` called again, which creates new components but
  keeps `m_PipelineSet` and `m_EncoderSet`; the
  flags of a buffer (`m_FirstPacket` decides between them); an exception of the
  output stream in a callback, which would end the program; an input buffer that
  is returned while the client is being destroyed.
- The OpenMAX buffer wrappers, which nothing calls, and the streams and their
  metadata, which are constructors and accessors.
- The size of the header that `dvb_mpeg_ts_init` returns is taken to be positive
  (`tsSource.cpp:92` adds it to the packet's address without a test).

Behaviour that contradicts a comment and that no run is about:

- Of two programs that share a PID the second one's stream is never fed
  (`tsSource.cpp:121`), although `tsSource.h:43-44` says of a program that "Once
  spawned its streams will continuously receive payload".
- A failed `fread` may return 0 (`fileSource.cpp:27`), and the capture ends as at
  the end of the file, although `tsSource.h:68` says "Zero means EOS reached".

Behaviour that looked wrong while the models were written, contradicts no
comment or test, and that no run expects:

- A `doStart` that refuses the format leaves its file open, and the next one
  forgets it (`fileSource.cpp:66`, counted by `HandlesAccounted`). The `fread` that
  preloads is not tested (`fileSource.cpp:72`), so that the content may be shorter
  than it is taken to be.
- A damaged PAT or PMT for which the parser returns an error other than -1 is
  accepted: dereferenced as null or kept, so that no later table is looked at
  (`patHandler.cpp:21`, `pmtHandler.cpp:26`).
- A second report of the encoder frees a buffer that `supplyFrame` may hold
  (`coreIVVideoTranscoder.cpp:299`), and `supplyFrame` may wait for ever for an
  input buffer (line 486).
- An exception in a flush leaves frames in the pool that were encoded already;
  the next flush encodes them again (`videoTranscoder.cpp:149`, see `Flush`).
- After a restart `running()` may say false although the capture runs, until the
  new reader has cleared `m_ThreadFinished` (`tsSource.cpp:58`).
- A preloaded file that is started again ends at once, since `m_Offset` is kept
  (`fileSource.cpp:31`).
- The destructor of a file source that was never started closes a pointer that
  was never assigned (`fileSource.cpp:16`).
- A second `init` of the CoreIV transcoder keeps `m_PipelineSet`
  (`coreIVVideoTranscoder.cpp:362`); a component holds its client, so that the
  client's destructor does not run before the last component's.
- The encoder of the software transcoder keeps the size of the first frame.

## 6. Plan

Done, in this order: `PayloadHandler` and `PidTransport`; `VideoTranscoder` with
`ReorderBuffer`; `TSSource`; `FileSource`; `MainProgram`; `Demux`;
`CoreIVTranscoder`; `TsFraming` with `PacketScanner`; `DVBSource`; `EsPayload`;
`OmxClient`; `AirStream`.

Left:

1. `OmxClient` and `CoreIVTranscoder` composed, so that a second `init` meets a
   `supplyFrame` of the first.
2. A theorem about `EsPayload`: under which headers a unit's time stamps are its
   own.
