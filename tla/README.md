# TLA+ models of gohmacsecret

gohmacsecret derives secrets from a FIDO2 security key: `Enroll` makes a
credential, `GetSecret` asks the key for the `hmac-secret` of that credential
and a salt. It does so without cgo, over the raw HID devices of Linux, macOS and
Windows. This directory holds TLA+ models of it, the configurations TLC checks
them with, and theorems about them that TLAPS checks. `PROJECT.json` lists, for
every definition, the lines of `src/` it stands for.

    tlc -workers 2 -config CtapHid_platforms.cfg MCCtapHid.tla
    tlapm SessionProofs.tla

## The system

| Component | Source | State | Operations | Module |
|---|---|---|---|---|
| Facade | `hmacsecret.go` | package-level `session`: client, closer, `info`, PIN tokens per (rpID, permission) | `Enroll`, `GetSecret`, `getSession`, `connectReal`, `sessionPINToken`; `discoverOne` | `Session`; `Discovery` |
| Commands and PIN protocol two | `ctap2/commands.go`, `ctap2/pin.go` | none of its own; a key pair per exchange | `GetInfo`, `GetPINToken`, `MakeCredential`, `GetAssertion` | `HmacSecret` (GetInfo: `Session`) |
| Authenticator data | `ctap2/authdata.go` | none | `parseAuthData` | `AuthData` |
| CTAPHID framing | `ctap2/ctap2.go` | channel, device, `OnKeepAlive`; locals of `call` | `NewClient`, `call`, `sendRequest`, `readResponse`, `sendCBOR` | `CtapHid`, `Exchange` |
| Report descriptors | `hid/descriptor.go` | locals of the scan | `parseReportDescriptor` | `ReportDescriptor` |
| Discovery and opening | `hid/hid_linux.go`, `hid/hid_windows.go`, `hid/hid_darwin.go`, `hid/hid_other.go` | locals: handles, preparsed data, iterator and services held | `Discover`, `describe`, `probeDevice`, `describeService`, `Open` | `Discovery` |
| macOS device | `hid/hid_darwin.go` | `reports` (capacity 1), `ready`, `stopRunLoop`, `runLoopDone`, the run loop | `Open`, `Read`, `Close`, `pump`, `onReport` | `DarwinHid`, `LatestReport` |
| Windows device | `hid/hid_windows.go`, `hid/hid_report.go` | handle, `outLen`; event, `OVERLAPPED` and buffer per I/O | `Read`, `Write`, `Close`, `overlappedIO`, `buildOutputReport` | `WinHid` |
| Linux device | `hid/hid_linux.go` | a file | `Read`, `Write`, `Close`, the verdict of `describe` | environment of `CtapHid`; the verdict in `ReportDescriptor` |

**How they interact.** Everything is called synchronously from the top down. A
call of the facade goes through `getSession` (first use: discover, open,
`NewClient`, `GetInfo`, `checkSupport`; afterwards: the cached session), then
`sessionPINToken` (a prompt and `GetPINToken` unless the token is cached), then
one command. A command is one or two calls of `sendCBOR`, each a request cut
into 64-byte reports and an answer put together from them. Upwards there is one
callback: a keep-alive whose status differs from the last runs `OnKeepAlive`,
with which the facade tells the user to touch the key. The only goroutine of the
library is macOS's `pump`; it and IOKit's callback share four channels with the
reader. The authenticator, the operating system's report queue, other programs
that talk to the same key, and the user are outside `src/`; the models have them
as actions of their own, marked external in the map.

**What is hard.** No lock protects the session. `Read` gives up after three
seconds on macOS and Windows, while the authenticator goes on: its answer comes
later, and there is nothing in a CTAPHID packet that ties an answer to its
request. On macOS the newest report replaces the one waiting. On Linux every
program that has the device open sees every report. `Write` may fail half-way
through a request. Windows may complete an I/O after it was given up. `Close` on
macOS races with the pump. Keys are plugged in and out, also between listing the
devices, probing one and opening it; Linux gives a node that is free to the next
device. Error paths must close what was opened and nothing else. The length
fields and sequence numbers have edges (57, 59, 128, 65535), and a Windows
device says itself how long an output report is.

**What makes each component correct.**

* Facade: it works with an open handle of a supported key, leaks none, sends a
  token exactly when one is needed and only for what it was granted, asks for a
  PIN once per relying party, narrates a touch at most once per call, and a
  failed attempt to connect never prevents a later one.
* Discovery: it finds every key that is there all the while, opens what it found,
  and leaves nothing behind where it fails.
* Commands: the secret is that of the credential and salt asked for, tokens are
  tokens, the right PIN never costs a try.
* Authenticator data: accepted and read exactly as its layout says.
* Framing: an answer is byte for byte the one to its own request, after a failure
  at least a whole one to some earlier request, nothing is left over for the next call, the authenticator only sees whole requests, the
  channel is the one allocated to us, every call returns.
* Descriptors: a device is taken for a FIDO device iff its descriptor says so.
* macOS: the reader gets the newest report and none twice, the callback never
  blocks the run loop, `Open` returns a served device, `Close` ends and leaves
  nothing running.
* Windows: reports are read in order and sent whole, each loss is the price of
  one Read given up, and none happens between two reports that are read.

## How the modules fit together

    Session            tokens, handles; a command is one step that may fail
      Discovery        how a connection gets its device: found, or why not
        ReportDescriptor   what Linux takes for a FIDO device
      HmacSecret       commands; a request and its answer are one message each
        Exchange       what a call promises, whatever failed before
          CtapHid      requests and answers as packets (refinement)
            Faults:    "timeout", "lost"  <- WinHid     "latest" <- LatestReport
                       "foreign", "write" <- the Linux device
                                              LatestReport <- DarwinHid (refinement)
    AuthData           what a command makes of authenticator data

Each layer takes from the one below what that layer's properties say.
`Session` lets a connection be made when a key is plugged in, and fail when none or
several are: that is `Discovery`'s `FindsThoseThatStay` and `Verdict`.
`HmacSecret` has whole answers in order, each read once, of which a call may leave one
to the next: that is `Exchange` without `Garble`, and `CtapHid` implements `Exchange`
under every fault. `CtapHid`'s queue is a FIFO or, with fault `"latest"`, a slot for the
newest report: `DarwinHid` is shown to implement that slot (`LatestReport`), by TLC
and by proof. `"lost"` is what `WinHid` shows a given-up Read may cost: one report. It
came while the Read was being cancelled or, where the wait failed and nothing was
cancelled, comes later, perhaps in a later call; but `readResponse` reads only while the
authenticator owes it a report of some answer, so `CtapHid` has that report come, and
lost, when the Read gives up. In the middle of an answer that is being read none is lost
(`LossesComeFirst`). A Windows write that gave up may be sent all the same
(`WriteDone`), but not after a later one, which is the second disjunct of
`WriteFails`.

### CtapHid

`pc` is where the one running call is: `sendRequest`'s loop (`send`),
`readResponse`'s loop (`recv`), between calls (`idle`), or with the device
closed after a failure while connecting (`closed`). `tx` and `rx` are the
locals of the two loops; `SendPacket` is one turn of the first, and `ReadFirst`,
`ReadContinuation`, `ReadKeepAlive`, `ReadError`, `ReadRefused`, `ReadFails` are
the ways one turn of the second can go. Call 1 of a connection is `NewClient`,
call 2 `GetInfo`, the rest are commands. Bytes are pairs (call, position), so
that every misplaced byte shows; packet payloads, sequence numbers and the
length field are scaled down by constants. The authenticator's own packets are
cut by `Frames`, by position, independently of `sendRequest`'s loop.

### Exchange

The abstract command channel, without packets, queues or channels: the
authenticator answers requests in order (`Answer`), and a call returns an answer not
returned before, given on this connection (`Return`), or fails (`Fail`). Where the
device drops reports between others it may also return a mixture (`Garble`), which
is what happens on macOS: after a timeout the rest of a half-read answer is replaced
by packets of the next, and with matching sequence numbers `readResponse` joins them.
`CtapHid!ImplementsExchange` maps each outcome to the call whose answer it is, byte
for byte (`AnswerOf`), and -1 if it is nobody's. It holds without any condition;
`AnswersItsRequest` adds that the answer is the call's own until something fails.

### Discovery

`pc` is where `connectReal` is: `scan` (with `probe`, the device being described), the
verdict of `discoverOne` (`none`, `many`, `open`), the steps of `Open`, and `opened` or
`failed`. Each action is one call to the operating system with what the code does about
its result, and devices are plugged in and out between any two (`Plug`, `Unplug`). `at`
has the path of each device; `MayGet` has how the systems give paths out: Linux reuses
hidraw nodes, macOS never reuses an entry ID, and a Windows interface path belongs to
its device. The last is an assumption on which the Windows part of `OpensWhatWasFound`
rests: it holds for keys that report a USB serial number, while one without may inherit
the path of another of its model in the same port. `held` is what has been acquired and
not yet released. `allowed` is what the user may open: on Linux a key without a udev
rule cannot even be probed, so that the facade reports "no key found" and the hint about
permissions in `Open` (`hid_linux.go:80`) is not reached; `FindsThoseThatStay` is
therefore about allowed keys. Two things the models show and no property forbids: on
Linux the node of a key that was pulled out may be another device's when it is opened
(`OpensWhatWasFound` has it as its one exception), and on macOS the `CFString`s of the
property names are never released (`Kept`). `NothingLeftBehind` is about the way to the
open device. macOS's `Open` may still time out after that (`hid_darwin.go:262`), and
then does leave the device open: `DarwinHid!OpenTimeout`.

### Session

One `pc` per goroutine; an action is the code between two points at which it
waits for the device or the user. Handles are model values with the key they
were opened on; unplugging kills a key's handles for ever. `Supported` is
`checkSupport`, `CachedToken`, `StoredSlots` and `FreshToken` are
`sessionPINToken`'s map accesses, `SupportsHMACSecret`, `SupportsPINProtocolTwo` and `PINSet`
are what GetInfo says. `ConnectFails`, `NewClientFails`,
`GetInfoFails` and `Unsupported` are the error paths, with what each closes.
`FindsNoSession` is the look at the session, after which another goroutine may
look too. `Accepted` ends the checks, and `Publish` assigns `client`, `info` and
`tokens` one at a time and in any order, as nothing orders the writes of one
goroutine for another. One that reads in between may find a client with no info, or
another connection's, or no token map: where the code dereferences the one or writes
to the other, `Panics` ends the process. The two map writes of `GotToken` are one
step, and Go's own "concurrent map writes" fault is left out. `closer` is never read.
A key without a PIN that only speaks protocol one passes `checkSupport`
(`hmacsecret.go:137`) and fails at its first `GetSecret`.

### HmacSecret

One command at a time over a FIFO of requests and one of answers. `KeyAgreed` is
everything from a decoded key agreement to the request sent: a fresh key pair,
the shared secret, the encryption. Keys are symbolic; decrypting under another
key yields `Garbage`, because CBC does not notice. `TimesOut` leaves the answers that
come later to the next command, but for some of the oldest that may be lost. The
authenticator has a PIN or none (`pinSet`), changes its key pair after a wrong PIN,
and **keeps accepting the tokens it handed out**, as the fake of `ctap2`'s tests
does; one that invalidates them would make later commands fail, which the facade does
not recover from.

### AuthData and ReportDescriptor

Both are pure functions, checked over all bounded inputs: the input grows by one byte,
or one item, a step. `parseAuthData` is compared with `Layouts`, a description of the
data from its building blocks that does not read it from left to right. A credential ID
of length zero is `None`: appending nothing to nil gives nil (`Copied`), which is what
`commands.go:275` tests for. `parseReportDescriptor`'s loop body is the action
`ScanItem`; the history variable `items` lets the properties say what was really
declared.

### DarwinHid and LatestReport

`main` is the goroutine in `Open`, `Read` and `Close`, `pump` the other, `cb`
IOKit's callback on the pump's thread, with a step for each of `onReport`'s
three channel operations. Channels that are only closed are Booleans.

### WinHid

`Issue` is `overlappedIO` up to the wait, which then ends in one of four ways: with
the I/O done (`Completes`), with an I/O that failed or was short (`ResultFails`), with
the time up, after which the I/O is cancelled (`WaitTimesOut`, `Cancel`), or with an
error of the wait itself, after which it is not (`WaitFails`). A given-up I/O stays in
`pending` until Windows carries out the cancellation (`CancelDone`), ends it with an error
(`IOFails`) or completes it all the same (`ReadDone`, `WriteDone`), or for ever:
`CancelIoEx` may be refused, and its result is not looked at. A byte is a pair of a
packet's number and a position; `buildOutputReport` puts the report ID in front and pads
or cuts to the length the device negotiated (`outLen`), `stripInputReportPrefix` takes
the ID away again. A device whose output reports have no room for ID and packet gets cut
packets without an error, as the test of `buildOutputReport` expects: `WritesArrive` says
what is sent for every length. Input reports are taken to be whole; `Read` itself looks at
none but an empty one.

## What is checked

| Run | Shows |
|---|---|
| `hid_platforms` | Four calls on each of three platforms, all of them with authenticator errors, keep-alives, failing writes and unplugging. *Windows*: reads that give up while the authenticator goes on, a report lost just then. *MacOS*: reads that give up, and only the newest report kept, so that fragments of answers are lost. *Linux*: another program's reports between ours. Until something fails, answers are whole and their own and nothing is left over; requests are whole and the channel is ours always; calls return, on Windows and macOS although the authenticator need not answer. Whatever fails, the calls implement `Exchange`. |
| `session_one` | One goroutine that tries again and again, two relying parties, three kinds of keys plugged in and out: the safety properties of the facade, that calls return, and that trying again connects once one supported key is left in. |
| `session_two` | Two goroutines without a lock: handles in use stay open, touches are narrated once per call, and no more handles stay open than there are goroutines. (`NoLeak`, `PromptedOnce`, `SessionSticky` and `CommandsOnlySupported` fail here, and calls may panic, see below. `TokenFits` and `HandlesSupported` hold and are proved.) |
| `discovery` | Two keys and a keyboard plugged in and out at any moment, on each platform, for each set of devices the user may open: what is found and opened, and what is left behind. |
| `descriptor_nonzero` | Every descriptor of up to eight items that matter, without zero values: accepted only with both reports declared, and always if well formed. |
| `darwin_device` | Every interleaving of caller, pump and callback; the refinement of `LatestReport`. |
| `hmac_pin` | Four commands on a key with or without a PIN, right and wrong PINs, timeouts, late and lost answers: secrets, tokens, credentials, PIN tries. |
| `authdata_all` | Every authenticator data of up to ten bytes is read as its layout says. |
| `win_device` | Three I/Os of either kind, any of which times out, fails or loses its wait at any moment, with output reports of several lengths: what is sent, byte for byte, what is read, and what giving up costs, and when. |

The other runs each show the code departing from what a document or comment says
of it:

| Run | Code | Text |
|---|---|---|
| `hmac_stale` | After two timeouts `GetSecret` may return a value decrypted under the wrong key, without an error. | `hmacsecret.go:253` |
| `session_touch` | Only the first touch of a session is narrated, as `touched` is the connection's. | `ctap2.go:111` |
| `descriptor_zero` | Usage items of value zero are counted again and again, in place of the reports. | `descriptor.go:29` |

**What a timeout does.** The answer to a call that gave up comes later and is taken
for the next call's, as nothing in a packet says which request it answers. So
`AnswersItsRequest` and `NoResidue` hold as long as nothing failed before on the
connection; `ImplementsExchange`, `ChannelIsOurs`, `WholeRequest` and the liveness
properties hold unconditionally. What this means for commands, `hmac_pin` and `hmac_stale`
say: after **one** command that gave up, the connection is one answer behind, the kinds of
answer no longer fit, and later commands fail but are not misled: `SecretIsRight`,
`TokensGood` and `RightPINIsFree` hold up to then. After **two**, the connection may be
two answers behind, which is the length of `GetSecret`'s exchange: kinds fit
again, and a wrong secret is returned (`hmac_stale`). `MakeCredential`, an exchange of
one answer, returns an earlier request's credential after one timeout already;
`CredentialIsNew` is about commands before any.

### Bounds

* `CtapHid`: packets of 3 and 2 payload bytes and two sequence numbers instead of
  57, 59 and 128. Requests have length 1 (the nonce, GetInfo), 3 (one packet,
  full), 11 (the longest, five packets, the last full: sequence numbers and their
  byte counter wrap) and 12 (refused); answers 0, 2 (the channel), and 8 (four
  packets, the last padded, a sequence number reused). The byte counter wraps
  at `2 * SeqSpace`, as 256 is twice 128. Four calls are a connection (two
  calls), a call that fails, and the one that suffers from it, or a connection
  that fails, and the next. A second
  keep-alive repeats the status of the first; what the facade makes of a touch being
  wanted is `Session`'s.
* `Session`: three keys are all kinds there are; two handles let a leak show, two
  relying parties distinguish tokens. One transient fault suffices, and for two
  callers none, as every error path is also reached by unplugging. One caller is
  the documented use. For two callers, three handles are one more than they may leave
  open; what this run leaves out is proved for any number of callers (below).
* `Discovery`: two keys are the fewest that are several, the keyboard is what must not
  be taken for one; three paths let a node be reused while another stays free.
  Connecting may be repeated without bound.
* `HmacSecret`: four commands are two that give up, and two that receive. Two
  changes of the key pair are a wrong PIN before and during an exchange; once they are
  used up the authenticator answers no further wrong PIN. `hmac_stale` needs one.
* `AuthData`: ten bytes hold a two-byte fixed part, an AAGUID of one, a length
  of two, an ID and two CBOR items; four values per byte leave every combination
  of the two flags, and item lengths from 0 to 3.
* `ReportDescriptor`: the shortest well-formed descriptor has eight items.
* `DarwinHid`, `WinHid`: three or four reports and three I/Os are more than any
  channel, buffer or step of cancellation distinguishes. Packets of two bytes and
  reports of 0, 2, 3 and 4 are no room, a packet cut short, just enough, and padding.

Symmetry is used for the `HmacSecret` runs (relying parties, salts) and `session_two`
(callers, handles), which check no liveness.

### Fairness

* `ClientFairness`: a goroutine inside a call goes on. Go schedules it, and on
  Linux `Read` returns once there is a report.
* `DeviceFairness`: on the platforms where `Read` has no timeout, an authenticator
  that is plugged in works through its requests and ends each with an answer or an
  error; CTAP2 limits the wait for a touch. Without this assumption a call may
  indeed hang there. Where `Read` has a timeout, nothing is assumed of the
  authenticator: each action is conjoined with `Waits`.
* `MaxKeepAlives` is more than a bound: each keep-alive restarts the wait for a report,
  and nothing in the code limits the call as a whole, so `CallReturns` assumes on every
  platform that a request gets finitely many.
* `Session!FairSpec`: a call goes on, which includes that the user answers a
  prompt and the layers below return (`CallReturns`). `RetrySpec` adds a user
  who tries again.
* `Discovery!FairSpec`: a goroutine inside `connectReal` goes on, its calls to the
  operating system return. Nobody need plug anything in or out.
* `DarwinHid!FairSpec`: the pump's thread, the callback and a caller inside
  `Close` run; nobody need read, no report need come.

Several configurations allow deadlock: a bounded number of calls, reports or
input bytes has an end.

## What is proved

For every value of the constants, that is, any number of callers, keys, handles, relying
parties, salts, commands, devices, paths, reports, I/Os, descriptor items and data
bytes. The assumptions are those the modules name: `SessionAssumption` (the sets nest,
`None` is no member), `TokenAssumption` and `HmacAssumption` (`None` and `Garbage` are
neither tokens nor PINs), `CtapHidAssumption` (packets have room, a sequence number fits
in seven bits, an INIT answer is longer than its nonce, lengths fit their field),
`DarwinAssumption`, `WinAssumption` and `DescriptorAssumption` and `AuthDataAssumption`
(bounds and lengths are natural numbers, items have the parser's keys and at most three
bytes), `DiscoveryAssumption` and `ProbeAssumption` (authenticators and permitted
devices are devices, `None` is none). Some statements have a hypothesis of their own:
that `Callers` is a singleton, or finite, or that no usage item is zero.

The proofs of component `X` are in `XProofs`, which extends it. Each begins with the
strengthenings that make the component's invariants inductive and their conjunction
`IInv`, all of which TLC found to hold on the runs' instances before they were proved.

**SessionProofs.** `InductiveInvariant` is `Spec => []IInv`. The safety properties
are not inductive by themselves. An error path closes the caller's handle, so
`NoUseAfterClose` needs `ConstructingIsPrivate`: a handle still being set up is
neither the session's nor another caller's. `TokenFits` needs `TokensScoped`
(what the cache holds is filed under what it was granted for) and `TokenPending`
(a caller that has not got its token has none). `HandlesSupported` says that the
session's handle, and any in use, is a key's with hmac-secret.
`TouchAtMostOncePerCall` needs `TouchMarked`. There is one step per action, and
`TypeCorrect`, `HandlesStayOpen`, `TokensFit`, `OnlyHmacKeys` and
`OneNarrationPerCall` follow.

For one caller, `SoloInv` adds that it meets the session either not there, or
complete, or half-published by itself (`SoloSession`, `SoloPublishes`), so that it never
panics; that what the session says of the PIN is about its own key
(`SoloSupported`); and that it prompts only with an empty slot, and a relying party's
slots fill together with its one prompt (`SoloPrompts`). `OnlySupportedKeys`,
`NothingLeaks`, `OnePromptPerRP` and `SessionStays` (an action property) follow. With
two callers these four fail: both connect, the second `getSession` to finish
overwrites the first one's closer, and in between one connection's `info` may stand
beside the other's `client`. The package promises nothing for concurrent use.

`HandlesBounded` holds for any finite set of callers. What is inductive is
`HandlesCounted`: every open handle is in the hand of the one caller that is still
setting it up (`Connecting`), or was set up by one that has made its session since and
counts against that caller for good. So the handles open, plus the callers that may
still open one, are never more than the callers, however often connecting failed.

**DarwinHidProofs.** `IInv` joins what the goroutines know of each other through
the channels they close (`Handshake`), that the device lives exactly as long as
the pump needs it (`DeviceFollowsPump`) and that the callback runs inside the
run loop (`CallbackInRunLoop`). The last makes the callback the only sender, so
that the room it made is still there when it sends again (`SecondSendFindsRoom`:
the run loop's thread is never blocked). `Refinement` shows that the device
implements `LatestReport`: the drop is the step at which the new report takes the
old one's place, everything else but `Read` and an unobstructed send stutters.

**DiscoveryProofs.** `FoundIfItStays` rests on `NotLost`, which says where an
authenticator is that stayed plugged in and may be opened: still to be probed, being
probed, or among the infos, for as long as the scan goes on. `ReleasesAll` needs what is
held at each step (`HeldAt`), as an error path releases what it names and nothing
else. `OpensTheChosen` (an action property) needs
that a path leads to the device found there unless that one was unplugged
(`PathsOwned`, `FoundOwned`); only on Linux may the path then lead to another.

**WinHidProofs.** `QueueNewest` says that the reports waiting are the newest ones, in
order and without a gap, and that the one in the buffer came after all that were read:
hence `ReadsStayInOrder`, also when a given-up Read completes between two others.
`LossesPaid` counts: reports lost, Reads given up that may still cost one, and the one
being given up are together at most the Reads given up (`LossesAreCounted`). When a
Read is done, no earlier one is pending, as Windows serves them in order
(`LastOfReads`, for `NoLossBetween`). `WritesAreSent` rests on `WrittenFirst`, which orders
what was sent before every Write still pending, and on `OutputOnTheWire`: for any packet
and report length `buildOutputReport` yields the bytes `OnTheWire` lists.
The pending I/Os are a set ordered by number, as Windows completes those of one kind in
the order in which they were issued.

**CtapHidProofs.** A byte says whose it is and where it belongs, so a packet does by its
first byte (`CallOf`, `PosOf`, `Carries`). The invariant follows the bytes round.
*On the way out* (`Requests`): what waits for the authenticator is in the order in which
it was written, a packet that continues a request follows the one before it or what has
been gathered (`RequestsInLine`, `Gathers`), and what `sendRequest` still has left follows
what it wrote (`SendsTheRest`). A request broken off half-way is followed only by one that
starts anew, which is why `WholeRequests` needs no condition. *On the way back*
(`AnswersInLine`): every report is foreign, a notice, or a packet of an answer that was
given, these in ascending order of call and position, whatever is lost of them or put
between them. Losing, reading, handing on and foreign reports all make the line thinner
(`WayThinner`, one lemma for all these steps), only the authenticator makes it longer. *In
`readResponse`* (`Receiving`): of the running call's answer it has the beginning, or a
packet was dropped and then what is still to come does not make the answer long enough.
That is the argument why a lost packet never yields a wrong answer to the call
itself: sequence numbers, which wrap, could not show it, but the length does, and an
answer completed holds nothing but its own bytes (`CompletedIs`). `ChannelOurs` follows,
as only its own answer echoes the nonce of `NewClient`. *On a connection where nothing
failed* (`CleanSoFar`, `OneExchange`): what moves on its channel belongs to the running
call, first its request and keep-alives, then its error or the packets of its answer,
and nothing after them (`NothingLeft`, `OwnAnswers`). A channel just given out is one on
which nothing was ever sent (`NewChannel`).

*After a failure* (`HandsBack`), `CtapHid` still implements `Exchange` (`Refinement`).
Outcomes are of answers that were given, in the order of their connections
(`HandedBack`). What `readResponse` has of any answer, to this call or an earlier one,
has room for one packet more at least, and is of a call later than the one that opened
the connection (`Begun`). What has been handed back is earlier than what is being read
and than what is still on the way (`NoneTwice`), so that answers return in ascending
order and none twice. Whole they are where the backend keeps every report: there only
the report at the head of the queue can be missing, so a packet of an answer that is not
the first has the one before it ahead of it (`Unbroken`), or that one is the last
`readResponse` took (`Assembles`). With macOS's slot for one report these two do not
hold, and a call may return parts of two answers, which is `Garble`. `StepReturns` says
how a step can end a call, `StepImplements` that every step is one of `Exchange` or
stutters: `StartCall` is `Begin`, `Reopen` is `Connect`, `DevAnswer` is `Answer`, a
return without an answer `Fail` or `Refuse`, one with it `Return`.

`AnswersReturnInOrder` says the same without the mapping: an answer handed back is to a
request of the same connection and later than every one handed back before.

The packet sizes, the sequence space up to 128, the lengths and the number of calls are
arbitrary, the real ones among them.

**HmacSecretProofs.** What is under way is a line: the answers not yet read, then
the requests not yet taken. The line is never longer than the number of commands that
gave up, and the running command's own message (`LineOwned`: `Behind <= Lates`). So
with none late, an answer is one's own (`CredentialsAreNew`). With one late it may be
the message before, which is of the wrong kind for every exchange but that of one
answer (`KeyFirst`, `AnswersOwn`), so that secrets and tokens are right
(`SecretsAreRight`, `TokensAreGood`) and the key agreed on is the authenticator's
present one (`Current`, for `RightPINsAreFree`). Since, by `RequestsKeyed` and
`AnswersKeyed`, every exchange makes a fresh key
pair and a key pair serves one message and its answer, `SecretsAreNoOthers` holds without any condition: what `hmac_stale` shows to be
returned as a secret is garbage, and never the secret of another credential or salt.

**ReportDescriptorProofs.** `FromFirst` says that usage page and usage are those of the
first item of their kind unless that one is zero, `RemainsToBeFound` that then nothing
was subtracted twice, `Declared` and `SizedAreFound` that the reports found are, in
both directions, those with a count and a size of their own. `WellFormedAccepted`
has no hypothesis: a zero item after the first does no harm. `AcceptedDeclaresBoth`
has the one that no usage page or usage is zero, without which it is false
(`descriptor_zero`).

**AuthDataProofs.** `LayoutIsRead` is about every sequence of bytes, and any lengths and
number base, the real ones (37, 16, 256) among them. A length field says one number
(`DigitsAreUnique`), and the byte a CBOR item starts with says where it ends, so that
the layout leaves one place, or none, where credential and key can end
(`CredentialSplits`), and it is the one the parser comes to.

Proving changed the models in three places: the type invariant of `Discovery` had an
implication that took in the conjuncts after it, `HmacSecret`'s assumption left
open whether garbage might be the right PIN, and `CtapHid`'s whether a sequence number
might be as large as a command byte, or a keep-alive's status no number.

**Only model-checked.** Liveness (`CallReturns`, `CallsReturn`, `TryAgain`,
`CloseEnds`, `ConnectEnds`), which is out of the prover's reach.
Every safety invariant, action property and refinement of a passing run is a theorem, but
for those of `Session` that hold for one caller only (proved under that hypothesis) and
`OnlyWithBothReports` (proved where no item is zero).

## What is not modelled

* The prompts' terminal I/O (`prompt.go`): a prompt succeeds or fails. The examples,
  which make one call each. Error texts, `describeDevice`.
* Loading the frameworks and DLLs, and macOS's synchronous `Write`: it succeeds or
  fails, as any `Write` in `CtapHid`.
* CBOR, P-256, HKDF, AES-CBC and HMAC themselves: `HmacSecret` takes from them
  that a shared secret belongs to two key pairs, that decryption under another
  key gives other bytes, and that the decoders of one kind of answer reject the
  others.
* What the operating system does beyond its interface: whether the memory of a
  given-up Windows I/O (`hid_windows.go:251`), or the run loop of a thread that has
  ended (`hid_darwin.go:377`), is still there when it is used. The models show
  that both situations arise.
* Two goroutines on one client: the reports of two calls would interleave. The
  facade allows it, as nothing is locked, but nothing says what to expect.
* `Close` of the facade's session: it has none; the process ends.

## Plan

Written in this order, the most important behaviour first: `CtapHid`, `Session`
and its proofs, `ReportDescriptor`, `DarwinHid` with its refinement and proofs,
`HmacSecret`, `AuthData`, `WinHid`, then `Discovery`, `Exchange` with the refinement by
`CtapHid`, and the report-ID byte in `WinHid`; then `DiscoveryProofs`, `WinHidProofs`,
`HmacSecretProofs`, `ReportDescriptorProofs`, `AuthDataProofs`, the count of handles in
`SessionProofs`, and `CtapHidProofs` with the refinement of `Exchange`. Next:

1. That the line of messages in `HmacSecret` implements `Exchange` too, so that its view of
   the layer below is a refinement and not only an agreement of the two texts.
2. That `WinHid`'s Reads implement a queue that may lose the report at its head with a
   Read given up, which is what `"lost"` says in `CtapHid`.

