------------------------------- MODULE Discovery -------------------------------
(***************************************************************************)
(* How a connection gets its device: hid.Discover (describe, probeDevice,  *)
(* describeService), the facade's discoverOne, and hid.Open up to an open  *)
(* handle, on each platform, while devices are plugged in and out between  *)
(* any two of their calls to the operating system.                         *)
(*                                                                         *)
(* A path is what Info.Path holds: a hidraw node, a device interface or an *)
(* IORegistryEntryID. Linux gives a node that is free to any device that   *)
(* comes; an interface belongs to its device; an entry ID is never given   *)
(* out a second time.                                                      *)
(***************************************************************************)
EXTENDS Naturals, FiniteSets

CONSTANTS
    Devices,    \* HID devices
    Fido,       \* those with the FIDO usage page and usage
    Paths,      \* what they can be found at
    Platforms,  \* "linux", "windows", "darwin", "other"
    None        \* no device, no path, no probe

ASSUME DiscoveryAssumption ==
    /\ Fido \subseteq Devices
    /\ None \notin Devices /\ None \notin Paths
    /\ Platforms \subseteq {"linux", "windows", "darwin", "other"}

VARIABLES
    platform,   \* GOOS
    allowed,    \* devices this user may open
    at,         \* path of each device that is plugged in
    owner,      \* device a path was last given to
    stayed,     \* history: devices plugged in ever since the listing
    pc,         \* where connectReal is
    left,       \* listed paths still to be probed
    probe,      \* the device being described: its path, the queries answered
    infos,      \* Discover's result, with the device each Info describes
    handle,     \* the device Open has a handle on
    works,      \* that device has stayed plugged in since
    held        \* what has been acquired and not yet released

computer == <<platform, allowed>>
plugs == <<at, owner>>
scan == <<left, probe, infos>>
opening == <<handle, works>>
vars == <<computer, plugs, stayed, pc, scan, opening, held>>

\* A device being described, and how many queries it has answered.
Probe == [path : Paths, dev : Devices, asked : 0..3, ok : BOOLEAN]
ASSUME ProbeAssumption == None \notin Probe

Plugged == {d \in Devices : at[d] # None}
Free(path) == \A d \in Devices : at[d] # path

\* A path the operating system may give a device that is plugged in. (That a
\* Windows interface path belongs to its device is so for keys that report a
\* serial number; one without may inherit the path of another of its model in
\* the same port, and is then taken for that one.)
MayGet(d, path) ==
    /\ Free(path)
    /\ CASE platform = "linux" -> TRUE
         [] platform = "darwin" -> owner[path] = None
         [] OTHER -> owner[path] \in {None, d}

Init ==
    /\ platform \in Platforms /\ allowed \in SUBSET Devices
    /\ at = [d \in Devices |-> None] /\ owner = [p \in Paths |-> None]
    /\ stayed = {} /\ pc = "idle" /\ left = {} /\ probe = None /\ infos = {}
    /\ handle = None /\ works = FALSE /\ held = {}

-----------------------------------------------------------------------------
(* Discover *)

\* Wrong on purpose: the empty string that ends the list is taken for a path.
ListedWithEnd == {at[d] : d \in Devices}

Listed == {at[d] : d \in Plugged}

NoBackend == platform = "other"

\* The platform's list of HID devices is asked for; where there is no backend,
\* or the list cannot be had, Discover returns an error.
List ==
    /\ pc = "idle"
    /\ \/ /\ ~NoBackend
          /\ left' = Listed /\ stayed' = Plugged
          /\ held' = IF platform = "darwin" THEN held \cup {"iterator"} ELSE held
          /\ pc' = "scan"
       \/ pc' = "failed" /\ UNCHANGED <<left, stayed, held>>
    /\ UNCHANGED <<computer, plugs, probe, infos, opening>>

\* What a probe finds at a path. macOS's iterator has a reference to each
\* service it listed, whatever has become of the device since, and reading the
\* registry takes no permission.
Probed(path) ==
    IF platform = "darwin" THEN {owner[path]}
    ELSE {d \in allowed : at[d] = path}

\* Wrong on purpose: a device that cannot be probed ends the scan.
LeftAfterFailure(path) == {}

\* Wrong on purpose: a device that cannot be probed is tried again.
LeftForRetry(path) == left \cup {path}

\* A device that cannot be opened or queried is skipped, like any other.
LeftAfter(path) == left \ {path}

ProbeStarts ==
    /\ pc = "scan" /\ probe = None
    /\ \E path \in left :
          /\ left' = left \ {path}
          /\ \E d \in Probed(path) :
                probe' = [path |-> path, dev |-> d, asked |-> 0, ok |-> at[d] = path]
    /\ held' = held \cup {"probe"}
    /\ UNCHANGED <<computer, plugs, stayed, pc, infos, opening>>

ProbeRefused ==
    /\ pc = "scan" /\ probe = None
    /\ \E path \in left : Probed(path) = {} /\ left' = LeftAfter(path)
    /\ UNCHANGED <<computer, plugs, stayed, pc, probe, infos, opening, held>>

\* Linux: raw info, descriptor size, descriptor. Windows: attributes,
\* preparsed data, capabilities; the last are computed from the preparsed
\* data. macOS: usage, entry ID; a service outlives its device.
Queries == IF platform = "darwin" THEN 2 ELSE 3
NeedsDevice ==
    \/ platform = "linux"
    \/ platform = "windows" /\ probe.asked < 2

\* Wrong on purpose: the preparsed data is freed only once it was used.
HeldByProbeOpenly == {"probe"}

\* Everything a probe acquires; each is released however the probe ends.
HeldByProbe == {"probe", "preparsed"}

\* The CFStrings made of the property names (cfStr), which nobody releases.
Kept == {"names"}

ProbeAnswered ==
    /\ probe # None /\ probe.asked < Queries
    /\ probe.ok \/ ~NeedsDevice
    /\ probe' = [probe EXCEPT !.asked = @ + 1]
    /\ held' = CASE platform = "darwin" -> held \cup Kept
                 [] platform = "windows" /\ probe.asked = 1 -> held \cup {"preparsed"}
                 [] probe.asked = 2 -> held \ {"preparsed"}
                 [] OTHER -> held
    /\ UNCHANGED <<computer, plugs, stayed, pc, left, infos, opening>>

ProbeFails ==
    /\ probe # None /\ probe.asked < Queries /\ ~probe.ok
    /\ probe' = None /\ left' = LeftAfter(probe.path)
    /\ held' = held \ HeldByProbe
    /\ UNCHANGED <<computer, plugs, stayed, pc, infos, opening>>

matchesFIDO(d) == d \in Fido

\* The device is listed if it is a FIDO device.
ProbeEnds ==
    /\ probe # None /\ probe.asked = Queries
    /\ infos' = IF matchesFIDO(probe.dev)
                THEN infos \cup {[path |-> probe.path, dev |-> probe.dev]} ELSE infos
    /\ probe' = None
    /\ held' = held \ HeldByProbe
    /\ UNCHANGED <<computer, plugs, stayed, pc, left, opening>>

\* discoverOne: none, one or several.
Verdict == CASE infos = {} -> "none" [] Cardinality(infos) = 1 -> "open" [] OTHER -> "many"

ScanEnds ==
    /\ pc = "scan" /\ left = {} /\ probe = None
    /\ pc' = Verdict
    /\ held' = held \ {"iterator"}
    /\ UNCHANGED <<computer, plugs, stayed, scan, opening>>

-----------------------------------------------------------------------------
(* Open *)

Chosen == CHOOSE info \in infos : TRUE

\* Wrong on purpose: macOS looks for any FIDO device again.
AtAnyPath == {d \in Fido : at[d] # None}

\* The device that is now where the chosen one was found.
AtPath == {d \in Devices : at[d] = Chosen.path}

\* Opening the path or finding its service fails; nothing has been acquired.
OpenFails ==
    /\ pc = "open"
    /\ AtPath \cap (IF platform = "darwin" THEN Devices ELSE allowed) = {}
    /\ pc' = "failed"
    /\ UNCHANGED <<computer, plugs, stayed, scan, opening, held>>

OpenPath ==
    /\ pc = "open" /\ platform # "darwin"
    /\ \E d \in AtPath \cap allowed : handle' = d
    /\ works' = TRUE /\ held' = held \cup {"device"}
    /\ pc' = IF platform = "windows" THEN "caps" ELSE "opened"
    /\ UNCHANGED <<computer, plugs, stayed, scan>>

FindService ==
    /\ pc = "open" /\ platform = "darwin"
    /\ \E d \in AtPath : handle' = d
    /\ works' = TRUE /\ held' = held \cup {"service"}
    /\ pc' = "create"
    /\ UNCHANGED <<computer, plugs, stayed, scan>>

\* IOHIDDeviceCreate takes a reference of its own.
CreateDevice ==
    /\ pc = "create"
    /\ held' = held \cup {"device"}
    /\ pc' = "seize"
    /\ UNCHANGED <<computer, plugs, stayed, scan, opening>>

\* IOHIDDeviceOpen on macOS, getCaps on Windows succeed. (DarwinHid has what
\* macOS's Open does after that.)
OpenSucceeds ==
    /\ \/ pc = "seize" /\ works /\ handle \in allowed
       \/ pc = "caps" /\ works
    /\ held' = held \ {"service"}
    /\ pc' = "opened"
    /\ UNCHANGED <<computer, plugs, stayed, scan, opening>>

HeldAfterFailure == held \ {"service", "device"}

\* Any of these calls may fail once the device is gone, and on macOS when
\* another program has seized it; what was acquired is released.
OpenGivesUp ==
    /\ \/ pc \in {"create", "seize", "caps"} /\ ~works
       \/ pc = "seize" /\ handle \notin allowed
    /\ held' = HeldAfterFailure
    /\ handle' = None /\ works' = FALSE
    /\ pc' = "failed"
    /\ UNCHANGED <<computer, plugs, stayed, scan>>

\* The caller hands the outcome on, and tries again: when the connection was
\* made, after closing it.
Again ==
    /\ pc \in {"none", "many", "failed", "opened"}
    /\ pc' = "idle" /\ infos' = {} /\ left' = {} /\ stayed' = {}
    /\ handle' = None /\ works' = FALSE
    /\ held' = IF pc = "opened" THEN held \ {"device"} ELSE held
    /\ UNCHANGED <<computer, plugs, probe>>

-----------------------------------------------------------------------------
(* The user: not under src/. *)

Plug(d) ==
    /\ d \notin Plugged
    /\ \E path \in Paths :
          /\ MayGet(d, path)
          /\ at' = [at EXCEPT ![d] = path]
          /\ owner' = [owner EXCEPT ![path] = d]
    /\ UNCHANGED <<computer, stayed, pc, scan, opening, held>>

Unplug(d) ==
    /\ d \in Plugged
    /\ at' = [at EXCEPT ![d] = None]
    /\ stayed' = stayed \ {d}
    /\ probe' = IF probe # None /\ probe.dev = d THEN [probe EXCEPT !.ok = FALSE] ELSE probe
    /\ works' = (works /\ handle # d)
    /\ UNCHANGED <<computer, owner, pc, left, infos, handle, held>>

Step ==
    \/ List \/ ProbeStarts \/ ProbeRefused \/ ProbeAnswered \/ ProbeFails
    \/ ProbeEnds \/ ScanEnds \/ OpenFails \/ OpenPath \/ FindService
    \/ CreateDevice \/ OpenSucceeds \/ OpenGivesUp

Next == Step \/ Again \/ \E d \in Devices : Plug(d) \/ Unplug(d)

Spec == Init /\ [][Next]_vars

\* A goroutine inside connectReal goes on.
FairSpec == Spec /\ WF_vars(Step)

-----------------------------------------------------------------------------
(* Properties *)

Info == [path : Paths, dev : Devices]

\* Every variable has the values the code gives it.
TypeOK ==
    /\ platform \in Platforms /\ allowed \subseteq Devices
    /\ at \in [Devices -> Paths \cup {None}] /\ owner \in [Paths -> Devices \cup {None}]
    /\ stayed \subseteq Plugged /\ left \subseteq Paths
    /\ pc \in {"idle", "scan", "none", "many", "open", "create", "seize", "caps",
               "opened", "failed"}
    /\ probe \in Probe \cup {None}
    /\ infos \subseteq Info
    /\ pc = "open" => Cardinality(infos) = 1
    /\ handle \in Devices \cup {None} /\ works \in BOOLEAN
    /\ held \subseteq Kept \cup {"iterator", "probe", "preparsed", "service", "device"}

\* Discover has every FIDO device that was plugged in all the while and that
\* this user may open, whatever came, went or failed in between. So "no FIDO2
\* security key found" is true of such keys, and a key is only chosen when no
\* other one has been there all the time.
FindsThoseThatStay ==
    pc \in {"none", "many", "open"} =>
        \A d \in stayed \cap Fido \cap allowed : \E info \in infos : info.dev = d

\* Open opens the very device Discover described ("to re-find this exact
\* device", hid_darwin.go:180-181), however devices were plugged in and out
\* since; only on Linux another device may have been given the node.
OpensWhatWasFound ==
    [][handle = None /\ handle' # None =>
          \/ handle' = Chosen.dev
          \/ platform = "linux" /\ owner[Chosen.path] # Chosen.dev]_vars

\* When Discover or Open has failed, or found no single key, nothing it
\* acquired is left, whichever call on the way to the open device failed, but
\* for macOS's property names; a successful one leaves the device. (What macOS's
\* Open does with the device then, and leaves when that times out at
\* hid_darwin.go:262, is in DarwinHid.)
NothingLeftBehind ==
    /\ pc \in {"idle", "none", "many", "open", "failed"} => held \subseteq Kept /\ handle = None
    /\ pc = "opened" => held \ Kept = {"device"}
    /\ pc = "scan" /\ probe = None => held \subseteq Kept \cup {"iterator"}

\* Connecting comes to an end, however often devices come and go meanwhile.
ConnectEnds ==
    pc = "scan" ~> pc \in {"none", "many", "failed", "opened"}
=============================================================================
