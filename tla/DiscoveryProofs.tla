---------------------------- MODULE DiscoveryProofs ----------------------------
(***************************************************************************)
(* What discovering and opening a device promise, for any devices and      *)
(* paths, on every platform, however devices are plugged in and out        *)
(* meanwhile.                                                              *)
(***************************************************************************)
EXTENDS Discovery, FiniteSetTheorems, TLAPS

-----------------------------------------------------------------------------
(* The inductive invariant behind the safety properties *)

\* A device that is plugged in was the last to be given its path.
PathsOwned == \A d \in Plugged : owner[at[d]] = d

\* The paths listed were somebody's, and the one being probed is done with.
LeftOwned ==
    /\ \A path \in left : owner[path] # None
    /\ probe # None => probe.path \notin left

\* But on Linux, a path stays that of the device found there.
FoundOwned ==
    platform # "linux" =>
        /\ probe # None => owner[probe.path] = probe.dev
        /\ \A info \in infos : owner[info.path] = info.dev

\* A key that has stayed is still to be probed, or being probed, or listed.
ToBeFound(d) ==
    \/ at[d] \in left
    \/ probe # None /\ probe.dev = d /\ probe.ok
    \/ \E info \in infos : info.dev = d

NotLost == pc = "scan" => \A d \in stayed \cap Fido \cap allowed : ToBeFound(d)

\* What is held at each step between listing and an open device.
HeldAt ==
    /\ probe # None => pc = "scan"
    /\ pc = "scan" => held \subseteq Kept \cup {"iterator"} \cup HeldByProbe /\ handle = None
    /\ pc = "create" => held \ Kept = {"service"}
    /\ pc = "seize" => held \ Kept = {"service", "device"}
    /\ pc = "caps" => held \ Kept = {"device"}

IInv ==
    /\ TypeOK /\ PathsOwned /\ LeftOwned /\ FoundOwned
    /\ NotLost /\ FindsThoseThatStay
    /\ HeldAt /\ NothingLeftBehind
    /\ pc = "open" => infos # {}

-----------------------------------------------------------------------------
(* The proofs *)

\* Nothing is plugged in, listed or held at first.
LEMMA InitIInv == Init => IInv
BY DiscoveryAssumption
   DEF Init, IInv, TypeOK, PathsOwned, LeftOwned, FoundOwned, NotLost,
       FindsThoseThatStay, HeldAt, NothingLeftBehind, Plugged, Kept

\* Every path listed is that of a device plugged in, so every key that is there
\* is still to be probed.
LEMMA ListStep == ASSUME IInv, List PROVE IInv'
<1> USE DiscoveryAssumption DEF IInv, List, Kept, HeldByProbe, HeldAt,
        NothingLeftBehind, computer, plugs, opening, Plugged
<1>1. TypeOK'
  BY DEF TypeOK, Listed
<1>2. PathsOwned'
  BY DEF PathsOwned
<1>3. LeftOwned'
  BY DEF TypeOK, LeftOwned, PathsOwned, Listed
<1>4. FoundOwned'
  BY DEF FoundOwned
<1>5. NotLost' /\ FindsThoseThatStay'
  BY DEF NotLost, FindsThoseThatStay, ToBeFound, Listed
<1>6. HeldAt' /\ NothingLeftBehind' /\ (pc' = "open" => infos' # {})
  OBVIOUS
<1> QED BY <1>1, <1>2, <1>3, <1>4, <1>5, <1>6

\* The probe takes up a path, and with it the key that is there, if one is.
LEMMA ProbeStartsStep == ASSUME IInv, ProbeStarts PROVE IInv'
<1> USE DiscoveryAssumption DEF IInv, ProbeStarts, Kept, HeldByProbe, HeldAt,
        NothingLeftBehind, computer, plugs, opening, Plugged
<1>1. PICK path \in left : \E d \in Probed(path) :
          /\ left' = left \ {path}
          /\ probe' = [path |-> path, dev |-> d, asked |-> 0, ok |-> at[d] = path]
  OBVIOUS
<1>2. PICK d \in Probed(path) :
          /\ left' = left \ {path}
          /\ probe' = [path |-> path, dev |-> d, asked |-> 0, ok |-> at[d] = path]
  BY <1>1
<1>3. d \in Devices /\ (platform # "linux" => owner[path] = d)
  BY <1>2 DEF Probed, TypeOK, LeftOwned, PathsOwned
<1>4. probe' \in Probe /\ probe' # None
  <2>1. path \in Paths /\ (at[d] = path) \in BOOLEAN
    BY DEF TypeOK
  <2> HIDE DEF IInv, ProbeStarts
  <2>2. probe' \in Probe
    BY <1>2, <1>3, <2>1 DEF Probe
  <2> QED BY <2>2, ProbeAssumption
<1>9. TypeOK'
  BY <1>2, <1>4 DEF TypeOK
<1>5. LeftOwned' /\ FoundOwned' /\ PathsOwned'
  BY <1>2, <1>3 DEF LeftOwned, FoundOwned, PathsOwned, TypeOK
<1>6. \A e \in stayed \cap allowed : at[e] = path => e = d
  BY <1>2, <1>3 DEF Probed, PathsOwned, TypeOK
<1>7. NotLost' /\ FindsThoseThatStay'
  BY <1>2, <1>4, <1>6 DEF NotLost, FindsThoseThatStay, ToBeFound
<1>8. HeldAt' /\ NothingLeftBehind' /\ (pc' = "open" => infos' # {})
  BY <1>2, <1>4
<1> QED BY <1>9, <1>5, <1>7, <1>8

\* A path that is skipped is no longer that of any allowed key.
LEMMA ProbeRefusedStep == ASSUME IInv, ProbeRefused PROVE IInv'
<1> USE DiscoveryAssumption DEF IInv, ProbeRefused, Kept, HeldByProbe, HeldAt,
        NothingLeftBehind, computer, plugs, opening, Plugged, LeftAfter
<1>1. PICK path \in left : Probed(path) = {} /\ left' = left \ {path}
  OBVIOUS
<1>2. TypeOK' /\ LeftOwned' /\ FoundOwned' /\ PathsOwned'
  BY <1>1 DEF TypeOK, LeftOwned, FoundOwned, PathsOwned
<1>3. \A d \in stayed \cap allowed : at[d] # path
  BY <1>1 DEF Probed, TypeOK
<1>4. NotLost' /\ FindsThoseThatStay'
  BY <1>1, <1>3 DEF NotLost, FindsThoseThatStay, ToBeFound
<1> QED BY <1>1, <1>2, <1>4

\* An answer changes nothing but how far the probe is and what it holds.
LEMMA ProbeAnsweredStep == ASSUME IInv, ProbeAnswered PROVE IInv'
<1> USE DiscoveryAssumption DEF IInv, ProbeAnswered, Kept, HeldByProbe, HeldAt,
        NothingLeftBehind, computer, plugs, opening, Plugged
<1>1. probe \in Probe /\ probe.asked + 1 \in 0..3
  BY DEF TypeOK, Queries, Probe
<1>2. /\ probe' \in Probe /\ probe' # None
      /\ probe'.path = probe.path /\ probe'.dev = probe.dev /\ probe'.ok = probe.ok
  BY <1>1, ProbeAssumption DEF Probe
<1>3. held' \subseteq held \cup Kept \cup HeldByProbe
  OBVIOUS
<1>4. TypeOK'
  BY <1>2, <1>3 DEF TypeOK
<1>5. LeftOwned' /\ FoundOwned' /\ PathsOwned'
  BY <1>2 DEF LeftOwned, FoundOwned, PathsOwned
<1>6. NotLost' /\ FindsThoseThatStay'
  BY <1>2 DEF NotLost, FindsThoseThatStay, ToBeFound
<1>7. HeldAt' /\ NothingLeftBehind'
  BY <1>2, <1>3
<1> QED BY <1>4, <1>5, <1>6, <1>7

\* Only a probe whose device has gone fails, so no key that stayed is lost.
LEMMA ProbeFailsStep == ASSUME IInv, ProbeFails PROVE IInv'
<1> USE DiscoveryAssumption DEF IInv, ProbeFails, Kept, HeldByProbe, HeldAt,
        NothingLeftBehind, computer, plugs, opening, Plugged, LeftAfter
<1>1. TypeOK' /\ LeftOwned' /\ FoundOwned' /\ PathsOwned'
  BY DEF TypeOK, LeftOwned, FoundOwned, PathsOwned
<1>2. left' = left
  BY DEF LeftOwned
<1>3. NotLost' /\ FindsThoseThatStay'
  BY <1>2 DEF NotLost, FindsThoseThatStay, ToBeFound
<1> QED BY <1>1, <1>3

\* A key that was probed to the end is listed.
LEMMA ProbeEndsStep == ASSUME IInv, ProbeEnds PROVE IInv'
<1> USE DiscoveryAssumption DEF IInv, ProbeEnds, Kept, HeldByProbe, HeldAt,
        NothingLeftBehind, computer, plugs, opening, Plugged
<1>1. DEFINE found == [path |-> probe.path, dev |-> probe.dev]
<1>2. found \in Info
  BY DEF TypeOK, Info, Probe
<1>3. infos' \subseteq infos \cup {found} /\ infos \subseteq infos'
  OBVIOUS
<1>4. TypeOK'
  BY <1>2, <1>3 DEF TypeOK
<1>5. LeftOwned' /\ PathsOwned'
  BY DEF LeftOwned, PathsOwned
<1>6. FoundOwned'
  BY <1>3 DEF FoundOwned
<1>7. probe.dev \in Fido => \E info \in infos' : info.dev = probe.dev
  BY ZenonT(30) DEF matchesFIDO
<1>8. NotLost' /\ FindsThoseThatStay'
  BY <1>3, <1>7 DEF NotLost, FindsThoseThatStay, ToBeFound
<1> QED BY <1>4, <1>5, <1>6, <1>8

\* When nothing is left to be probed, every key that stayed is listed.
LEMMA ScanEndsStep == ASSUME IInv, ScanEnds PROVE IInv'
<1> USE DiscoveryAssumption DEF IInv, ScanEnds, Kept, HeldByProbe, HeldAt,
        NothingLeftBehind, computer, plugs, scan, opening, Plugged
<1>1. /\ pc' \in {"none", "many", "open"}
      /\ pc' = "open" => infos # {} /\ Cardinality(infos) = 1
  <2>1. CASE infos = {}
    BY <2>1, FS_EmptySet DEF Verdict
  <2>2. CASE infos # {} /\ Cardinality(infos) = 1
    BY <2>2 DEF Verdict
  <2>3. CASE infos # {} /\ Cardinality(infos) # 1
    BY <2>3 DEF Verdict
  <2> QED BY <2>1, <2>2, <2>3
<1>2. TypeOK'
  BY <1>1 DEF TypeOK
<1>3. LeftOwned' /\ FoundOwned' /\ PathsOwned'
  BY DEF LeftOwned, FoundOwned, PathsOwned
<1>4. NotLost' /\ FindsThoseThatStay'
  BY <1>1 DEF NotLost, FindsThoseThatStay, ToBeFound
<1> QED BY <1>1, <1>2, <1>3, <1>4

\* The steps of Open, and starting over, touch neither paths nor the scan.
LEMMA OpenStep ==
    ASSUME IInv, OpenFails \/ OpenPath \/ FindService \/ CreateDevice
                 \/ OpenSucceeds \/ OpenGivesUp \/ Again
    PROVE  IInv'
<1> USE DiscoveryAssumption DEF IInv, Kept, HeldByProbe, HeldAt, HeldAfterFailure,
        NothingLeftBehind, computer, plugs, scan, opening, Plugged
<1> USE DEF TypeOK, LeftOwned, FoundOwned, PathsOwned, NotLost, FindsThoseThatStay, ToBeFound
<1>1. CASE OpenFails
  BY <1>1 DEF OpenFails
<1>2. CASE OpenPath
  <2>1. PICK d \in Devices : handle' = d
    BY <1>2 DEF OpenPath, AtPath
  <2>2. held' \ Kept = {"device"}
    BY <1>2 DEF OpenPath
  <2>3. pc' \in {"caps", "opened"}
    BY <1>2 DEF OpenPath
  <2>4. UNCHANGED <<computer, plugs, stayed, scan>> /\ works' = TRUE
    BY <1>2 DEF OpenPath
  <2>5. TypeOK'
    BY <2>1, <2>2, <2>3, <2>4
  <2>6. LeftOwned' /\ FoundOwned' /\ PathsOwned' /\ NotLost' /\ FindsThoseThatStay'
    BY <2>3, <2>4
  <2>7. probe = None
    BY <1>2 DEF OpenPath
  <2> QED BY <2>2, <2>3, <2>4, <2>5, <2>6, <2>7
<1>3. CASE FindService
  <2>1. PICK d \in Devices : handle' = d
    BY <1>3 DEF FindService, AtPath
  <2>2. held' \ Kept = {"service"} /\ pc' = "create" /\ probe = None
    BY ZenonT(30), <1>3 DEF FindService
  <2>3. UNCHANGED <<computer, plugs, stayed, scan>> /\ works' = TRUE
    BY <1>3 DEF FindService
  <2>4. TypeOK'
    BY <2>1, <2>2, <2>3
  <2> QED BY <2>2, <2>3, <2>4
<1>4. CASE CreateDevice
  BY <1>4 DEF CreateDevice
<1>5. CASE OpenSucceeds
  BY <1>5 DEF OpenSucceeds
<1>6. CASE OpenGivesUp
  BY <1>6 DEF OpenGivesUp
<1>7. CASE Again
  BY <1>7 DEF Again
<1> QED BY <1>1, <1>2, <1>3, <1>4, <1>5, <1>6, <1>7

\* A device plugged in gets a path of which nothing was known, or on Linux a free
\* one.
LEMMA PlugStep == ASSUME IInv, NEW d \in Devices, Plug(d) PROVE IInv'
<1> USE DiscoveryAssumption DEF IInv, Plug, Plugged, computer, scan, opening
<1>1. PICK path \in Paths : /\ MayGet(d, path)
                            /\ at' = [at EXCEPT ![d] = path]
                            /\ owner' = [owner EXCEPT ![path] = d]
  OBVIOUS
<1>2. /\ at' \in [Devices -> Paths \cup {None}] /\ owner' \in [Paths -> Devices \cup {None}]
      /\ at'[d] = path /\ owner'[path] = d
      /\ \A e \in Devices : e # d => at'[e] = at[e]
      /\ \A p \in Paths : p # path => owner'[p] = owner[p]
      /\ \A e \in Devices : at[e] # path
      /\ platform # "linux" => owner[path] \in {None, d}
  BY <1>1 DEF TypeOK, MayGet, Free
<1> HIDE DEF MayGet, Plug
<1> USE DEF Plug
<1>3. stayed \subseteq Plugged' /\ d \notin stayed
  BY <1>2 DEF TypeOK
<1>4. TypeOK'
  BY <1>2, <1>3 DEF TypeOK
<1>5. PathsOwned'
  BY <1>2 DEF PathsOwned, TypeOK
<1>6. LeftOwned'
  BY <1>2 DEF LeftOwned, TypeOK
<1>7. FoundOwned'
  <2>1. ASSUME platform # "linux", NEW p \in Paths, owner[p] # None
        PROVE  owner'[p] = owner[p]
    BY <1>2, <2>1
  <2>2. ASSUME platform # "linux", probe # None
        PROVE  owner[probe.path] = probe.dev /\ probe.path \in Paths /\ probe.dev # None
    BY <2>2 DEF FoundOwned, TypeOK, Probe
  <2>3. ASSUME platform # "linux", NEW info \in infos
        PROVE  owner[info.path] = info.dev /\ info.path \in Paths /\ info.dev # None
    <3>1. info \in Info
      BY DEF TypeOK
    <3> QED BY <2>3, <3>1 DEF FoundOwned, Info
  <2> QED BY <2>1, <2>2, <2>3 DEF FoundOwned
<1>8. NotLost' /\ FindsThoseThatStay'
  BY <1>2, <1>3 DEF NotLost, FindsThoseThatStay, ToBeFound, TypeOK
<1>9. HeldAt' /\ NothingLeftBehind'
  BY DEF HeldAt, NothingLeftBehind
<1> QED BY <1>4, <1>5, <1>6, <1>7, <1>8, <1>9

\* A device that is unplugged takes only its own path and probe with it.
LEMMA UnplugStep == ASSUME IInv, NEW d \in Devices, Unplug(d) PROVE IInv'
<1> USE DiscoveryAssumption, ProbeAssumption DEF IInv, Unplug, Plugged, computer, scan, opening
<1>1. /\ at' \in [Devices -> Paths \cup {None}] /\ at'[d] = None
      /\ \A e \in Devices : e # d => at'[e] = at[e]
  BY DEF TypeOK
<1>2. /\ probe' = None <=> probe = None
      /\ probe # None => /\ probe' \in Probe
                         /\ probe'.path = probe.path /\ probe'.dev = probe.dev
                         /\ probe.dev # d => probe'.ok = probe.ok
  BY DEF TypeOK, Probe
<1>3. TypeOK'
  BY <1>1, <1>2 DEF TypeOK
<1>4. PathsOwned'
  BY <1>1 DEF PathsOwned
<1>5. LeftOwned' /\ FoundOwned'
  BY <1>2 DEF LeftOwned, FoundOwned
<1>6. NotLost' /\ FindsThoseThatStay'
  BY <1>1, <1>2 DEF NotLost, FindsThoseThatStay, ToBeFound, TypeOK
<1>7. HeldAt' /\ NothingLeftBehind'
  BY <1>2 DEF HeldAt, NothingLeftBehind
<1> QED BY <1>3, <1>4, <1>5, <1>6, <1>7

\* Every step preserves the invariant.
LEMMA NextIInv == IInv /\ [Next]_vars => IInv'
<1> SUFFICES ASSUME IInv, [Next]_vars PROVE IInv'
  OBVIOUS
<1>1. CASE Step
  BY <1>1, ListStep, ProbeStartsStep, ProbeRefusedStep, ProbeAnsweredStep, ProbeFailsStep,
     ProbeEndsStep, ScanEndsStep, OpenStep DEF Step
<1>2. CASE Again
  BY <1>2, OpenStep
<1>3. ASSUME NEW d \in Devices, Plug(d) \/ Unplug(d)
      PROVE  IInv'
  BY <1>3, PlugStep, UnplugStep
<1>4. CASE UNCHANGED vars
  BY <1>4 DEF vars, computer, plugs, scan, opening, IInv, TypeOK, PathsOwned, LeftOwned,
     FoundOwned, NotLost, FindsThoseThatStay, ToBeFound, HeldAt, NothingLeftBehind, Plugged
<1> QED BY <1>1, <1>2, <1>3, <1>4 DEF Next

\* Discovery keeps account of every path, every key that stays and everything
\* it has acquired.
THEOREM InductiveInvariant == Spec => []IInv
BY InitIInv, NextIInv, PTL DEF Spec

\* The variables keep their types.
THEOREM TypeCorrect == Spec => []TypeOK
<1>1. IInv => TypeOK
  BY DEF IInv
<1> QED BY <1>1, InductiveInvariant, PTL

\* Discover has every FIDO device that has been there all the while and that
\* the user may open.
THEOREM FoundIfItStays == Spec => []FindsThoseThatStay
<1>1. IInv => FindsThoseThatStay
  BY DEF IInv
<1> QED BY <1>1, InductiveInvariant, PTL

\* However Discover and Open end, what they acquired is released, but for an
\* open device.
THEOREM ReleasesAll == Spec => []NothingLeftBehind
<1>1. IInv => NothingLeftBehind
  BY DEF IInv
<1> QED BY <1>1, InductiveInvariant, PTL

\* Open opens the device Discover described; on Linux, unless its node has
\* been given to another.
THEOREM OpensTheChosen == Spec => OpensWhatWasFound
<1> DEFINE Good ==
        handle = None /\ handle' # None =>
            \/ handle' = Chosen.dev
            \/ platform = "linux" /\ owner[Chosen.path] # Chosen.dev
<1>1. IInv /\ [Next]_vars => [Good]_vars
  <2> SUFFICES ASSUME IInv, Next, handle = None, handle' # None
               PROVE  Good
    BY DEF vars
  <2>1. OpenPath \/ FindService
    BY DEF Next, Step, List, ProbeStarts, ProbeRefused, ProbeAnswered, ProbeFails, ProbeEnds,
       ScanEnds, OpenFails, CreateDevice, OpenSucceeds, OpenGivesUp, Again, Plug, Unplug, opening
  <2>2. pc = "open" /\ handle' \in AtPath
    BY <2>1 DEF OpenPath, FindService
  <2>3. Chosen \in infos /\ Chosen.path \in Paths
    <3>1. Chosen \in infos
      BY <2>2 DEF IInv, Chosen
    <3>2. infos \subseteq Info
      BY DEF IInv, TypeOK
    <3> QED BY <3>1, <3>2 DEF Info
  <2>4. handle' \in Plugged /\ at[handle'] = Chosen.path
    BY <2>2, <2>3, DiscoveryAssumption DEF AtPath, Plugged
  <2>5. owner[Chosen.path] = handle'
    BY <2>4 DEF IInv, PathsOwned
  <2> QED BY <2>3, <2>5 DEF IInv, FoundOwned
<1> QED BY <1>1, InductiveInvariant, PTL DEF Spec, OpensWhatWasFound
================================================================================
