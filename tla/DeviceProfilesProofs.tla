------------------------ MODULE DeviceProfilesProofs ------------------------
(***************************************************************************)
(* Proofs about DeviceProfiles: whatever else is replugged while a port is *)
(* opened, a session has the profile of the hardware it reached, and that  *)
(* is the one list_ports shows for it.                                     *)
(***************************************************************************)
EXTENDS DeviceProfiles, FiniteSetTheorems, WellFoundedInduction, TLAPS

Stages == {"idle", "resolving", "enumerated", "resolved", "open", "refused"}
Descriptors == [port : Nodes, usb : Ids]
Calls == [stage : Stages, port : Paths \cup {None},
          device : Names \cup Strangers \cup {None}, seen : SUBSET Descriptors,
          at : Nat, profile : Profiles \cup {None}, unit : Units \cup {None}, since : Nat]

Shaped ==
  /\ profiles \in Seq(Profiles)
  /\ plugged \in [Nodes -> Units \cup {None}]
  /\ moves \in 0..MaxMoves
  /\ settled \in [Units -> 0..moves]
  /\ call \in [Opens -> Calls]

\* An open saw the ports as they were at some moment; on its way it holds a path
\* unless it holds a name, before it is resolved it has no profile, and in the
\* end it has a device.
Dated(c) ==
  /\ c.at <= moves /\ c.since <= moves
  /\ c.stage \in {"resolving", "enumerated"} /\ c.device = None => c.port \in Paths
  /\ c.stage = "resolved" => c.port \in Paths
  /\ c.stage = "resolving" => c.profile = None
  /\ c.stage = "open" => c.unit \in Units /\ c.port \in Allowed

\* What is plugged into n, or behind a path, has been there since that move.
SitsIn(n, at)        == plugged[n] # None /\ settled[plugged[n]] <= at
SitsBehind(path, at) == Behind(path) # None /\ settled[Behind(path)] <= at

\* A device that has sat still was enumerated where it is, and nothing else was.
Saw(seen, n) == Descriptor(n) \in seen /\ \A d \in seen : d.port = n => d = Descriptor(n)
SawStill(c) ==
  c.stage = "enumerated" =>
    c.device = None /\ \A n \in Nodes : SitsIn(n, c.at) => Saw(c.seen, n)

\* A resolved open has the profile of the device behind its path if that has sat
\* still, and a session that of the device it reached.
Verdict(c, unit) ==
  IF c.device = None THEN Governs(c.profile, Usb[unit])
  ELSE c.profile.name = c.device /\ profile_matches_port(c.profile, Usb[unit])
ResolvedStill(c) ==
  c.stage = "resolved" /\ SitsBehind(c.port, c.at) => Verdict(c, Behind(c.port))
Governed(c) == SatStill(c) => Verdict(c, c.unit)

Sound(c) == Dated(c) /\ SawStill(c) /\ ResolvedStill(c) /\ Governed(c)

ProfilesInv == Shaped /\ \A o \in Opens : Sound(call[o])

-----------------------------------------------------------------------------
(* Matching *)

\* The order of the naturals, as the relation the library's theorem speaks of.
LEMMA LessThanIsRelated ==
  ASSUME NEW i \in Nat, NEW j \in Nat, j < i
  PROVE  <<j, i>> \in OpToRel(<, Nat)
  BY Zenon DEF OpToRel

\* A set of indices that is not empty has a least member.
LEMMA LeastProperties ==
  ASSUME NEW T, T \subseteq Nat, T # {}
  PROVE  Least(T) \in T /\ \A j \in T : Least(T) <= j
<1>1. PICK i \in T : \A j \in T : ~(<<j, i>> \in OpToRel(<, Nat))
  BY WFMin, NatLessThanWellFounded, Zenon
<1>2. ASSUME NEW j \in T PROVE ~(j < i)
  BY <1>1, LessThanIsRelated, Zenon
<1>3. ASSUME NEW j \in T PROVE i <= j
  BY <1>2
<1> QED BY <1>3 DEF Least

\* find over the profiles returns the profile that governs the hardware.
LEMMA FirstMatchGoverns ==
  ASSUME NEW usb, profiles \in Seq(Profiles)
  PROVE  Governs(first_match(usb), usb) /\ first_match(usb) \in Profiles \cup {None}
<1>1. CASE Hits(usb) = {}
  BY <1>1 DEF first_match, Governs, Hits
<1>2. CASE Hits(usb) # {}
  <2>1. DOMAIN profiles \subseteq Nat
    OBVIOUS
  <2>2. Hits(usb) \subseteq Nat
    BY <2>1 DEF Hits
  <2>3. PICK i : i = Least(Hits(usb))
    OBVIOUS
  <2>4. i \in Hits(usb) /\ \A j \in Hits(usb) : i <= j
    BY <1>2, <2>2, <2>3, LeastProperties
  <2>5. i \in DOMAIN profiles /\ profile_matches_port(profiles[i], usb)
    BY <2>4 DEF Hits
  <2>6. ASSUME NEW j \in 1..i - 1 PROVE ~profile_matches_port(profiles[j], usb)
    <3>1. j \in DOMAIN profiles /\ ~(i <= j)
      BY <2>5
    <3> QED BY <2>4, <3>1 DEF Hits
  <2>7. first_match(usb) = profiles[i]
    BY <1>2, <2>3 DEF first_match
  <2>8. profiles[i] \in Profiles
    BY <2>5
  <2> QED BY <2>5, <2>6, <2>7, <2>8 DEF Governs
<1> QED BY <1>1, <1>2

\* A path that leads to a device is resolved to that device's profile, if the
\* device was enumerated where it is.
LEMMA MatchFollowsPath ==
  ASSUME NEW path \in Paths, NEW seen, Behind(path) # None,
         \A n \in Nodes : plugged[n] = Behind(path) => Saw(seen, n)
  PROVE  match_port_profile(canonical(path), seen) = first_match(Usb[Behind(path)])
<1>1. PICK n : n = canonical(path)
  OBVIOUS
<1>2. n \in Nodes /\ plugged[n] = Behind(path)
  <2>1. CASE path \in Nodes
    BY <1>1, <2>1, ConstantsAssumption DEF canonical, Behind
  <2>2. CASE path \notin Nodes
    <3>1. path \in Aliases /\ \E m \in Nodes : plugged[m] = LinkOf[path]
      BY <2>2 DEF Paths, Behind
    <3>2. Behind(path) = LinkOf[path]
      BY <2>2, <3>1 DEF Behind
    <3>3. n = CHOOSE m \in Nodes : plugged[m] = LinkOf[path]
      BY <1>1, <3>1 DEF canonical
    <3> QED BY <3>1, <3>2, <3>3
  <2> QED BY <2>1, <2>2
<1>3. PICK here : here = {d \in seen : d.port = n}
  OBVIOUS
<1>4. Saw(seen, n)
  BY <1>2
<1>5. Descriptor(n).port = n /\ Descriptor(n).usb = Usb[Behind(path)]
  BY <1>2 DEF Descriptor
<1>6. Descriptor(n) \in here /\ \A d \in here : d = Descriptor(n)
  BY <1>3, <1>4, <1>5 DEF Saw
<1>7. match_port_profile(n, seen)
        = IF here = {} THEN None ELSE first_match((CHOOSE d \in here : TRUE).usb)
  BY <1>3 DEF match_port_profile
<1>8. (CHOOSE d \in here : TRUE) = Descriptor(n)
  BY <1>6
<1> QED BY <1>1, <1>5, <1>6, <1>7, <1>8

\* What the host lists are descriptors.
LEMMA PortsType ==
  ASSUME Shaped
  PROVE  available_ports \subseteq Descriptors
<1>1. ASSUME NEW n \in Nodes, plugged[n] # None PROVE Descriptor(n) \in Descriptors
  <2>1. plugged[n] \in Units
    BY <1>1 DEF Shaped
  <2>2. Usb[plugged[n]] \in Ids
    BY <2>1, ConstantsAssumption
  <2> QED BY <2>2 DEF Descriptor, Descriptors
<1> QED BY <1>1 DEF available_ports

\* The device behind a path.
LEMMA BehindType ==
  ASSUME NEW path \in Paths, Shaped
  PROVE  Behind(path) \in Units \cup {None}
  BY ConstantsAssumption DEF Behind, Paths, Shaped

\* What is listed is there.
LEMMA PortsSeen ==
  ASSUME NEW n \in Nodes, plugged[n] # None
  PROVE  Saw(available_ports, n)
  BY DEF Saw, available_ports, Descriptor

-----------------------------------------------------------------------------
(* The invariant *)

\* What was found out stays true while nothing moves.
LEMMA StillSound ==
  ASSUME NEW d, Sound(d), UNCHANGED <<profiles, host>>
  PROVE  Sound(d)'
<1>1. UNCHANGED <<profiles, plugged, moves, settled>>
  BY DEF host
<1>2. Dated(d)' /\ SawStill(d)'
  BY <1>1 DEF Sound, Dated, SawStill, SitsIn, Saw, Descriptor
<1>3. ResolvedStill(d)' /\ Governed(d)'
  BY <1>1 DEF Sound, ResolvedStill, SitsBehind, Verdict, Governed, Governs, Behind, SatStill,
              profile_matches_port
<1> QED BY <1>2, <1>3 DEF Sound

\* The primes of a call's facts are the facts of the next state's call.
LEMMA SoundNext ==
  ASSUME NEW o \in Opens, NEW d, d = call'[o], Sound(d)'
  PROVE  Sound(call[o])'
  BY DEF Sound, Dated, SawStill, ResolvedStill, Verdict, Governed, SatStill

\* A step of one open leaves the others as they are.
LEMMA OthersStay ==
  ASSUME ProfilesInv, NEW o \in Opens, NEW c \in Calls, Set(o, c),
         UNCHANGED <<profiles, host>>, Sound(c)
  PROVE  ProfilesInv'
<1>1. call' \in [Opens -> Calls] /\ call'[o] = c
      /\ \A q \in Opens \ {o} : call'[q] = call[q]
  BY DEF ProfilesInv, Shaped, Set
<1>2. Shaped'
  BY <1>1 DEF ProfilesInv, Shaped, host
<1>3. ASSUME NEW q \in Opens PROVE Sound(call[q])'
  <2>1. PICK d : d = call'[q]
    OBVIOUS
  <2>2. Sound(d)
    BY <1>1, <2>1 DEF ProfilesInv
  <2>3. Sound(d)'
    BY <2>2, StillSound
  <2> QED BY <2>1, <2>3, SoundNext
<1> QED BY <1>2, <1>3 DEF ProfilesInv

\* In the beginning nothing is opened.
LEMMA InitSound == Init => ProfilesInv
<1> SUFFICES ASSUME Init PROVE ProfilesInv
  OBVIOUS
<1>1. profiles \in Seq(Profiles)
  <2>1. Cardinality(Profiles) \in Nat
    BY ConstantsAssumption, FS_CardinalityType
  <2>2. <<>> \in Seq(Profiles)
    OBVIOUS
  <2>3. CASE profiles \in [1..Cardinality(Profiles) -> Profiles]
    BY <2>1, <2>3
  <2> QED BY <2>2, <2>3 DEF Init, load_devices, parse_devices
<1>2. Idle \in Calls
  <2>1. {} \in SUBSET Descriptors
    OBVIOUS
  <2> QED BY <2>1 DEF Idle, Calls, Stages
<1>3. Shaped
  BY <1>1, <1>2, ConstantsAssumption DEF Init, Shaped
<1>4. Sound(Idle)
  BY DEF Init, Sound, Dated, SawStill, ResolvedStill, Governed, SatStill, Idle
<1> QED BY <1>3, <1>4 DEF Init, ProfilesInv

\* A refused open stays sound.
LEMMA RefusedSound ==
  ASSUME ProfilesInv, NEW o \in Opens
  PROVE  LET c == [call[o] EXCEPT !.stage = "refused"] IN c \in Calls /\ Sound(c)
<1>1. call[o] \in Calls /\ Sound(call[o])
  BY DEF ProfilesInv, Shaped
<1>2. PICK c : c = [call[o] EXCEPT !.stage = "refused"]
  OBVIOUS
<1>3. c \in Calls /\ c.stage = "refused" /\ c.at = call[o].at /\ c.since = call[o].since
  BY <1>1, <1>2 DEF Calls, Stages
<1>4. Sound(c)
  BY <1>1, <1>3 DEF Sound, Dated, SawStill, ResolvedStill, Governed, SatStill
<1> QED BY <1>2, <1>3, <1>4

\* Refusing an open keeps the invariant.
LEMMA RefuseKeeps ==
  ASSUME ProfilesInv, NEW o \in Opens, Refuse(o), UNCHANGED <<profiles, host>>
  PROVE  ProfilesInv'
  BY RefusedSound, OthersStay DEF Refuse

\* Start puts in a request, or refuses it.
LEMMA StartKeeps ==
  ASSUME ProfilesInv, NEW o \in Opens, Start(o)
  PROVE  ProfilesInv'
<1>1. PICK port \in Paths \cup {None}, device \in Names \cup Strangers \cup {None} :
        IF (port = None) = (device = None) THEN Refuse(o)
        ELSE Set(o, [Idle EXCEPT !.stage = "resolving", !.port = port, !.device = device])
  BY DEF Start
<1>2. UNCHANGED <<profiles, host>>
  BY DEF Start
<1>3. CASE (port = None) = (device = None)
  BY <1>1, <1>2, <1>3, RefuseKeeps
<1>4. CASE (port = None) # (device = None)
  <2>1. PICK c : c = [Idle EXCEPT !.stage = "resolving", !.port = port, !.device = device]
    OBVIOUS
  <2>2. /\ c.stage = "resolving" /\ c.port = port /\ c.device = device /\ c.at = 0
        /\ c.since = 0 /\ c.seen = {} /\ c.profile = None /\ c.unit = None
        /\ c = [stage |-> "resolving", port |-> port, device |-> device, seen |-> {}, at |-> 0,
                profile |-> None, unit |-> None, since |-> 0]
    BY <2>1 DEF Idle
  <2>3. c \in Calls
    <3>1. {} \in SUBSET Descriptors
      OBVIOUS
    <3> QED BY <2>2, <3>1 DEF Calls, Stages
  <2>4. Sound(c)
    BY <1>4, <2>2 DEF ProfilesInv, Shaped, Sound, Dated, SawStill, ResolvedStill, Governed,
                      SatStill
  <2> QED BY <1>1, <1>2, <1>4, <2>1, <2>3, <2>4, OthersStay
<1> QED BY <1>3, <1>4

\* A device is resolved to a node it is behind.
LEMMA ResolveDeviceKeeps ==
  ASSUME ProfilesInv, NEW o \in Opens, resolve_device(o)
  PROVE  ProfilesInv'
<1>1. UNCHANGED <<profiles, host>> /\ call[o].device # None
  BY DEF resolve_device
<1>2. CASE Refuse(o)
  BY <1>1, <1>2, RefuseKeeps
<1>3. ASSUME NEW i \in DOMAIN profiles, NEW d \in filter_allowlisted(available_ports),
             profiles[i].name = call[o].device, profile_matches_port(profiles[i], d.usb),
             Set(o, [call[o] EXCEPT !.stage = "resolved", !.port = d.port,
                                    !.profile = profiles[i], !.at = moves])
      PROVE  ProfilesInv'
  <2>1. PICK n \in Nodes : plugged[n] # None /\ d = Descriptor(n)
    BY <1>3 DEF filter_allowlisted, available_ports
  <2>2. d.port = n /\ d.usb = Usb[plugged[n]]
    BY <2>1 DEF Descriptor
  <2>3. call[o] \in Calls /\ profiles[i] \in Profiles /\ moves \in Nat
    BY <1>3 DEF ProfilesInv, Shaped
  <2>4. PICK c : c = [call[o] EXCEPT !.stage = "resolved", !.port = d.port,
                                     !.profile = profiles[i], !.at = moves]
    OBVIOUS
  <2>5. /\ c.stage = "resolved" /\ c.port = n /\ c.profile = profiles[i] /\ c.at = moves
        /\ c.device = call[o].device /\ c.since = call[o].since
    BY <2>2, <2>3, <2>4 DEF Calls
  <2>6. c \in Calls
    BY <2>2, <2>3, <2>4 DEF Calls, Stages, Paths
  <2>7. Verdict(c, Behind(c.port))
    <3>1. Behind(c.port) = plugged[n]
      BY <2>5 DEF Behind
    <3> QED BY <1>1, <1>3, <2>2, <2>5, <3>1 DEF Verdict
  <2>8. Sound(c)
    <3>1. Dated(c)
      BY <1>1, <2>5 DEF ProfilesInv, Shaped, Sound, Dated, Paths
    <3> QED BY <2>5, <2>7, <3>1 DEF Sound, SawStill, ResolvedStill, Governed, SatStill
  <2> QED BY <1>1, <1>3, <2>4, <2>6, <2>8, OthersStay
<1> QED BY <1>2, <1>3 DEF resolve_device

\* Enumerating the ports, or finding no profiles at all.
LEMMA EnumerateKeeps ==
  ASSUME ProfilesInv, NEW o \in Opens, Enumerate(o)
  PROVE  ProfilesInv'
<1>1. UNCHANGED <<profiles, host>> /\ call[o].device = None
      /\ call[o].stage = "resolving" /\ call[o] \in Calls /\ Sound(call[o])
  BY DEF Enumerate, ProfilesInv, Shaped
<1>2. moves \in Nat /\ call[o].port \in Paths
  BY <1>1 DEF ProfilesInv, Shaped, Sound, Dated
<1>3. CASE Refuse(o)
  BY <1>1, <1>3, RefuseKeeps
<1>4. CASE /\ profiles # <<>>
           /\ Set(o, [call[o] EXCEPT !.stage = "enumerated", !.seen = available_ports,
                                     !.at = moves])
  <2>1. PICK c : c = [call[o] EXCEPT !.stage = "enumerated", !.seen = available_ports,
                                     !.at = moves]
    OBVIOUS
  <2>2. available_ports \subseteq Descriptors
    BY PortsType DEF ProfilesInv
  <2>3. /\ c \in Calls /\ c.stage = "enumerated" /\ c.seen = available_ports /\ c.at = moves
        /\ c.device = None /\ c.port = call[o].port /\ c.since = call[o].since
    BY <1>1, <1>2, <2>1, <2>2 DEF Calls, Stages
  <2>4. Sound(c)
    <3>1. Dated(c)
      BY <1>1, <1>2, <2>3 DEF Sound, Dated
    <3>2. SawStill(c)
      BY <2>3, PortsSeen DEF SawStill, SitsIn
    <3> QED BY <2>3, <3>1, <3>2 DEF Sound, ResolvedStill, Governed, SatStill
  <2> QED BY <1>1, <1>4, <2>1, <2>3, <2>4, OthersStay
<1>5. CASE /\ profiles = <<>>
           /\ Set(o, [call[o] EXCEPT !.stage = "resolved", !.at = moves])
  <2>1. PICK c : c = [call[o] EXCEPT !.stage = "resolved", !.at = moves]
    OBVIOUS
  <2>2. /\ c \in Calls /\ c.stage = "resolved" /\ c.at = moves
        /\ c.device = None /\ c.port = call[o].port /\ c.profile = call[o].profile
        /\ c.since = call[o].since
    BY <1>1, <1>2, <2>1 DEF Calls, Stages
  <2>3. c.profile = None
    BY <1>1, <2>2 DEF Sound, Dated
  <2>4. Governs(None, Usb[Behind(c.port)])
    BY <1>5 DEF Governs
  <2>5. Sound(c)
    <3>1. Dated(c)
      BY <1>1, <1>2, <2>2 DEF Sound, Dated
    <3> QED BY <2>2, <2>3, <2>4, <3>1 DEF Sound, SawStill, ResolvedStill, Verdict, Governed,
                                          SatStill
  <2> QED BY <1>1, <1>5, <2>1, <2>2, <2>5, OthersStay
<1> QED BY <1>3, <1>4, <1>5 DEF Enumerate

\* The path is resolved against what was enumerated.
LEMMA ResolvePortKeeps ==
  ASSUME ProfilesInv, NEW o \in Opens, resolve_port_profile(o)
  PROVE  ProfilesInv'
<1>1. /\ UNCHANGED <<profiles, host>>
      /\ call[o].stage = "enumerated" /\ call[o] \in Calls /\ Sound(call[o])
      /\ moves \in Nat
  BY DEF resolve_port_profile, ProfilesInv, Shaped
<1>2. /\ call[o].device = None /\ call[o].port \in Paths /\ call[o].at <= moves
      /\ \A n \in Nodes : SitsIn(n, call[o].at) => Saw(call[o].seen, n)
  BY <1>1 DEF Sound, Dated, SawStill
<1>3. PICK p : p = match_port_profile(canonical(call[o].port), call[o].seen)
  OBVIOUS
<1>4. p \in Profiles \cup {None}
  BY <1>3, FirstMatchGoverns DEF match_port_profile, ProfilesInv, Shaped
<1>5. PICK c : c = [call[o] EXCEPT !.stage = "resolved", !.seen = {}, !.profile = p]
  OBVIOUS
<1>6. /\ c \in Calls /\ c.stage = "resolved" /\ c.profile = p /\ c.device = None
      /\ c.port = call[o].port /\ c.at = call[o].at /\ c.since = call[o].since
  BY <1>1, <1>2, <1>4, <1>5 DEF Calls, Stages
<1>7. ASSUME SitsBehind(c.port, c.at)
      PROVE  Governs(p, Usb[Behind(c.port)])
  <2>1. Behind(c.port) # None /\ settled[Behind(c.port)] <= c.at
    BY <1>7 DEF SitsBehind
  <2>2. \A n \in Nodes : plugged[n] = Behind(c.port) => Saw(call[o].seen, n)
    BY <1>2, <1>6, <2>1 DEF SitsIn
  <2>3. p = first_match(Usb[Behind(c.port)])
    BY <1>2, <1>3, <1>6, <2>1, <2>2, MatchFollowsPath
  <2> QED BY <2>3, FirstMatchGoverns DEF ProfilesInv, Shaped
<1>8. Sound(c)
  <2>1. Dated(c)
    BY <1>1, <1>2, <1>6 DEF Sound, Dated
  <2> QED BY <1>6, <1>7, <2>1 DEF Sound, SawStill, ResolvedStill, Verdict, Governed, SatStill
<1> QED BY <1>1, <1>3, <1>5, <1>6, <1>8, OthersStay DEF resolve_port_profile

\* A session reaches the device that is behind the path at that moment.
LEMMA ConnectKeeps ==
  ASSUME ProfilesInv, NEW o \in Opens, Connect(o)
  PROVE  ProfilesInv'
<1>1. /\ UNCHANGED <<profiles, host>>
      /\ call[o].stage = "resolved" /\ call[o] \in Calls /\ Sound(call[o])
      /\ moves \in Nat
  BY DEF Connect, ProfilesInv, Shaped
<1>2. CASE Refuse(o)
  BY <1>1, <1>2, RefuseKeeps
<1>3. CASE call[o].port \in Allowed /\ Behind(call[o].port) # None /\ Opened(o)
  <2>1. call[o].port \in Paths
    BY <1>3, ConstantsAssumption
  <2>2. Behind(call[o].port) \in Units
    BY <1>3, <2>1, BehindType DEF ProfilesInv
  <2>3. PICK u : u = Behind(call[o].port)
    OBVIOUS
  <2>4. PICK c : c = [call[o] EXCEPT !.stage = "open", !.unit = u, !.since = settled[u]]
    OBVIOUS
  <2>5. settled[u] \in Nat /\ settled[u] <= moves
    BY <1>1, <2>2, <2>3 DEF ProfilesInv, Shaped
  <2>6. /\ c \in Calls /\ c.stage = "open" /\ c.unit = u /\ c.since = settled[u]
        /\ c.at = call[o].at /\ c.port = call[o].port
        /\ c.device = call[o].device /\ c.profile = call[o].profile
    BY <1>1, <2>2, <2>3, <2>4, <2>5 DEF Calls, Stages
  <2>7. Dated(c)
    BY <1>1, <1>3, <2>2, <2>3, <2>5, <2>6 DEF Sound, Dated
  <2>8. Governed(c)
    <3>1. ASSUME SatStill(c) PROVE Verdict(call[o], u)
      <4>1. SitsBehind(call[o].port, call[o].at)
        BY <1>3, <2>3, <2>6, <3>1 DEF SatStill, SitsBehind
      <4> QED BY <1>1, <2>3, <4>1 DEF Sound, ResolvedStill
    <3> QED BY <2>6, <3>1 DEF Governed, Verdict
  <2>9. Sound(c)
    BY <2>6, <2>7, <2>8 DEF Sound, SawStill, ResolvedStill
  <2>10. Set(o, c)
    BY <1>3, <2>3, <2>4 DEF Opened
  <2> QED BY <1>1, <2>6, <2>9, <2>10, OthersStay
<1> QED BY <1>2, <1>3 DEF Connect

\* What a move leaves in place for the opens that have read the host before.
StaysIn(n) ==
  plugged'[n] # None /\ settled'[plugged'[n]] <= moves =>
    plugged[n] = plugged'[n] /\ settled[plugged[n]] = settled'[plugged'[n]]

\* What a move does not touch has sat still for as long as before it.
LEMMA MoveKeeps ==
  ASSUME ProfilesInv, moves < MaxMoves, moves' = moves + 1, UNCHANGED <<profiles, call>>,
         plugged' \in [Nodes -> Units \cup {None}], settled' \in [Units -> 0..moves'],
         \A n \in Nodes : StaysIn(n)
  PROVE  ProfilesInv'
<1>1. Shaped'
  BY ConstantsAssumption DEF ProfilesInv, Shaped
<1>2. ASSUME NEW o \in Opens PROVE Sound(call[o])'
  <2>1. PICK c : c = call[o]
    OBVIOUS
  <2>2. Sound(c) /\ c \in Calls /\ c.at \in Nat /\ c.since \in Nat /\ moves \in Nat
        /\ c.at <= moves /\ moves' = moves + 1
    BY <2>1 DEF ProfilesInv, Shaped, Calls, Sound, Dated
  <2>3. Dated(c)'
    BY <2>2 DEF Sound, Dated
  <2>4. ASSUME NEW n \in Nodes, plugged'[n] # None, settled'[plugged'[n]] <= c.at
        PROVE  plugged[n] = plugged'[n] /\ settled[plugged[n]] <= c.at
    <3>1. plugged'[n] \in Units
      BY <2>4
    <3>2. settled'[plugged'[n]] \in Nat
      BY <3>1, <2>2
    <3>3. settled'[plugged'[n]] <= moves
      BY <2>2, <2>4, <3>2
    <3> QED BY <2>4, <3>3 DEF StaysIn
  <2>5. SawStill(c)'
    <3> SUFFICES ASSUME c.stage = "enumerated", NEW n \in Nodes, SitsIn(n, c.at)'
                 PROVE  c.device = None /\ Saw(c.seen, n)'
      BY <2>2 DEF Sound, SawStill
    <3>1. plugged[n] = plugged'[n] /\ SitsIn(n, c.at)
      BY <2>4 DEF SitsIn
    <3> QED BY <2>2, <3>1 DEF Sound, SawStill, Saw, Descriptor
  <2>6. ResolvedStill(c)'
    <3> SUFFICES ASSUME c.stage = "resolved", SitsBehind(c.port, c.at)'
                 PROVE  Verdict(c, Behind(c.port))'
      BY DEF ResolvedStill
    <3>1. PICK u : u = Behind(c.port)'
      OBVIOUS
    <3>2. u # None /\ settled'[u] <= c.at /\ c.port \in Paths
      BY <2>2, <3>1 DEF SitsBehind, Sound, Dated
    <3>3. PICK n \in Nodes : plugged'[n] = u /\ (c.port \in Nodes => n = c.port)
      BY <3>1, <3>2 DEF Behind
    <3>4. plugged[n] = u /\ settled[u] <= c.at
      BY <2>4, <3>2, <3>3
    <3>5. Behind(c.port) = u
      <4>1. CASE c.port \in Nodes
        BY <3>3, <3>4, <4>1 DEF Behind
      <4>2. CASE c.port \notin Nodes
        <5>1. u = LinkOf[c.port]
          BY <3>1, <3>2, <4>2 DEF Behind
        <5> QED BY <3>4, <4>2, <5>1 DEF Behind
      <4> QED BY <4>1, <4>2
    <3>6. Verdict(c, u)
      BY <2>2, <3>2, <3>4, <3>5 DEF Sound, ResolvedStill, SitsBehind
    <3> QED BY <3>1, <3>6 DEF Verdict, Governs, profile_matches_port
  <2>7. Governed(c)'
    BY <2>2 DEF Sound, Governed, Verdict, Governs, SatStill, profile_matches_port
  <2>8. Sound(c)'
    BY <2>3, <2>5, <2>6, <2>7 DEF Sound
  <2> QED BY <2>1, <2>8, SoundNext
<1> QED BY <1>1, <1>2 DEF ProfilesInv

\* Plugging a device in dates it later than every open's enumeration.
LEMMA PlugKeeps == ASSUME ProfilesInv, Plug PROVE ProfilesInv'
<1>1. PICK n \in Nodes, u \in Units :
        /\ \A m \in Nodes : plugged[m] # u
        /\ plugged' = [plugged EXCEPT ![n] = u] /\ settled' = [settled EXCEPT ![u] = moves + 1]
  BY DEF Plug
<1>2. /\ moves < MaxMoves /\ moves' = moves + 1 /\ UNCHANGED <<profiles, call>> /\ moves \in Nat
      /\ plugged \in [Nodes -> Units \cup {None}] /\ settled \in [Units -> 0..moves]
  BY DEF Plug, ProfilesInv, Shaped
<1>3. plugged' \in [Nodes -> Units \cup {None}] /\ settled' \in [Units -> 0..moves']
  BY <1>1, <1>2
<1>4. ASSUME NEW m \in Nodes PROVE StaysIn(m)
  <2>1. CASE m = n
    <3>1. settled'[plugged'[m]] = moves + 1
      BY <1>1, <1>2, <2>1
    <3> QED BY <1>2, <3>1 DEF StaysIn
  <2>2. CASE m # n
    <3>1. plugged'[m] = plugged[m] /\ plugged[m] # u
      BY <1>1, <1>2, <2>2
    <3>2. settled'[plugged[m]] = settled[plugged[m]] \/ plugged[m] = None
      BY <1>1, <1>2, <3>1
    <3> QED BY <3>1, <3>2 DEF StaysIn
  <2> QED BY <2>1, <2>2
<1> QED BY <1>2, <1>3, <1>4, MoveKeeps

\* Unplugging one leaves the others where they are.
LEMMA UnplugKeeps == ASSUME ProfilesInv, Unplug PROVE ProfilesInv'
<1>1. PICK n \in Nodes : plugged' = [plugged EXCEPT ![n] = None]
  BY DEF Unplug
<1>2. /\ moves < MaxMoves /\ moves' = moves + 1 /\ UNCHANGED <<profiles, settled, call>>
      /\ moves \in Nat
      /\ plugged \in [Nodes -> Units \cup {None}] /\ settled \in [Units -> 0..moves]
  BY DEF Unplug, ProfilesInv, Shaped
<1>3. plugged' \in [Nodes -> Units \cup {None}] /\ settled' \in [Units -> 0..moves']
  BY <1>1, <1>2
<1>4. \A m \in Nodes : StaysIn(m)
  BY <1>1, <1>2 DEF StaysIn
<1> QED BY <1>2, <1>3, <1>4, MoveKeeps

\* Every step keeps what the opens have found out.
LEMMA ProfilesInvariant == Spec => []ProfilesInv
<1>1. ProfilesInv /\ [Next]_vars => ProfilesInv'
  <2> SUFFICES ASSUME ProfilesInv, [Next]_vars PROVE ProfilesInv'
    OBVIOUS
  <2>1. ASSUME UNCHANGED <<profiles, host, call>> PROVE ProfilesInv'
    <3>1. Shaped'
      BY <2>1 DEF ProfilesInv, Shaped, host
    <3>2. ASSUME NEW o \in Opens PROVE Sound(call[o])'
      <4>1. PICK d : d = call'[o]
        OBVIOUS
      <4>2. Sound(d)
        BY <2>1, <4>1 DEF ProfilesInv
      <4>3. Sound(d)'
        BY <2>1, <4>2, StillSound
      <4> QED BY <4>1, <4>3, SoundNext
    <3> QED BY <3>1, <3>2 DEF ProfilesInv
  <2>2. CASE list_ports
    BY <2>1, <2>2 DEF list_ports
  <2>3. ASSUME NEW o \in Opens, Start(o) PROVE ProfilesInv'
    BY <2>3, StartKeeps
  <2>4. ASSUME NEW o \in Opens, resolve_device(o) PROVE ProfilesInv'
    BY <2>4, ResolveDeviceKeeps
  <2>5. ASSUME NEW o \in Opens, Enumerate(o) PROVE ProfilesInv'
    BY <2>5, EnumerateKeeps
  <2>6. ASSUME NEW o \in Opens, resolve_port_profile(o) PROVE ProfilesInv'
    BY <2>6, ResolvePortKeeps
  <2>7. ASSUME NEW o \in Opens, Connect(o) PROVE ProfilesInv'
    BY <2>7, ConnectKeeps
  <2>8. CASE Plug
    BY <2>8, PlugKeeps
  <2>9. CASE Unplug
    BY <2>9, UnplugKeeps
  <2>10. CASE UNCHANGED vars
    BY <2>1, <2>10 DEF vars
  <2> QED BY <2>2, <2>3, <2>4, <2>5, <2>6, <2>7, <2>8, <2>9, <2>10 DEF Next
<1> QED BY <1>1, InitSound, PTL DEF Spec

-----------------------------------------------------------------------------
(* What list_ports has told *)

\* The last answer of list_ports tells of each device the first match.
Told ==
  /\ listed \subseteq [port : Nodes, usb : Ids, device : Profiles \cup {None}]
  /\ \A d \in listed : d.device = first_match(d.usb)

\* One profile, or none, governs a device.
LEMMA GovernsOne ==
  ASSUME NEW usb, NEW p, NEW q, profiles \in Seq(Profiles), Governs(p, usb), Governs(q, usb)
  PROVE  p = q
<1>1. DOMAIN profiles \subseteq Int
  OBVIOUS
<1>2. ASSUME NEW i \in DOMAIN profiles, NEW j \in DOMAIN profiles,
             profile_matches_port(profiles[i], usb), profile_matches_port(profiles[j], usb),
             \A k \in 1..i - 1 : ~profile_matches_port(profiles[k], usb),
             \A k \in 1..j - 1 : ~profile_matches_port(profiles[k], usb)
      PROVE  i = j
  <2>1. i \in Nat \ {0} /\ j \in Nat \ {0}
    OBVIOUS
  <2>2. ~(i < j) /\ ~(j < i)
    BY <1>2, <2>1
  <2> QED BY <2>1, <2>2
<1>3. CASE \E i \in DOMAIN profiles : profile_matches_port(profiles[i], usb)
  <2>1. PICK i \in DOMAIN profiles :
          /\ p = profiles[i] /\ profile_matches_port(p, usb)
          /\ \A j \in 1..i - 1 : ~profile_matches_port(profiles[j], usb)
    BY <1>3 DEF Governs
  <2>2. PICK j \in DOMAIN profiles :
          /\ q = profiles[j] /\ profile_matches_port(q, usb)
          /\ \A k \in 1..j - 1 : ~profile_matches_port(profiles[k], usb)
    BY <1>3 DEF Governs
  <2> QED BY <1>2, <2>1, <2>2
<1>4. CASE \A i \in DOMAIN profiles : ~profile_matches_port(profiles[i], usb)
  BY <1>4 DEF Governs
<1> QED BY <1>3, <1>4

\* A listing tells what is plugged.
LEMMA ListingTells == ASSUME ProfilesInv, list_ports PROVE Told'
<1>1. /\ listed' = {[port |-> d.port, usb |-> d.usb, device |-> enrich_with_profiles(d.usb)] :
                      d \in filter_allowlisted(available_ports)}
      /\ UNCHANGED <<profiles, host, call>>
  BY DEF list_ports
<1>2. profiles \in Seq(Profiles) /\ available_ports \subseteq Descriptors
  BY PortsType DEF ProfilesInv, Shaped
<1>3. ASSUME NEW e \in listed'
      PROVE  /\ e \in [port : Nodes, usb : Ids, device : Profiles \cup {None}]
             /\ e.device = first_match(e.usb)
  <2>1. PICK d \in filter_allowlisted(available_ports) :
          e = [port |-> d.port, usb |-> d.usb, device |-> enrich_with_profiles(d.usb)]
    BY <1>1
  <2>2. d.port \in Nodes /\ d.usb \in Ids
    BY <1>2 DEF filter_allowlisted, Descriptors
  <2>3. PICK p : p = first_match(d.usb)
    OBVIOUS
  <2>4. p \in Profiles \cup {None}
    BY <1>2, <2>3, FirstMatchGoverns
  <2>5. e = [port |-> d.port, usb |-> d.usb, device |-> p]
    BY <2>1, <2>3 DEF enrich_with_profiles
  <2> QED BY <2>2, <2>3, <2>4, <2>5
<1>4. \A usb : first_match(usb)' = first_match(usb)
  BY <1>1 DEF first_match, Hits, profile_matches_port, Least
<1> QED BY <1>3, <1>4 DEF Told

\* It stays told, for the profiles never change.
LEMMA ToldInvariant == Spec => [](ProfilesInv /\ Told)
<1>1. Init => Told
  BY DEF Init, Told
<1>2. ProfilesInv /\ Told /\ [Next]_vars => Told'
  <2> SUFFICES ASSUME ProfilesInv, Told, [Next]_vars PROVE Told'
    OBVIOUS
  <2>1. ASSUME UNCHANGED <<profiles, listed>> PROVE Told'
    <3>1. \A usb : first_match(usb)' = first_match(usb)
      BY <2>1 DEF first_match, Hits, profile_matches_port, Least
    <3> QED BY <2>1, <3>1 DEF Told
  <2>2. CASE list_ports
    BY <2>2, ListingTells
  <2>3. ASSUME NEW o \in Opens,
               \/ Start(o) \/ resolve_device(o) \/ Enumerate(o) \/ resolve_port_profile(o)
               \/ Connect(o)
        PROVE  Told'
    BY <2>1, <2>3 DEF Start, resolve_device, Enumerate, resolve_port_profile, Connect
  <2>4. CASE Plug \/ Unplug
    BY <2>1, <2>4 DEF Plug, Unplug
  <2>5. CASE UNCHANGED vars
    BY <2>1, <2>5 DEF vars
  <2> QED BY <2>2, <2>3, <2>4, <2>5 DEF Next
<1> QED BY <1>1, <1>2, ProfilesInvariant, PTL DEF Spec

-----------------------------------------------------------------------------
(* Theorems *)

\* GovernedByHardware: a session has the profile of the hardware it reached, if
\* that was not itself replugged between the reads, for every set of profiles in
\* every order, every allowlist and every number of nodes, symlinks, devices,
\* opens and moves.
THEOREM HardwareGoverned == Spec => []GovernedByHardware
<1>1. ProfilesInv => GovernedByHardware
  BY DEF ProfilesInv, Sound, Governed, Verdict, GovernedByHardware
<1> QED BY <1>1, ProfilesInvariant, PTL

\* The profile a session got is the one list_ports shows for its device, before
\* the open or after, through whichever port: match_port_profile and
\* enrich_with_profiles agree.
THEOREM ListingTold == Spec => []AdvertisedIsApplied
<1>1. ProfilesInv /\ Told => AdvertisedIsApplied
  <2> SUFFICES ASSUME ProfilesInv, Told, NEW o \in Opens, NEW d \in listed,
                      SatStill(call[o]), call[o].device = None, d.usb = Usb[call[o].unit]
               PROVE  call[o].profile = d.device
    BY DEF AdvertisedIsApplied
  <2>1. profiles \in Seq(Profiles) /\ Governs(call[o].profile, d.usb)
    BY DEF ProfilesInv, Shaped, Sound, Governed, Verdict
  <2>2. Governs(d.device, d.usb)
    BY <2>1, FirstMatchGoverns DEF Told
  <2> QED BY <2>1, <2>2, GovernsOne
<1> QED BY <1>1, ToldInvariant, PTL

\* The types of the host's view and of every open; a session has a device and a
\* path the allowlist admits.
THEOREM TypeCorrect == Spec => []TypeOK
<1>1. ProfilesInv /\ Told => TypeOK
  <2> SUFFICES ASSUME ProfilesInv, Told PROVE TypeOK
    OBVIOUS
  <2>1. ASSUME NEW o \in Opens
        PROVE  LET c == call[o] IN
               /\ c.stage \in {"idle", "resolving", "enumerated", "resolved", "open", "refused"}
               /\ c.port \in Paths \cup {None} /\ c.device \in Names \cup Strangers \cup {None}
               /\ c.seen \subseteq [port : Nodes, usb : Ids]
               /\ c.profile \in Profiles \cup {None}
               /\ c.at \in 0..moves /\ c.since \in 0..moves
               /\ c.unit \in Units \cup {None}
               /\ c.stage = "open" => c.unit \in Units /\ c.port \in Allowed
    <3>1. call[o] \in Calls /\ Dated(call[o]) /\ moves \in Nat
      BY DEF ProfilesInv, Shaped, Sound
    <3> QED BY <3>1 DEF Calls, Stages, Descriptors, Dated
  <2> QED BY <2>1 DEF TypeOK, ProfilesInv, Shaped, Told
<1> QED BY <1>1, ToldInvariant, PTL
=============================================================================
