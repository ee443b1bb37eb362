--------------------------- MODULE DeviceProfiles ---------------------------
(***************************************************************************)
(* Which device profile governs a session: list_ports, resolve_device and  *)
(* resolve_port_profile of src/src/serial/mod.rs, the profiles of          *)
(* src/src/config.rs, and the use serial.open of src/src/mcp/mod.rs makes  *)
(* of them.  USB devices are plugged and unplugged at any time; the host's *)
(* port list, its symlinks and the port itself are read one after another. *)
(*                                                                         *)
(* A profile stands for every control it carries (baud, write policy,      *)
(* console settings, rules): resolved_from_profile copies them all.  What  *)
(* a caller may override of them is the subject of WriteGate.              *)
(***************************************************************************)
EXTENDS Naturals, Sequences, FiniteSets

CONSTANTS
  Opens,     \* calls of serial.open
  Nodes,     \* kernel names of serial ports, such as /dev/ttyUSB0
  Aliases,   \* udev symlinks, which follow a device from node to node
  Units,     \* USB devices that can be plugged into this host
  Usb,       \* Usb[u]: serial, vid and pid that device u reports
  LinkOf,    \* LinkOf[a]: the device symlink a follows
  Profiles,  \* the profiles of devices.toml
  Strangers, \* names of no profile
  Allowed,   \* paths the allowlist admits
  MaxMoves,  \* bound: devices are plugged or unplugged this often
  None       \* "no value"

Paths == Nodes \cup Aliases
Names == {p.name : p \in Profiles}
Ids == [serial : {Usb[u].serial : u \in Units}, vid : {Usb[u].vid : u \in Units},
        pid : {Usb[u].pid : u \in Units}]

ASSUME ConstantsAssumption ==
  /\ Usb \in [Units -> Ids] /\ LinkOf \in [Aliases -> Units]
  /\ Nodes \cap Aliases = {} /\ Allowed \subseteq Paths
  /\ MaxMoves \in Nat
  /\ None \notin Units /\ None \notin Profiles /\ None \notin Paths /\ None \notin Names
  /\ IsFiniteSet(Profiles)
  \* match_serial is a required string.
  /\ \A p \in Profiles : p.match_serial # None
  \* A TOML key names one table.
  /\ \A p, q \in Profiles : p.name = q.name => p = q

VARIABLES
  profiles,  \* the server's profiles, in the order the process got them
  plugged,   \* plugged[n]: the device behind node n
  moves,     \* how often that has changed
  settled,   \* settled[u]: moves, when device u was plugged in where it is
  listed,    \* the last answer of list_ports
  call       \* call[o]: how far an open is, and what it has found out

host == <<plugged, moves, settled>>
vars == <<profiles, host, listed, call>>

\* parse_devices collects a HashMap: any order.  load_devices: no file, no
\* profiles.
parse_devices ==
  {s \in [1..Cardinality(Profiles) -> Profiles] :
     \A i, j \in DOMAIN s : s[i] = s[j] => i = j}
load_devices == parse_devices \cup {<<>>}

Idle == [stage |-> "idle", port |-> None, device |-> None, seen |-> {}, at |-> 0,
         profile |-> None, unit |-> None, since |-> 0]

Init ==
  /\ profiles \in load_devices
  /\ plugged \in [Nodes -> Units \cup {None}]
  /\ \A m, n \in Nodes : plugged[m] = plugged[n] /\ plugged[m] # None => m = n
  /\ moves = 0
  /\ settled = [u \in Units |-> 0]
  /\ listed = {}
  /\ call = [o \in Opens |-> Idle]

-----------------------------------------------------------------------------
(* Matching *)

Descriptor(n) == [port |-> n, usb |-> Usb[plugged[n]]]

\* External: the host's port list.
available_ports == {Descriptor(n) : n \in {m \in Nodes : plugged[m] # None}}

profile_matches_port(p, usb) ==
  /\ usb.serial = p.match_serial
  /\ p.match_vid \in {None, usb.vid}
  /\ p.match_pid \in {None, usb.pid}

Hits(usb) == {i \in DOMAIN profiles : profile_matches_port(profiles[i], usb)}
Least(S) == CHOOSE i \in S : \A j \in S : i <= j

\* profiles.iter().find: the first match, or none.
first_match(usb) == IF Hits(usb) = {} THEN None ELSE profiles[Least(Hits(usb))]

\* MUTANT: the last match wins.
EnrichWithLast(usb) ==
  IF Hits(usb) = {} THEN None
  ELSE profiles[CHOOSE i \in Hits(usb) : \A j \in Hits(usb) : j <= i]

enrich_with_profiles(usb) == first_match(usb)

filter_allowlisted(ports) == {d \in ports : d.port \in Allowed}

\* MUTANT: the caller's path is compared as it was written.
AsWritten(path) == path

\* External: realpath.  A node is its own name; a symlink exists while its
\* device is plugged.
canonical(path) ==
  IF path \in Aliases /\ \E n \in Nodes : plugged[n] = LinkOf[path]
  THEN CHOOSE n \in Nodes : plugged[n] = LinkOf[path]
  ELSE path

match_port_profile(path, ports) ==
  LET here == {d \in ports : d.port = path}
  IN IF here = {} THEN None ELSE first_match((CHOOSE d \in here : TRUE).usb)

-----------------------------------------------------------------------------
(* serial.list_ports *)

list_ports ==
  /\ listed' = {[port |-> d.port, usb |-> d.usb, device |-> enrich_with_profiles(d.usb)] :
                   d \in filter_allowlisted(available_ports)}
  /\ UNCHANGED <<profiles, host, call>>

-----------------------------------------------------------------------------
(* serial.open *)

Set(o, rec) == call' = [call EXCEPT ![o] = rec]
Refuse(o) == Set(o, [call[o] EXCEPT !.stage = "refused"])

\* A port or a device, not both, not neither.
Start(o) ==
  /\ call[o].stage = "idle"
  /\ \E port \in Paths \cup {None}, device \in Names \cup Strangers \cup {None} :
       IF (port = None) = (device = None) THEN Refuse(o)
       ELSE Set(o, [Idle EXCEPT !.stage = "resolving", !.port = port, !.device = device])
  /\ UNCHANGED <<profiles, host, listed>>

\* A name no profile has is refused before the host is asked for its ports.
resolve_device(o) ==
  /\ call[o].stage = "resolving" /\ call[o].device # None
  /\ \/ \E i \in DOMAIN profiles, d \in filter_allowlisted(available_ports) :
          /\ profiles[i].name = call[o].device
          /\ profile_matches_port(profiles[i], d.usb)
          /\ Set(o, [call[o] EXCEPT !.stage = "resolved", !.port = d.port,
                                    !.profile = profiles[i], !.at = moves])
     \* Unknown, not plugged, or the enumeration failed.
     \/ Refuse(o)
  /\ UNCHANGED <<profiles, host, listed>>

\* resolve_port_profile up to the enumeration, which may fail; without
\* profiles there is none.
Enumerate(o) ==
  /\ call[o].stage = "resolving" /\ call[o].device = None
  /\ IF profiles = <<>>
     THEN Set(o, [call[o] EXCEPT !.stage = "resolved", !.at = moves])
     ELSE \/ Set(o, [call[o] EXCEPT !.stage = "enumerated", !.seen = available_ports,
                                    !.at = moves])
          \/ Refuse(o)
  /\ UNCHANGED <<profiles, host, listed>>

\* The rest of it: the caller's path is resolved against what was enumerated.
resolve_port_profile(o) ==
  /\ call[o].stage = "enumerated"
  /\ Set(o, [call[o] EXCEPT !.stage = "resolved", !.seen = {},
               !.profile = match_port_profile(canonical(call[o].port), call[o].seen)])
  /\ UNCHANGED <<profiles, host, listed>>

\* The device a path leads to now.
Behind(path) ==
  IF path \in Nodes THEN plugged[path]
  ELSE IF \E n \in Nodes : plugged[n] = LinkOf[path] THEN LinkOf[path] ELSE None

\* The ghosts unit and since: which device, and since which move it is there.
Opened(o) ==
  LET unit == Behind(call[o].port) IN
  Set(o, [call[o] EXCEPT !.stage = "open", !.unit = unit, !.since = settled[unit]])

\* MUTANT: the manager trusts the path it is given.
ConnectUnchecked(o) ==
  /\ call[o].stage = "resolved"
  /\ \/ Behind(call[o].port) # None /\ Opened(o)
     \/ Refuse(o)
  /\ UNCHANGED <<profiles, host, listed>>

\* open_with_console_and_policy: the allowlist, then the operating system.  A
\* busy path, a full table or a system error may refuse the open as well.
Connect(o) ==
  /\ call[o].stage = "resolved"
  /\ \/ call[o].port \in Allowed /\ Behind(call[o].port) # None /\ Opened(o)
     \/ Refuse(o)
  /\ UNCHANGED <<profiles, host, listed>>

-----------------------------------------------------------------------------
(* The hands at the plugs *)

Plug ==
  /\ moves < MaxMoves
  /\ \E n \in Nodes, u \in Units :
       /\ plugged[n] = None /\ \A m \in Nodes : plugged[m] # u
       /\ plugged' = [plugged EXCEPT ![n] = u]
       /\ settled' = [settled EXCEPT ![u] = moves + 1]
  /\ moves' = moves + 1
  /\ UNCHANGED <<profiles, listed, call>>

Unplug ==
  /\ moves < MaxMoves
  /\ \E n \in Nodes :
       /\ plugged[n] # None
       /\ plugged' = [plugged EXCEPT ![n] = None]
  /\ moves' = moves + 1
  /\ UNCHANGED <<profiles, settled, listed, call>>

Next ==
  \/ list_ports
  \/ \E o \in Opens :
       Start(o) \/ resolve_device(o) \/ Enumerate(o) \/ resolve_port_profile(o) \/ Connect(o)
  \/ Plug \/ Unplug

Spec == Init /\ [][Next]_vars

-----------------------------------------------------------------------------
(* Properties *)

\* Every variable holds a value of its type; a session has a device and a path
\* the allowlist admits.
TypeOK ==
  /\ profiles \in Seq(Profiles)
  /\ plugged \in [Nodes -> Units \cup {None}]
  /\ moves \in 0..MaxMoves
  /\ settled \in [Units -> 0..moves]
  /\ listed \subseteq [port : Nodes, usb : Ids, device : Profiles \cup {None}]
  /\ \A o \in Opens : LET c == call[o] IN
       /\ c.stage \in {"idle", "resolving", "enumerated", "resolved", "open", "refused"}
       /\ c.port \in Paths \cup {None} /\ c.device \in Names \cup Strangers \cup {None}
       /\ c.seen \subseteq [port : Nodes, usb : Ids]
       /\ c.profile \in Profiles \cup {None}
       /\ c.at \in 0..moves /\ c.since \in 0..moves
       /\ c.unit \in Units \cup {None}
       /\ c.stage = "open" => c.unit \in Units /\ c.port \in Allowed

\* p is the profile of the hardware that reports usb: it matches and none before it does;
\* or there is none.
Governs(p, usb) ==
  \/ \E i \in DOMAIN profiles :
       /\ p = profiles[i] /\ profile_matches_port(p, usb)
       /\ \A j \in 1..i - 1 : ~profile_matches_port(profiles[j], usb)
  \/ p = None /\ \A i \in DOMAIN profiles : ~profile_matches_port(profiles[i], usb)

\* The device a session reached has been where it is since before the open
\* asked for the ports, whatever else was plugged or unplugged meanwhile.
SatStill(c) == c.stage = "open" /\ c.since <= c.at

\* A session opened by a path, be it a node or a symlink, has the profile of the
\* hardware it reached; one opened by name has that profile, on hardware that
\* matches it: ADR 0005, as far as that very device was not replugged between
\* the reads of the port list, the symlink and the port
\* (resolve_device, resolve_port_profile, open_with_console_and_policy).
GovernedByHardware ==
  \A o \in Opens : LET c == call[o] IN SatStill(c) =>
    IF c.device = None THEN Governs(c.profile, Usb[c.unit])
    ELSE c.profile.name = c.device /\ profile_matches_port(c.profile, Usb[c.unit])

\* serial/mod.rs, at match_port_profile: the profile applied at open is the one
\* list_ports advertised for that port, before the open or after, and wherever
\* that device was at the time.
AdvertisedIsApplied ==
  \A o \in Opens, d \in listed : LET c == call[o] IN
    SatStill(c) /\ c.device = None /\ d.usb = Usb[c.unit] => c.profile = d.device

-----------------------------------------------------------------------------
(* Claims of the repository that the code does not keep *)

\* serial/mod.rs, at resolve_port_profile: controls belong to the hardware, so a
\* session opened by a path has the profile of the device it talks to.
ControlsFollowHardware ==
  \A o \in Opens : LET c == call[o] IN
    c.stage = "open" /\ c.device = None => Governs(c.profile, Usb[c.unit])

\* ADR 0005: the profile follows the hardware, not the name used to open it.
NameMakesNoDifference ==
  \A o \in Opens : LET c == call[o] IN
    SatStill(c) => Governs(c.profile, Usb[c.unit])
=============================================================================
