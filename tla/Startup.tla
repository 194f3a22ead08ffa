------------------------------- MODULE Startup -------------------------------
(***************************************************************************)
(* From a configuration file to the first advertisement: the choice of the *)
(* file (src/cli/actions/start.rs), Config::validate (src/config.rs), the  *)
(* conversion to HaRuntimeConfig that start_service_with_config begins     *)
(* with, the addresses that run_with_status parses and binds, and then     *)
(* HaWire, whose sender it is.  What start_ha_service does in between is   *)
(* in Service.  The peer has started already, with a configuration of its  *)
(* own.                                                                    *)
(***************************************************************************)
EXTENDS HaWire, FiniteSetsExt

CONSTANTS
  Unset,       \* an optional setting that is left out
  NoFile,      \* a place that names no file
  Unreadable,  \* a file that is missing, or is no Config
  SocketAddr,  \* the texts that parse as a std::net::SocketAddr
  Places,      \* what --config, GRUEZI_CONFIG and the default path hold
  Peers        \* the configurations of the peer

\* The settings that validate and try_from look at, and those a packet carries.
\* hooks holds the paths that are given.
Config ==
  [ mode : {"ha", "kv"},
    nodeId : Text \cup {Unset}, peer : Text \cup {Unset}, key : Text \cup {Unset},
    bind : Text, groupId : Text, interface : Text, addresses : Seq(Text), hooks : SUBSET Text,
    version : Byte, priority : Byte, deadFactor : Byte,
    interval : Nat, jitter : Nat, hookTimeout : Nat,
    authMode : {"none", "shared_key"},
    dataDir : Text, members : Seq(Text) ]

Blank(text) == \A i \in DOMAIN text : text[i] \in Whitespace

Trim(text) ==
  LET kept == {i \in DOMAIN text : text[i] \notin Whitespace}
  IN  IF kept = {} THEN <<>> ELSE SubSeq(text, Min(kept), Max(kept))

\* as_deref().map(trim).filter(not empty) has found something.
Given(setting) == setting # Unset /\ ~ Blank(setting)
-----------------------------------------------------------------------------
(* Config::validate *)

\* Mutant of ValidTexts: the group is not looked at.
ValidTextsAnyGroup(c) ==
  /\ Given(c.nodeId) /\ Given(c.peer) /\ ~ Blank(c.interface)
  /\ c.addresses # <<>> /\ \A i \in DOMAIN c.addresses : ~ Blank(c.addresses[i])
  /\ \A path \in c.hooks : ~ Blank(path)

\* With validate_hook_path.
ValidTexts(c) ==
  /\ Given(c.nodeId) /\ Given(c.peer) /\ ~ Blank(c.interface) /\ ~ Blank(c.groupId)
  /\ c.addresses # <<>> /\ \A i \in DOMAIN c.addresses : ~ Blank(c.addresses[i])
  /\ \A path \in c.hooks : ~ Blank(path)

ValidNumbers(c) ==
  /\ c.priority > 0 /\ c.interval > 0 /\ c.version > 0 /\ c.hookTimeout > 0
  /\ c.deadFactor >= 2 /\ c.jitter < c.interval

\* Mutant of ValidAuth: a key of white space passes.
ValidAuthAnyKey(c) == (c.authMode = "none") <=> (c.key = Unset)

ValidAuth(c) == IF c.authMode = "none" THEN c.key = Unset ELSE Given(c.key)

\* validate_ha: any of its checks ends it.
ValidHa(c) == ValidTexts(c) /\ ValidNumbers(c) /\ ValidAuth(c)

ValidKv(c) ==
  /\ ~ Blank(c.dataDir)
  /\ Len(c.members) >= 3 /\ \A i \in DOMAIN c.members : ~ Blank(c.members[i])

Valid(c) == IF c.mode = "ha" THEN ValidHa(c) ELSE ValidKv(c)
-----------------------------------------------------------------------------
(* HaRuntimeConfig::try_from *)

Convertible(c) ==
  /\ c.mode = "ha"
  /\ Given(c.nodeId) /\ Given(c.peer)
  /\ c.authMode = "shared_key" => Given(c.key)

\* Mutant of Runtime: the id is taken as it is written.
RuntimeUntrimmed(c) ==
  [ version |-> c.version, priority |-> c.priority, deadFactor |-> c.deadFactor,
    interval |-> c.interval, nodeId |-> c.nodeId, groupId |-> c.groupId,
    key |-> IF c.authMode = "none" THEN NoKey ELSE Trim(c.key) ]

\* The id and the key are trimmed, the group is taken as it is written.
Runtime(c) ==
  [ version |-> c.version, priority |-> c.priority, deadFactor |-> c.deadFactor,
    interval |-> c.interval, nodeId |-> Trim(c.nodeId), groupId |-> c.groupId,
    key |-> IF c.authMode = "none" THEN NoKey ELSE Trim(c.key) ]
-----------------------------------------------------------------------------
VARIABLES
  places,  \* the three places of this node
  theirs,  \* the configuration of the peer
  boot     \* "loading", "failed", "direct", "loaded", "unimplemented",
           \* "unconvertible", "converted", "unbound", "peerless" or "running"

startVars == <<vars, places, theirs, boot>>

\* resolve_config_path: the first place that names a file, whether the file can be
\* read or not; the default path names one only if it exists.
File ==
  IF places.cli # NoFile THEN places.cli
  ELSE IF places.env # NoFile THEN places.env
  ELSE places.default

ASSUME StartAssumption ==
  /\ Places \subseteq [{"cli", "env", "default"} -> Config \cup {NoFile, Unreadable}]
  /\ Peers \subseteq Config
  /\ SocketAddr \subseteq Text
  /\ Unset \notin Text /\ {NoFile, Unreadable} \cap Config = {}
  /\ \A c \in Peers : c.mode = "ha" /\ ValidHa(c) /\ Runtime(c) \in Receiver
  /\ \A start \in Places : \A place \in DOMAIN start :
       LET c == start[place]
       IN  (c \in Config /\ c.mode = "ha" /\ ValidHa(c)) => Runtime(c) \in Sender

StartInit ==
  /\ places \in Places /\ theirs \in Peers /\ boot = "loading"
  /\ sender = NoFile /\ receiver = Runtime(theirs)
  /\ sent = Malformed /\ wire = <<>> /\ damage = "none"
  /\ phase = "sending" /\ outcome = Malformed

\* load_config and Config::from_path.  Without a file the start goes on with the
\* flags, to start_service, which logs them and returns.
Load ==
  /\ boot = "loading"
  /\ boot' = IF File = NoFile THEN "direct"
             ELSE IF File = Unreadable THEN "failed"
             ELSE IF Valid(File) THEN "loaded" ELSE "failed"
  /\ UNCHANGED <<vars, places, theirs>>

\* start_service_with_config, up to the call of start_ha_service.
StartWithConfig ==
  /\ boot = "loaded"
  /\ boot' = IF File.mode = "kv" THEN "unimplemented"
             ELSE IF Convertible(File) THEN "converted" ELSE "unconvertible"
  /\ sender' = IF boot' = "converted" THEN Runtime(File) ELSE sender
  /\ UNCHANGED <<receiver, sent, wire, damage, phase, outcome, places, theirs>>

\* run_with_status before its loop: bind_ha_socket, which parses the address as it is
\* written and may be refused by the kernel whatever it is, and then the address of
\* the peer, which try_from has trimmed.
OpenSocket ==
  /\ boot = "converted"
  /\ \/ boot' = "unbound"
     \/ /\ File.bind \in SocketAddr
        /\ boot' = IF Trim(File.peer) \in SocketAddr THEN "running" ELSE "peerless"
  /\ UNCHANGED <<vars, places, theirs>>

\* The control loop runs.
Advertise ==
  /\ boot = "running"
  /\ Next
  /\ UNCHANGED <<places, theirs, boot>>

StartNext == Load \/ StartWithConfig \/ OpenSocket \/ Advertise

StartSpec == StartInit /\ [][StartNext]_startVars
-----------------------------------------------------------------------------
(* Properties *)

\* The checks of validate cover those that try_from repeats: a configuration that
\* was accepted does not fail when it is converted.
AcceptedConfigConverts == boot # "unconvertible"

\* An accepted configuration whose socket has been bound sends its first
\* advertisement, unless its ha.peer is no socket address, which ends the service
\* before the loop, or an id or the interval is larger than a packet holds, which
\* ends the loop at that advertisement.  validate checks none of the three, and what
\* it does check leaves no fourth.
AdvertisesOnceBound ==
  (boot = "peerless" \/ phase = "fatal") =>
    \/ Trim(File.peer) \notin SocketAddr
    \/ Len(Trim(File.nodeId)) > MaxIdLen
    \/ Len(File.groupId) > MaxIdLen
    \/ ~ (File.interval < Base4)

\* Two nodes accept each other's advertisements when their files agree on the
\* version, on the group to the letter, and on the key and differ in the id but
\* for white space around those two; and only then.
FilesDecide ==
  (phase = "arrived" /\ damage = "none") =>
    ( Accepted(receiver, outcome) <=>
        /\ File.version = theirs.version
        /\ File.groupId = theirs.groupId
        /\ File.authMode = theirs.authMode
        /\ File.authMode = "shared_key" => Trim(File.key) = Trim(theirs.key)
        /\ Trim(File.nodeId) # Trim(theirs.nodeId) )
=============================================================================
