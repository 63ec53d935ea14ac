------------------------------ MODULE Service ------------------------------
(***************************************************************************)
(* From the UCI section to the running daemon: the configuration is edited *)
(* by hand or on the LuCI page, whose validators guard what it saves       *)
(* (fakesip.js), the init script turns it into a command line or starts    *)
(* nothing (fakesip.init), and main of Options reads that command line.    *)
(* What a number is spelled like is the text Numerals reads.               *)
(***************************************************************************)
EXTENDS Options, Numerals

CONSTANTS Unset,    \* an option without a value
          Down,     \* of a network without a device
          Values,   \* per UCI option, what it may be set to
          Views,    \* what the networks resolve to
          Shipped,  \* the options set in fakesip.config
          Bad,      \* names that are no interface names
          Carrier,  \* the URIs of a profile
          MarkText, \* "0x10000", DefaultMark as the page spells it
          MaxEdits, MaxTyped \* bounds: options of the section, options in a shell

VARIABLES phase,    \* "edit" "saved" "started" "off" "shell"
          cfg,      \* the section
          before,   \* ghost: the section as the page found it
          devs,     \* what the networks resolve to at start
          argv,     \* the command line: what may be on it, and what is
          optind,   \* how far main has read it
          edits

svars == <<phase, cfg, before, devs, argv, optind, edits>>
-----------------------------------------------------------------------------
FlagArgs ==
  << [option |-> "inbound", flag |-> "inbound"],          [option |-> "outbound", flag |-> "outbound"],
     [option |-> "ipv4", flag |-> "use_ipv4"],            [option |-> "ipv6", flag |-> "use_ipv6"],
     [option |-> "no_hop_estimate", flag |-> "nohopest"], [option |-> "skip_firewall", flag |-> "skipfw"],
     [option |-> "use_iptables", flag |-> "use_iptables"], [option |-> "silent", flag |-> "silent"] >>
OnByDefault == {"outbound", "ipv4", "ipv6", "silent"}

ValueArgs ==
  << [option |-> "queue_num", setting |-> "nfqnum"], [option |-> "fwmark", setting |-> "fwmark"],
     [option |-> "fwmask", setting |-> "fwmask"],    [option |-> "repeat", setting |-> "repeat"],
     [option |-> "ttl", setting |-> "ttl"],          [option |-> "dynamic_pct", setting |-> "dynamic_pct"] >>

Numbers == {ValueArgs[i].option : i \in DOMAIN ValueArgs}
Text == Seq(Char)

Lists == {"network", "interface", "sip_uri", "payload_file"}
Switches == {"enabled", "all_interfaces"} \cup {FlagArgs[i].option : i \in DOMAIN FlagArgs}
(* The members of a list are not empty.                                     *)
IsList(s) == s \in Seq(ToSet(s) \ {Empty})

(* Lists are lists, switches are on, off or not set, numbers are texts if    *)
(* they are set, and a name main would refuse is no interface name to the   *)
(* init script.                                                             *)
ASSUME SectionAssumption ==
  /\ DOMAIN Values = DOMAIN Shipped
  /\ Lists \cup Switches \cup Numbers \cup {"interface_mode"} \subseteq DOMAIN Shipped
  /\ \A o \in Lists : \A v \in Values[o] \cup {Shipped[o]} : IsList(v)
  /\ \A o \in Switches : Values[o] \cup {Shipped[o]} \subseteq BOOLEAN \cup {Unset}
  /\ \A o \in Numbers : Values[o] \cup {Shipped[o]} \subseteq Text \cup {Unset}
  /\ \A p \in DOMAIN Carrier : IsList(Carrier[p])
  /\ Unset \notin {"network", "device", "auto"}
ASSUME BadAssumption == {Empty, TooLong} \subseteq Bad

(* The bits of a number, and of a mark as it is read: none if main refuses.  *)
BitsOf(n) == {b \in Bit : (n \div 2^b) % 2 = 1}
MarkBits(value) == IF MarkValue(value) = Refused THEN {} ELSE BitsOf(MarkValue(value))

ASSUME BitAssumption == Bit \subseteq Nat /\ \A n \in 1..Uint32Max : BitsOf(n) # {}
ASSUME WidthAssumption == UllMax >= 65535
ASSUME MarkTextAssumption == MarkText \in Text /\ MarkBits(MarkText) = DefaultMark

(* config_get_bool. *)
On(c, o) == IF c[o] = Unset THEN o \in OnByDefault ELSE c[o]

Profile(c) == IF c.sip_profile = Unset THEN "standard" ELSE c.sip_profile
Profiles == DOMAIN Carrier \cup {"standard", "custom"}
Uris(c) ==
  CASE Profile(c) = "standard" -> <<>>
    [] Profile(c) = "custom"   -> c.sip_uri
    [] OTHER                   -> Carrier[Profile(c)]

Mode(c) == IF c.interface_mode = Unset THEN "auto" ELSE c.interface_mode
UsesNetworks(c)   == Mode(c) \in {"network", "auto"}
UsesInterfaces(c) == Mode(c) \in {"device", "auto"}

(* The names, networks first, and which of them FS_IFACES_ADDED gets: what   *)
(* is usable, once.                                                         *)
Named(c, view) ==
  (IF UsesNetworks(c) THEN [i \in DOMAIN c.network |-> view[c.network[i]]] ELSE <<>>)
  \o (IF UsesInterfaces(c) THEN c.interface ELSE <<>>)
Adds(names, i) == names[i] \notin Bad \cup {Down} /\ \A j \in 1..(i - 1) : names[j] # names[i]
SomeAdded(c, view) == \E i \in DOMAIN Named(c, view) : Adds(Named(c, view), i)

HasTargets(c) ==
  CASE Mode(c) = "network" -> c.network # <<>>
    [] Mode(c) = "device"  -> c.interface # <<>>
    [] Mode(c) = "auto"    -> c.network # <<>> \/ c.interface # <<>>
    [] OTHER               -> FALSE

(* Mutant: without a direction the command line has none. *)
StartableUndirected(c, view) ==
  /\ On(c, "enabled")
  /\ On(c, "ipv4") \/ On(c, "ipv6")
  /\ Profile(c) \in Profiles /\ (Profile(c) = "custom" => c.sip_uri # <<>>)
  /\ On(c, "all_interfaces") \/ (HasTargets(c) /\ SomeAdded(c, view))
Startable(c, view) ==
  /\ On(c, "enabled")
  /\ On(c, "inbound") \/ On(c, "outbound")
  /\ On(c, "ipv4") \/ On(c, "ipv6")
  /\ Profile(c) \in Profiles /\ (Profile(c) = "custom" => c.sip_uri # <<>>)
  /\ On(c, "all_interfaces") \/ (HasTargets(c) /\ SomeAdded(c, view))
-----------------------------------------------------------------------------
Each(seq, F(_)) == [i \in DOMAIN seq |-> F(seq[i])]
Set(c, o) == c[o] # Unset
NoShare == <<"0">>
(* append_value_arg, append_nonzero_arg.                                    *)
Given(c, o) == Set(c, o) /\ (o = "dynamic_pct" => c[o] # NoShare)

(* The command line, in the order of the script; an argument is there if it  *)
(* is given.                                                                *)
Argv(c, view) ==
  LET flags  == Each(FlagArgs, LAMBDA f : [given |-> On(c, f.option), flag |-> f.flag])
      uris   == Each(Uris(c), LAMBDA u : [given |-> u # Empty, type |-> "u", info |-> u])
      files  == Each(c.payload_file, LAMBDA f : [given |-> f # Empty, type |-> "b", info |-> f])
      values == Each(ValueArgs,
                     LAMBDA v : [given |-> Given(c, v.option), setting |-> v.setting, value |-> c[v.option]])
      all    == <<[given |-> On(c, "all_interfaces"), flag |-> "alliface"]>>
      names  == Named(c, view)
      ifaces == [i \in DOMAIN names |-> [given |-> ~On(c, "all_interfaces") /\ Adds(names, i), iface |-> names[i]]]
      log    == <<[given |-> Set(c, "log_file"), log |-> c.log_file]>>
  IN flags \o uris \o files \o values \o all \o ifaces \o log
-----------------------------------------------------------------------------
(* Mutant: networks first, whatever else there is. *)
EffectiveModeFirst(c) ==
  IF c.interface_mode \in {"network", "device", "auto"} THEN c.interface_mode
  ELSE IF c.network # <<>> THEN "network" ELSE IF c.interface # <<>> THEN "device" ELSE "network"
(* effectiveInterfaceMode. *)
EffectiveMode(c) ==
  IF c.interface_mode \in {"network", "device", "auto"} THEN c.interface_mode
  ELSE IF c.network # <<>> /\ c.interface # <<>> THEN "auto"
  ELSE IF c.interface # <<>> THEN "device" ELSE "network"

(* What the page shows, and saves: its default where nothing is set.         *)
FormDefault ==
  [queue_num |-> <<"5", "1", "3">>, fwmark |-> MarkText, fwmask |-> MarkText, repeat |-> <<"1">>, ttl |-> <<"3">>,
   dynamic_pct |-> <<"0">>, sip_profile |-> "china_all"]
Form(c) ==
  [o \in DOMAIN c |->
     IF o = "interface_mode" THEN IF On(c, "all_interfaces") THEN Unset ELSE EffectiveMode(c)
     ELSE IF o \in DOMAIN FormDefault /\ c[o] = Unset THEN FormDefault[o] ELSE c[o]]

InForm(c) ==
  /\ \A o \in Numbers : Set(c, o)
  /\ InRange(c.queue_num, 1, 65535) /\ InRange(c.repeat, 1, 10) /\ InRange(c.ttl, 1, 255)
  /\ InRange(c.dynamic_pct, 0, 99)
  /\ parseUint32(c.fwmark) # Refused /\ c.log_file # TooLong
  /\ ~On(c, "all_interfaces") /\ Mode(c) # "network" => ToSet(c.interface) \cap Bad = {}
  /\ On(c, "inbound") \/ On(c, "outbound")
  /\ On(c, "ipv4") \/ On(c, "ipv6")
  /\ c.sip_profile \in Profiles
validateFirewallMask(c) ==
  LET mark == parseUint32(c.fwmark)  mask == parseUint32(c.fwmask) IN
  mask # Refused /\ (mark # Refused => BitsOf(mark) \subseteq BitsOf(mask))
validateEnabledTargets(c) == On(c, "enabled") /\ ~On(c, "all_interfaces") => HasTargets(c)
validateSipProfile(c) == c.sip_profile = "custom" => c.sip_uri # <<>>
(* Mutant: not looked at. *)
validateHopSettingsNever(c) == c = c
validateHopSettings(c) == ~(On(c, "no_hop_estimate") /\ Positive(c.dynamic_pct))

Accepted(c) ==
  /\ InForm(c) /\ validateFirewallMask(c) /\ validateEnabledTargets(c) /\ validateSipProfile(c)
  /\ validateHopSettings(c)
-----------------------------------------------------------------------------
ServiceInit ==
  /\ Init
  /\ phase = "edit" /\ before = Shipped /\ cfg = Shipped /\ edits = 0
  /\ devs = <<>> /\ argv = <<>> /\ optind = 0

Edit(o, v) ==
  /\ phase = "edit" /\ edits < MaxEdits /\ edits' = edits + 1
  /\ cfg' = [cfg EXCEPT ![o] = v]
  /\ UNCHANGED <<phase, before, devs, argv, optind, vars>>

Save ==
  /\ phase = "edit" /\ Accepted(Form(cfg))
  /\ phase' = "saved" /\ before' = cfg /\ cfg' = Form(cfg)
  /\ UNCHANGED <<devs, argv, optind, edits, vars>>

start_instance(view) ==
  /\ phase \in {"edit", "saved"}
  /\ IF Startable(cfg, view) THEN phase' = "started" /\ argv' = Argv(cfg, view)
     ELSE phase' = "off" /\ UNCHANGED argv
  /\ devs' = view
  /\ UNCHANGED <<cfg, before, optind, edits, vars>>

ReadAs(setting, value) == IF setting \in Setting THEN parse_ull(value) ELSE MarkBits(value)
ReadsArgument(a) ==
  \/ "flag" \in DOMAIN a /\ SetFlag(a.flag)
  \/ "type" \in DOMAIN a /\ AddPayload(a.type, a.info)
  \/ "setting" \in DOMAIN a /\ a.setting \in Setting /\ SetNumber(a.setting, ReadAs(a.setting, a.value))
  \/ "setting" \in DOMAIN a /\ a.setting \in Mark /\ SetMark(a.setting, ReadAs(a.setting, a.value))
  \/ "iface" \in DOMAIN a /\ AddInterface(a.iface)
  \/ "log" \in DOMAIN a /\ SetLog(a.log)

(* getopt: the next argument that is given, or none is left.                *)
NextIs(k) == argv[k].given /\ k > optind /\ \A j \in (optind + 1)..(k - 1) : ~argv[j].given
NoneLeft == \A k \in DOMAIN argv : k > optind => ~argv[k].given

(* main with that line; memory suffices and the log can be opened.          *)
Main ==
  /\ phase = "started"
  /\ \/ \E k \in DOMAIN argv : NextIs(k) /\ ReadsArgument(argv[k]) /\ optind' = k
     \/ NoneLeft /\ (EndOfOptions \/ Check \/ Daemonise(FALSE) \/ OpenLog(FALSE)) /\ UNCHANGED optind
  /\ UNCHANGED <<phase, cfg, before, devs, argv, edits>>

(* main with any options, typed by hand.                                    *)
Shell ==
  /\ phase = "shell" \/ (phase = "edit" /\ edits = 0)
  /\ phase' = "shell"
  /\ Next /\ taken' <= MaxTyped
  /\ UNCHANGED <<cfg, before, devs, argv, optind, edits>>

ServiceNext ==
  \/ \E o \in DOMAIN Values : \E v \in Values[o] : Edit(o, v)
  \/ Save
  \/ \E view \in Views : start_instance(view)
  \/ Main \/ Shell

ServiceSpec == ServiceInit /\ [][ServiceNext]_<<vars, svars>>
-----------------------------------------------------------------------------
ByPage == phase = "started" /\ cfg = Form(cfg) /\ Accepted(cfg)
Plain(c) ==
  /\ \A o \in Numbers : Pattern(c[o])
  /\ NumberOf(c.dynamic_pct) = 0 => c.dynamic_pct = NoShare

(* Where its numbers are plain numerals, and no share is "0", main refuses   *)
(* nothing the page accepts, in the form the init script gives it: each     *)
(* number is in its range, -y is not there with -g, the mask holds the      *)
(* mark, there is an interface (fakesip.js:114-231, :531-580,               *)
(* fakesip.init:137-253, mainfun.c:101-122, :274-396).                      *)
NotRefused == [][ByPage /\ Plain(cfg) /\ pc \in {"options", "check"} => pc' # "free"]_<<vars, svars>>

(* "Frontend validation matching the C parser"                              *)
(* (docs/fakesip-bug-findings.md:671-672): main refuses nothing the page    *)
(* accepts, however it is spelled.                                          *)
FrontendMatchesParser == [][ByPage /\ pc \in {"options", "check"} => pc' # "free"]_<<vars, svars>>

(* The interfaces the section is about that can be given to the daemon.     *)
Usable(c, view) ==
  ((IF UsesNetworks(c) THEN {view[n] : n \in ToSet(c.network)} ELSE {})
   \cup (IF UsesInterfaces(c) THEN ToSet(c.interface) ELSE {})) \ (Bad \cup {Down})

FlagsAsConfigured ==
  /\ \A i \in DOMAIN FlagArgs : ctx[FlagArgs[i].flag] = On(cfg, FlagArgs[i].option)
  /\ ctx.alliface = On(cfg, "all_interfaces")
ValuesAsConfigured ==
  /\ \A i \in DOMAIN ValueArgs :
       Given(cfg, ValueArgs[i].option) =>
         ctx[ValueArgs[i].setting] = ReadAs(ValueArgs[i].setting, cfg[ValueArgs[i].option])
  /\ cfg.dynamic_pct = NoShare => ctx.dynamic_pct = 0
  /\ Set(cfg, "log_file") => ctx.logpath = cfg.log_file
InterfacesAsConfigured ==
  ~On(cfg, "all_interfaces") =>
    /\ {iface.at[i] : i \in 0..(iface.cnt - 1)} = Usable(cfg, devs)
    /\ \A i, j \in 0..(iface.cnt - 1) : iface.at[i] = iface.at[j] => i = j
PayloadsAsConfigured ==
  LET uris == Uris(cfg)  files == cfg.payload_file IN
  /\ \A i \in DOMAIN uris : plinfo.at[i - 1] = [type |-> "u", info |-> uris[i]]
  /\ \A i \in DOMAIN files : plinfo.at[Len(uris) + i - 1] = [type |-> "b", info |-> files[i]]
  /\ IF uris = <<>> /\ files = <<>> THEN plinfo.cnt = 1 /\ plinfo.at[0] = [type |-> "u", info |-> Null]
     ELSE plinfo.cnt = Len(uris) + Len(files)

(* Whatever is configured, by hand too, the daemon that runs has it: no      *)
(* direction or family that is off, the settings where they are set, the     *)
(* usable interfaces, each once, and the URIs in front of the files, or one  *)
(* payload of its own where there is none (fakesip.init:215-246).            *)
RunsAsConfigured ==
  phase = "started" /\ pc = "run" =>
    FlagsAsConfigured /\ ValuesAsConfigured /\ InterfacesAsConfigured /\ PayloadsAsConfigured

Targets(c) ==
  IF On(c, "all_interfaces") THEN <<>>
  ELSE << IF UsesNetworks(c) THEN c.network ELSE <<>>, IF UsesInterfaces(c) THEN c.interface ELSE <<>> >>

(* A section from before interface_mode existed keeps its targets when the   *)
(* page saves it: what the page infers is what the init script does without  *)
(* a mode (fakesip.js:23-35, fakesip.init:194-202; openwrt/README.md).       *)
SavingKeepsTargets ==
  phase = "saved" /\ before.interface_mode = Unset => Targets(cfg) = Targets(before)
=============================================================================
