-------------------------------- MODULE LivePlan --------------------------------
(***************************************************************************)
(* Which changes of a config a running process can take live (plan_change,  *)
(* airband-supervisor/src/plan.rs), the baselines it is judged against, and *)
(* what reload_diff then does to the process.  The fork that carries out    *)
(* reload_diff is not in this repository; FreshProcess and Reload below are what  *)
(* plan.rs says of it.                                                      *)
(*                                                                          *)
(* A group of settings is a function from its keys to literals.  Integers   *)
(* are whole; a float is in tenths; in this model a MHz has five Hz, so     *)
(* that a float can fall between two Hz.                                    *)
(***************************************************************************)
EXTENDS Integers, Sequences, FiniteSetsExt, Lists

CONSTANT
  Edits       \* for each part of a config: the configs that edits of it go between

VARIABLES
  focus,      \* which part of a config the edits of this behaviour are about
  started,    \* the config the process was started with
  applied,    \* that, and every live apply since that took effect as a whole
  process,    \* what the process does
  tainted     \* a live apply took effect in part only

planVars == <<focus, started, applied, process, tainted>>

Lit(ty, v) == [ty |-> ty, v |-> v]
Int10(v) == Lit("int", v)
Float(v) == Lit("float", v)
Str(v) == Lit("string", v)
Flag(b) == Lit("bool", b)
NotSet == Lit("absent", 0)
Find(g, k) == IF k \in DOMAIN g THEN g[k] ELSE NotSet

FlagOr(g, k, b) == IF Find(g, k).ty = "bool" THEN g[k].v ELSE b
StrOr(g, k, s) == IF Find(g, k).ty = "string" THEN g[k].v ELSE s
\* In tenths.
NumberOr(g, k, d) ==
  LET l == Find(g, k) IN CASE l.ty = "int" -> 10 * l.v [] l.ty = "float" -> l.v [] OTHER -> d

Active(items) ==
  ItemsAt(items, {i \in DOMAIN items : ~FlagOr(items[i].set, "disable", FALSE)})

\* A config is groups of literals, and lists of them.
IsLiteral(l) ==
  /\ l = Lit(l.ty, l.v)
  /\ \/ l.ty = "bool" /\ l.v \in BOOLEAN
     \/ l.ty \in {"int", "float", "string"} /\ l.v \in Int
IsGroup(g) == \A k \in DOMAIN g : IsLiteral(g[k])
IsList(items) == items \in Seq({items[i] : i \in DOMAIN items})
AreItems(items) == IsList(items) /\ \A i \in DOMAIN items : IsGroup(items[i].set)
IsConfig(c) ==
  /\ IsGroup(c.set) /\ AreItems(c.devices) /\ AreItems(c.mixers)
  /\ \A i \in DOMAIN c.devices : AreItems(c.devices[i].channels)

ASSUME EditsAssumption == \A f \in DOMAIN Edits : \A c \in Edits[f] : IsConfig(c)

IsNumeric(l) == l.ty \in {"int", "float"}

\* anynum_to_int, of a number: a float is MHz, cut to a whole Hz.
AnynumToInt(l) == IF l.ty = "float" THEN (l.v * 5) \div 10 ELSE l.v

\* dest_port may be a number or a string.
SameSetting(k, x, y) ==
  \/ x = y
  \/ /\ k = "dest_port"
     /\ {x.ty, y.ty} \subseteq {"int", "string"} /\ x.v = y.v

ChangedKeys(a, n, ignore) ==
  {k \in (DOMAIN a \cup DOMAIN n) \ ignore : ~SameSetting(k, Find(a, k), Find(n, k))}

\* channel_signature: every setting but `enabled`, in the order of the text, floats cut
\* short (here to four tenths); a whole float looks like an integer.
Rendered(l) == IF l.ty = "float" THEN <<"number", (l.v \div 4) * 4>>
               ELSE IF l.ty = "int" THEN <<"number", 10 * l.v>> ELSE <<l.ty, l.v>>
Signature(c) ==
  [order |-> c.order, set |-> [k \in DOMAIN c.set \ {"enabled"} |-> Rendered(c.set[k])]]

\* How many channels at the front are the same, by signature.
Common(a, n) ==
  Max({j \in 0..Len(a) : j <= Len(n) /\ \A i \in 1..j : Signature(a[i]) = Signature(n[i])})
-----------------------------------------------------------------------------
(* plan.rs: a plan has the changes that go live and those that need a restart *)

Plan(live, restart) == [live |-> live, restart |-> restart]
Nothing == Plan({}, {})
LiveIf(change, what) == Plan(IF change THEN {what} ELSE {}, {})
RestartIf(change, what) == Plan({}, IF change THEN {what} ELSE {})
Together(plans) == Plan(UNION {p.live : p \in plans}, UNION {p.restart : p \in plans})

RtlSdr == 1
SoapySdr == 2
Driver(g) == StrOr(g, "type", RtlSdr)
IsScan(g) == StrOr(g, "mode", 0) = 1
DefaultRate == 5
PpmParams ==
  [auto_ppm_interval |-> 300, auto_ppm_max_ppm |-> 1000, auto_ppm_max_step |-> 50,
   auto_ppm_min_voters |-> 10, auto_ppm_deadband_hz |-> 1000]
DeviceLiveKeys ==
  {"type", "mode", "centerfreq", "sample_rate", "gain", "bandwidth", "correction", "disable",
   "auto_ppm"} \cup DOMAIN PpmParams

LiveSetterSupported(driver, key) ==
  driver = RtlSdr \/ (driver = SoapySdr /\ key # "correction")

PlanFrequency(a, n) ==
  LET old == Find(a, "centerfreq")  new == Find(n, "centerfreq")
  IN  IF IsScan(n) THEN Nothing
      ELSE IF IsNumeric(new)
        THEN LiveIf(~IsNumeric(old) \/ AnynumToInt(new) # AnynumToInt(old), "centerfreq")
      ELSE RestartIf(new # NotSet \/ old # NotSet, "centerfreq")

RateOf(g) ==
  LET l == Find(g, "sample_rate") IN IF IsNumeric(l) THEN AnynumToInt(l) ELSE DefaultRate

PlanRate(a, n) ==
  LET new == Find(n, "sample_rate")
  IN  IF ~IsNumeric(new)
        THEN RestartIf(new # NotSet \/ RateOf(a) # DefaultRate, "sample_rate")
      ELSE IF AnynumToInt(new) = RateOf(a) THEN Nothing
      ELSE IF IsScan(n) \/ Driver(n) = SoapySdr THEN RestartIf(TRUE, "sample_rate")
      ELSE LiveIf(TRUE, "sample_rate")

\* A value that reload_diff reads as it was meant.
ReadAsMeant(key, l) == IF key = "gain" THEN IsNumeric(l) ELSE l.ty = "int"

PlanReapplied(a, n, key) ==
  IF Find(a, key) = Find(n, key) THEN Nothing
  ELSE IF LiveSetterSupported(Driver(n), key) /\ ReadAsMeant(key, Find(n, key))
    THEN LiveIf(TRUE, key)
  ELSE RestartIf(TRUE, key)

\* What the device was started with decides whether auto_ppm can be turned on or off;
\* its parameters stay those of the start.
PlanAutoPpm(s, a, n) ==
  LET was == FlagOr(a, "auto_ppm", FALSE)  now == FlagOr(n, "auto_ppm", FALSE)
      added == Find(a, "auto_ppm") = NotSet /\ Find(n, "auto_ppm") # NotSet
      params == \E k \in DOMAIN PpmParams :
                  NumberOr(s, k, PpmParams[k]) # NumberOr(n, k, PpmParams[k])
  IN  IF Find(s, "auto_ppm") = NotSet
        THEN RestartIf(now \/ added, "auto_ppm")
        ELSE Together({RestartIf(params, "auto_ppm parameters"), LiveIf(was # now, "auto_ppm"),
                       LiveIf(was /\ ~now /\ Find(a, "correction") = Find(n, "correction")
                                /\ IsNumeric(Find(n, "correction")), "correction")})

Room(s) ==
  LET reserved == NumberOr(s.set, "reserve_channels", 0) \div 10
  IN  Len(Active(s.channels)) + (IF reserved > 0 THEN reserved ELSE 0)

\* mutant: the room the process has is taken from the config that runs now
RoomNow(s, a) == Room(a)

ChannelRoom(s, a) == Room(s)

\* mutant: what a signature does not show is no change
NothingUnseen(old, new, common) == FALSE

\* An edit of a kept channel that is too small for a signature to show.
UnseenEdit(old, new, common) ==
  \E j \in 1..common : ChangedKeys(old[j].set, new[j].set, {"enabled"}) # {}

PlanChannels(s, a, n) ==
  LET old == Active(a.channels)  new == Active(n.channels)  common == Common(old, new)
      diverges == common < Len(old) \/ common < Len(new)
      toAdd == Len(new) - common
      toggled == \E j \in 1..common :
                   FlagOr(old[j].set, "enabled", TRUE) # FlagOr(new[j].set, "enabled", TRUE)
      fits == toAdd > 0 => toAdd <= ChannelRoom(s, a) - common
  IN  Together({RestartIf(UnseenEdit(old, new, common), "channel"),
                RestartIf(diverges /\ (IsScan(n.set) \/ ~fits), "channels"),
                LiveIf(diverges /\ ~IsScan(n.set) /\ (common < Len(old) \/ fits), "channels"),
                LiveIf(toggled, "enabled")})

PlanDevice(s, a, n) ==
  IF Driver(a.set) # Driver(n.set) THEN RestartIf(TRUE, "type")
  ELSE IF IsScan(a.set) # IsScan(n.set) THEN RestartIf(TRUE, "mode")
  ELSE Together({PlanChannels(s, a, n), PlanFrequency(a.set, n.set), PlanRate(a.set, n.set),
                 PlanAutoPpm(s.set, a.set, n.set),
                 RestartIf(ChangedKeys(a.set, n.set, DeviceLiveKeys) # {}, "device")}
                \cup {PlanReapplied(a.set, n.set, k) : k \in {"gain", "bandwidth", "correction"}})

PlanDevices(s, a, n) ==
  LET start == Active(s.devices)  old == Active(a.devices)  new == Active(n.devices)
  IN  IF Len(old) # Len(new) THEN RestartIf(TRUE, "device count")
      ELSE Together({PlanDevice(start[i], old[i], new[i]) : i \in DOMAIN old})

PlanMixer(a, n) ==
  IF a.name # n.name THEN RestartIf(TRUE, "mixer name")
  ELSE IF Find(a.set, "remote_inputs") # Find(n.set, "remote_inputs")
    THEN RestartIf(TRUE, "remote_inputs")
  ELSE Together({LiveIf(FlagOr(a.set, "enabled", TRUE) # FlagOr(n.set, "enabled", TRUE), "mixer"),
                 RestartIf(ChangedKeys(a.set, n.set, {"enabled", "disable", "remote_inputs"}) # {},
                           "mixer setting")})

PlanMixers(a, n) ==
  LET old == Active(a.mixers)  new == Active(n.mixers)
  IN  IF Len(old) # Len(new) THEN RestartIf(TRUE, "mixer count")
      ELSE Together({PlanMixer(old[i], new[i]) : i \in DOMAIN old})

Blank == 0
HasSocket(c) == StrOr(c.set, "control_socket_path", Blank) # Blank

\* members_eq of two whole configs.
SameGroups(a, n) ==
  Len(a) = Len(n) /\ \A i \in DOMAIN a : ChangedKeys(a[i].set, n[i].set, {}) = {}
SameConfig(a, n) ==
  /\ ChangedKeys(a.set, n.set, {}) = {}
  /\ SameGroups(a.devices, n.devices)
  /\ \A i \in DOMAIN a.devices : SameGroups(a.devices[i].channels, n.devices[i].channels)
  /\ SameGroups(a.mixers, n.mixers) /\ \A i \in DOMAIN a.mixers : a.mixers[i].name = n.mixers[i].name

PlanChange(s, a, n) ==
  IF ~HasSocket(s) THEN RestartIf(~SameConfig(a, n), "no control socket")
  ELSE Together({RestartIf(ChangedKeys(a.set, n.set, {}) # {}, "global"),
                 PlanDevices(s, a, n), PlanMixers(a, n)})
-----------------------------------------------------------------------------
(* The fork: a process started with a config, and reload_diff *)

\* What a setting does to a process that starts with it.
Meant(k, l) ==
  CASE k \in {"freq", "centerfreq"} /\ IsNumeric(l) -> AnynumToInt(l)
    [] k = "dest_port" -> l.v
    [] OTHER -> l
MeantGroup(g, without) == [k \in DOMAIN g \ without |-> Meant(k, g[k])]

FreshChannel(c) ==
  [does |-> MeantGroup(c.set, {"enabled"}), signature |-> Signature(c),
   enabled |-> FlagOr(c.set, "enabled", TRUE)]
FreshChannels(cs) == [j \in DOMAIN cs |-> FreshChannel(cs[j])]

FreshDevice(d) ==
  [driver |-> Driver(d.set), scan |-> IsScan(d.set), channels |-> FreshChannels(Active(d.channels)),
   \* a scanning device tunes to its channel's frequencies
   centerfreq |-> IF IsScan(d.set) THEN NotSet ELSE Find(d.set, "centerfreq"),
   rate |-> RateOf(d.set),
   gain |-> Find(d.set, "gain"), bandwidth |-> Find(d.set, "bandwidth"),
   correction |-> Find(d.set, "correction"),
   ppm |-> FlagOr(d.set, "auto_ppm", FALSE),
   other |-> MeantGroup(d.set, DeviceLiveKeys \cup {"reserve_channels"}),
   \* fixed until a restart
   room |-> Room(d), ppmReady |-> Find(d.set, "auto_ppm") # NotSet,
   params |-> [k \in DOMAIN PpmParams |-> NumberOr(d.set, k, PpmParams[k])]]

FreshMixer(m) ==
  [name |-> m.name, enabled |-> FlagOr(m.set, "enabled", TRUE),
   other |-> MeantGroup(m.set, {"enabled", "disable"})]

FreshDevices(ds) == [i \in DOMAIN ds |-> FreshDevice(ds[i])]
FreshMixers(ms) == [i \in DOMAIN ms |-> FreshMixer(ms[i])]
FreshProcess(c) ==
  [socket |-> StrOr(c.set, "control_socket_path", Blank), set |-> MeantGroup(c.set, {}),
   devices |-> FreshDevices(Active(c.devices)), mixers |-> FreshMixers(Active(c.mixers))]

ReloadChannels(d, n) ==
  LET new == FreshChannels(Active(n.channels))  old == d.channels
      common == Max({j \in 0..Len(old) : j <= Len(new) /\ \A i \in 1..j :
                                         old[i].signature = new[i].signature})
      kept == [j \in 1..common |-> [old[j] EXCEPT !.enabled = new[j].enabled]]
  IN  IF d.scan THEN kept \o SubSeq(old, common + 1, Len(old))
      ELSE IF Len(new) > d.room THEN kept
      ELSE kept \o SubSeq(new, common + 1, Len(new))

\* reload_diff takes the number that it reads for whatever the driver can set.
Reapplied(d, n, key) ==
  LET l == Find(n.set, key)
  IN  IF LiveSetterSupported(d.driver, key) /\ IsNumeric(l)
        THEN IF key = "gain" \/ l.ty = "int" THEN l ELSE Int10(AnynumToInt(l))
        ELSE d[key]

ReloadDevice(d, n) ==
  IF d.driver # Driver(n.set) \/ d.scan # IsScan(n.set) THEN d
  ELSE [d EXCEPT
    !.channels = ReloadChannels(d, n),
    !.centerfreq = IF ~d.scan /\ IsNumeric(Find(n.set, "centerfreq")) THEN n.set["centerfreq"]
                   ELSE d.centerfreq,
    !.rate = IF ~d.scan /\ d.driver # SoapySdr /\ IsNumeric(Find(n.set, "sample_rate"))
             THEN RateOf(n.set) ELSE d.rate,
    !.gain = Reapplied(d, n, "gain"), !.bandwidth = Reapplied(d, n, "bandwidth"),
    !.correction = Reapplied(d, n, "correction"),
    !.ppm = IF d.ppmReady THEN FlagOr(n.set, "auto_ppm", FALSE) ELSE d.ppm]

Reload(p, c) ==
  LET devices == Active(c.devices)  mixers == Active(c.mixers)
      fits == Len(mixers) = Len(p.mixers)
  IN  [p EXCEPT
        !.devices = IF Len(devices) # Len(p.devices) THEN p.devices
                    ELSE [i \in DOMAIN devices |-> ReloadDevice(p.devices[i], devices[i])],
        !.mixers = [i \in DOMAIN p.mixers |->
                      IF fits /\ p.mixers[i].name = mixers[i].name
                              /\ Find(p.mixers[i].other, "remote_inputs") = Find(mixers[i].set, "remote_inputs")
                        THEN [p.mixers[i] EXCEPT !.enabled = FlagOr(mixers[i].set, "enabled", TRUE)]
                        ELSE p.mixers[i]]]

\* What one hears of a process: all but the reserves that only a restart can change, and
\* the parameters of auto_ppm while it is on.
HeardDevice(d) ==
  [driver |-> d.driver, scan |-> d.scan, rate |-> d.rate, gain |-> d.gain,
   channels |-> [j \in DOMAIN d.channels |-> <<d.channels[j].does, d.channels[j].enabled>>],
   centerfreq |-> Meant("centerfreq", d.centerfreq),
   bandwidth |-> d.bandwidth, correction |-> d.correction, other |-> d.other,
   ppm |-> d.ppm, params |-> IF d.ppm THEN d.params ELSE NotSet]
Heard(p) ==
  [set |-> p.set, mixers |-> p.mixers,
   devices |-> [i \in DOMAIN p.devices |-> HeardDevice(p.devices[i])]]
-----------------------------------------------------------------------------
\* The process has just been started, with a config that the panel wrote or one edited
\* by hand; a restart begins here again.
PlanInit(foci) ==
  /\ focus \in foci
  /\ started \in Edits[focus]
  /\ applied = started /\ process = FreshProcess(started) /\ tainted = FALSE

\* A text that the panel wrote: of these settings only an amplification and a gain that is
\* not whole are written as a float, and a setting that is a frequency is a number.
WrittenGroup(g) ==
  \A k \in DOMAIN g : /\ g[k].ty = "float" => k \in {"ampfactor", "gain"} /\ g[k].v % 10 # 0
                      /\ g[k].ty = "string" => k \notin {"centerfreq", "sample_rate", "bandwidth", "correction"}
Written(c) ==
  \A i \in DOMAIN c.devices :
    /\ WrittenGroup(c.devices[i].set)
    /\ \A j \in DOMAIN c.devices[i].channels : WrittenGroup(c.devices[i].channels[j].set)

\* A config is saved and the process told (InstanceService::apply_live): whatever the
\* plan says, the process takes what it can.  The socket that is asked is the new
\* config's.  What becomes of a process that took a part is not followed further.
ApplyLive(next) ==
  LET plan == PlanChange(started, applied, next)
  IN  /\ ~tainted
      /\ Written(next) /\ HasSocket(next) /\ process.socket = next.set["control_socket_path"].v
      /\ process' = Reload(process, next)
      /\ applied' = IF plan.restart = {} THEN next ELSE applied
      /\ tainted' = (plan.restart # {})
      /\ UNCHANGED <<focus, started>>

PlanNext == \E next \in Edits[focus] : ApplyLive(next)

PlanSpec == PlanInit(DOMAIN Edits) /\ [][PlanNext]_planVars
-----------------------------------------------------------------------------
(* Properties *)

\* As long as every live apply was one the plan found no fault with, the process does
\* what it would do if it were started afresh with the config that counts as applied:
\* the plan calls nothing live that reload_diff drops, misreads or has no room for,
\* however many applies ago the process was started.
RunsWhatWasApplied == ~tainted => Heard(process) = Heard(FreshProcess(applied))

\* A config that the plan calls no change at all is one the process already does.
NoChangeIsNone ==
  ~tainted => \A next \in Edits[focus] :
    PlanChange(started, applied, next) = Nothing => Heard(process) = Heard(FreshProcess(next))
=============================================================================
