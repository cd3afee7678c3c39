------------------------------- MODULE Config_proofs -------------------------------
(***************************************************************************)
(* Proofs about what is a function of a config.  Checks, for every config:  *)
(* what is accepted fits together, and of a config with a part of it        *)
(* disabled the validator says nothing new.  ConfText, for every text and   *)
(* every model: a save changes no meaning, and what is accepted is read     *)
(* back as sent, but for what is panel-only.                                *)
(***************************************************************************)
EXTENDS Checks, ConfText, Lists_proofs

-----------------------------------------------------------------------------
(***************************************************************************)
(* What a config is by its types (airband-config/src/domain.rs), as far as  *)
(* the proofs need it.                                                      *)
(***************************************************************************)

\* The records and lists that a config is made of.
IsList(s) == s \in Seq(ToSet(s))

Shaped(c) ==
  /\ c = [set |-> c.set, devices |-> c.devices, mixers |-> c.mixers]
  /\ IsList(c.devices) /\ IsList(c.mixers)
  /\ \A m \in ToSet(c.mixers) :
       m = [name |-> m.name, set |-> m.set, outputs |-> m.outputs, remote_inputs |-> m.remote_inputs]
  /\ \A d \in ToSet(c.devices) :
       /\ d = [set |-> d.set, channels |-> d.channels] /\ IsList(d.channels)
       /\ \A x \in ToSet(d.channels) :
            /\ x = [scan |-> x.scan, set |-> x.set, lists |-> x.lists, outputs |-> x.outputs]
            /\ IsList(x.outputs)
            /\ \A o \in ToSet(x.outputs) : o = [type |-> o.type, set |-> o.set, rdio |-> o.rdio]

\* What has to be there.
Typed(c) ==
  /\ \A d \in ToSet(c.devices) : Has(d.set, "type")
  /\ \A o \in ChannelOutputs(c) : /\ o.type = "mixer" => Has(o.set, "name")
                                  /\ o.type = "mixer_remote" => Has(o.set, "stream_id")

\* A channel that is not scanned has a frequency, as its type says.
TunedChannels(c) ==
  \A d \in ToSet(c.devices) :
    /\ DOMAIN d.channels \subseteq Nat
    /\ \A ch \in ToSet(d.channels) : ~ch.scan => Has(ch.set, "freq")

\* Split times are whole numbers (of tenths).
WholeTimes(g) == \A k \in DOMAIN SplitDefaults : Has(g, k) => g[k] \in Int

SplitSettings(c) == WholeTimes(c.set) /\ \A o \in ChannelOutputs(c) : WholeTimes(o.set)

-----------------------------------------------------------------------------
\* What of an accepted config is no error.
LEMMA Accepted ==
  ASSUME NEW c, Errors(c) = {}
  PROVE  /\ BinCollisions(c) \subseteq WarningCodes
         /\ ScanMode(c) \subseteq WarningCodes
         /\ SplitFileSettings(c) \subseteq WarningCodes
         /\ \A d \in ToSet(c.devices) : RequiredSettings(d) \subseteq WarningCodes
BY DEF Errors, Issues

-----------------------------------------------------------------------------
(***************************************************************************)
(* checks/fork_v6: what an output inherits is checked where it is set.     *)
(***************************************************************************)

\* A config without errors has split times that fit, for every output that writes files.
THEOREM AcceptedSplitTimesFit ==
  ASSUME SplitSettings(config)
  PROVE  SplitTimesFit
<1> SUFFICES ASSUME Errors(config) = {}, NEW o \in OfType(ChannelOutputs(config), "file")
             PROVE  ValidSplitTimes(SplitOf(config, o)) /\ ValidSplitDrop(SplitOf(config, o))
  BY DEF SplitTimesFit
<1>1. "split-file-times-invalid" \notin SplitFileSettings(config)
      /\ "split-tx-drop-invalid" \notin SplitFileSettings(config)
  BY Accepted DEF WarningCodes
<1>2. /\ AnyOf(config.set, SplitTimes) => ValidSplitTimes(SplitGlobals(config))
      /\ AnyOf(o.set, SplitTimes) => ValidSplitTimes(SplitOf(config, o))
      /\ Has(config.set, "split_tx_drop_shorter_than") => ValidSplitDrop(SplitGlobals(config))
      /\ DropOverridden(o) => ValidSplitDrop(SplitOf(config, o))
  BY <1>1 DEF SplitFileSettings, If
<1>3. WholeTimes(config.set) /\ WholeTimes(o.set)
  BY DEF SplitSettings, OfType
<1> DEFINE t == SplitOf(config, o)  g == SplitGlobals(config)
<1>4. \A k \in DOMAIN SplitDefaults :
        /\ g[k] = Or(config.set, k, SplitDefaults[k]) /\ g[k] \in Int
        /\ t[k] = Or(o.set, k, g[k]) /\ t[k] \in Int
  BY <1>3 DEF SplitGlobals, SplitOf, WholeTimes, Has, Or, SplitDefaults
<1>5. DOMAIN SplitDefaults = SplitTimes \cup {"split_tx_drop_shorter_than"}
  BY DEF SplitDefaults, SplitTimes
<1>6. CASE ~AnyOf(config.set, SplitTimes)
  BY <1>2, <1>4, <1>5, <1>6 DEF AnyOf, SplitTimes, ValidSplitTimes, ValidSplitDrop,
     DropOverridden, DropKeys, Or, SplitDefaults, Has
<1>7. CASE AnyOf(config.set, SplitTimes)
  BY <1>2, <1>4, <1>5, <1>7 DEF AnyOf, SplitTimes, ValidSplitTimes, ValidSplitDrop,
     DropOverridden, DropKeys, Or, SplitDefaults, Has
<1> QED BY <1>6, <1>7

-----------------------------------------------------------------------------
(***************************************************************************)
(* checks/devices: the bins of a device.                                   *)
(***************************************************************************)

\* Of two channels on one bin with two frequencies, one is the first of its frequency and
\* comes after another.
LEMMA FirstCollides ==
  ASSUME NEW J \in SUBSET Nat, NEW bins, NEW freqs, DOMAIN bins = J,
         NEW i \in J, NEW j \in J, bins[i] = bins[j], freqs[i] # freqs[j]
  PROVE  \E k \in J : Collides(bins, freqs, k)
<1> DEFINE first(k) == {h \in J : bins[h] = bins[k] /\ freqs[h] = freqs[k]}
<1>1. PICK a \in first(i) : \A h \in first(i) : a <= h
  BY Smallest
<1>2. PICK b \in first(j) : \A h \in first(j) : b <= h
  BY Smallest
<1>3. /\ a \in J /\ bins[a] = bins[i] /\ freqs[a] = freqs[i]
      /\ b \in J /\ bins[b] = bins[j] /\ freqs[b] = freqs[j]
  OBVIOUS
<1>4. a # b /\ a \in Nat /\ b \in Nat
  BY <1>3
<1>5. CASE a < b
  <2>1. \A h \in J : h < b /\ bins[h] = bins[b] => freqs[h] # freqs[b]
    BY <1>2, <1>3
  <2> HIDE DEF first
  <2> QED BY <1>3, <1>5, <2>1 DEF Collides
<1>6. CASE b < a
  <2>1. \A h \in J : h < a /\ bins[h] = bins[a] => freqs[h] # freqs[a]
    BY <1>1, <1>3
  <2> HIDE DEF first
  <2> QED BY <1>3, <1>6, <2>1 DEF Collides
<1> QED BY <1>4, <1>5, <1>6

\* A config without errors has no two frequencies of a device on one bin.
THEOREM AcceptedBinsAreApart ==
  ASSUME TunedChannels(config)
  PROVE  OneFrequencyPerBin
<1> SUFFICES ASSUME Errors(config) = {}, NEW d \in ToSet(config.devices), ~IsScanDevice(d),
                    NEW x \in ToSet(d.channels), NEW y \in ToSet(d.channels),
                    Bin(config, d, x) = Bin(config, d, y), x.set["freq"] # y.set["freq"]
             PROVE  FALSE
  BY DEF OneFrequencyPerBin
<1>1. Has(d.set, "centerfreq")
  <2>1. "device-centerfreq-required" \notin RequiredSettings(d)
    BY Accepted DEF WarningCodes
  <2> QED BY <2>1 DEF RequiredSettings, If
<1>2. \A ch \in ToSet(d.channels) : ~ch.scan
  <2>1. "scan-mode-channel-shape-mismatch" \notin ScanMode(config)
    BY Accepted DEF WarningCodes
  <2> QED BY <2>1 DEF ScanMode, If
<1> DEFINE tuned == {j \in DOMAIN d.channels : Has(d.channels[j].set, "freq")}
           bins == [j \in tuned |-> Bin(config, d, d.channels[j])]
           freqs == [j \in tuned |-> d.channels[j].set["freq"]]
<1>3. tuned = DOMAIN d.channels /\ tuned \subseteq Nat
  BY <1>2 DEF TunedChannels, ToSet
<1>4. PICK i \in tuned, j \in tuned : x = d.channels[i] /\ y = d.channels[j]
  BY <1>3 DEF ToSet
<1>5. \E k \in tuned : Collides(bins, freqs, k)
  <2>1. bins[i] = bins[j] /\ freqs[i] # freqs[j]
    BY <1>4
  <2> HIDE DEF bins, freqs
  <2>2. DOMAIN bins = tuned
    BY DEF bins
  <2> QED BY <1>3, <2>1, <2>2, FirstCollides
<1>6. "fft-bin-collision" \notin BinCollisions(config)
  BY Accepted DEF WarningCodes
<1> QED BY <1>1, <1>5, <1>6 DEF BinCollisions, If

-----------------------------------------------------------------------------
(***************************************************************************)
(* Disabling.  A config with something disabled is the same as before, part *)
(* by part, but for the settings `disable`; each check then finds what it   *)
(* found before, or less, except disable_cascade.                           *)
(***************************************************************************)

TooLittle == {"no-active-devices", "no-active-channels", "no-active-outputs", "no-active-mixer-outputs"}

\* h is g, perhaps disabled.
Same(g, h) ==
  LET known == DOMAIN g \ {"disable"}
  IN  /\ DOMAIN h \ {"disable"} = known
      /\ \A k \in known : h[k] = g[k]
      /\ Off(g) => Off(h)

SameOutput(o, p) == p.type = o.type /\ p.rdio = o.rdio /\ Same(o.set, p.set)

SameChannel(x, y) ==
  /\ y.scan = x.scan /\ y.lists = x.lists /\ Same(x.set, y.set)
  /\ DOMAIN y.outputs = DOMAIN x.outputs
  /\ \A k \in DOMAIN x.outputs : SameOutput(x.outputs[k], y.outputs[k])

SameDevice(d, f) ==
  /\ Same(d.set, f.set)
  /\ DOMAIN f.channels = DOMAIN d.channels /\ Len(f.channels) = Len(d.channels)
  /\ \A j \in DOMAIN d.channels : SameChannel(d.channels[j], f.channels[j])

SameMixer(m, n) ==
  n.name = m.name /\ n.outputs = m.outputs /\ n.remote_inputs = m.remote_inputs /\ Same(m.set, n.set)

\* e is c with something disabled.
SameConfig(c, e) ==
  /\ e.set = c.set
  /\ DOMAIN e.devices = DOMAIN c.devices
  /\ \A i \in DOMAIN c.devices : SameDevice(c.devices[i], e.devices[i])
  /\ DOMAIN e.mixers = DOMAIN c.mixers
  /\ \A i \in DOMAIN c.mixers : SameMixer(c.mixers[i], e.mixers[i])

LEMMA SameSettings ==
  ASSUME NEW g, NEW h, Same(g, h)
  PROVE  /\ \A k : k # "disable" => /\ Has(h, k) <=> Has(g, k)
                                    /\ \A v : Or(h, k, v) = Or(g, k, v)
                                    /\ On(h, k) = On(g, k)
                                    /\ Has(g, k) => h[k] = g[k]
         /\ \A K : "disable" \notin K => K \cap DOMAIN h = K \cap DOMAIN g /\ (AnyOf(h, K) <=> AnyOf(g, K))
         /\ Off(g) => Off(h)
<1>1. \A k : k # "disable" => (k \in DOMAIN h <=> k \in DOMAIN g) /\ (k \in DOMAIN g => h[k] = g[k])
  BY DEF Same
<1>2. \A k : k # "disable" => \A v : Or(h, k, v) = Or(g, k, v)
  BY <1>1 DEF Or
<1>3. \A K : "disable" \notin K => K \cap DOMAIN h = K \cap DOMAIN g
  BY <1>1
<1>4. \A K : "disable" \notin K => (AnyOf(h, K) <=> AnyOf(g, K))
  BY <1>3 DEF AnyOf
<1>5. \A k : k # "disable" => On(h, k) = On(g, k)
  BY <1>2 DEF On
<1>6. \A k : k # "disable" => (Has(h, k) <=> Has(g, k)) /\ (Has(g, k) => h[k] = g[k])
  BY <1>1 DEF Has
<1>7. Off(g) => Off(h)
  BY DEF Same
<1> QED BY <1>2, <1>3, <1>4, <1>5, <1>6, <1>7

-----------------------------------------------------------------------------
\* The parts of two such configs, as sets, either way.
LEMMA SameParts ==
  ASSUME NEW c, NEW e, SameConfig(c, e)
  PROVE  /\ \A f \in ToSet(e.devices) : \E d \in ToSet(c.devices) : SameDevice(d, f)
         /\ \A y \in Channels(e) : \E x \in Channels(c) : SameChannel(x, y)
         /\ \A n \in Mixers(e) : \E m \in Mixers(c) : SameMixer(m, n)
         /\ \A m \in Mixers(c) : \E n \in Mixers(e) : SameMixer(m, n)
         /\ \A p \in ChannelOutputs(e) : \E o \in ChannelOutputs(c) : SameOutput(o, p)
         /\ \A o \in ChannelOutputs(c) : \E p \in ChannelOutputs(e) : SameOutput(o, p)
         /\ \A p \in ScanOutputs(e) : \E o \in ScanOutputs(c) : SameOutput(o, p)
         /\ MixerOutputs(e) = MixerOutputs(c)
         /\ Inputs(e) = Inputs(c)
<1>1. \A f \in ToSet(e.devices) : \E d \in ToSet(c.devices) : SameDevice(d, f)
  BY DEF ToSet, SameConfig
<1>2. \A d \in ToSet(c.devices) : \E f \in ToSet(e.devices) : SameDevice(d, f)
  BY DEF ToSet, SameConfig
<1>3. \A d, f : SameDevice(d, f) =>
        /\ \A y \in ToSet(f.channels) : \E x \in ToSet(d.channels) : SameChannel(x, y)
        /\ \A x \in ToSet(d.channels) : \E y \in ToSet(f.channels) : SameChannel(x, y)
        /\ IsScanDevice(f) = IsScanDevice(d)
  <2> TAKE d, f
  <2> SUFFICES ASSUME SameDevice(d, f)
      PROVE /\ \A y \in ToSet(f.channels) : \E x \in ToSet(d.channels) : SameChannel(x, y)
            /\ \A x \in ToSet(d.channels) : \E y \in ToSet(f.channels) : SameChannel(x, y)
            /\ IsScanDevice(f) = IsScanDevice(d)
    OBVIOUS
  <2>1. IsScanDevice(f) = IsScanDevice(d)
    BY SameSettings DEF SameDevice, IsScanDevice
  <2> QED BY <2>1 DEF ToSet, SameDevice
<1>4. \A x, y : SameChannel(x, y) =>
        /\ \A p \in ToSet(y.outputs) : \E o \in ToSet(x.outputs) : SameOutput(o, p)
        /\ \A o \in ToSet(x.outputs) : \E p \in ToSet(y.outputs) : SameOutput(o, p)
  BY DEF ToSet, SameChannel
<1>5. /\ \A y \in Channels(e) : \E x \in Channels(c) : SameChannel(x, y)
      /\ \A x \in Channels(c) : \E y \in Channels(e) : SameChannel(x, y)
  <2>1. ASSUME NEW y \in Channels(e) PROVE \E x \in Channels(c) : SameChannel(x, y)
    <3>1. PICK f \in ToSet(e.devices) : y \in ToSet(f.channels)
      BY <2>1 DEF Channels
    <3> QED BY <1>1, <1>3, <3>1 DEF Channels
  <2>2. ASSUME NEW x \in Channels(c) PROVE \E y \in Channels(e) : SameChannel(x, y)
    <3>1. PICK d \in ToSet(c.devices) : x \in ToSet(d.channels)
      BY <2>2 DEF Channels
    <3> QED BY <1>2, <1>3, <3>1 DEF Channels
  <2> QED BY <2>1, <2>2
<1>6. /\ \A p \in ChannelOutputs(e) : \E o \in ChannelOutputs(c) : SameOutput(o, p)
      /\ \A o \in ChannelOutputs(c) : \E p \in ChannelOutputs(e) : SameOutput(o, p)
  <2>1. ASSUME NEW p \in ChannelOutputs(e) PROVE \E o \in ChannelOutputs(c) : SameOutput(o, p)
    <3>1. PICK y \in Channels(e) : p \in ToSet(y.outputs)
      BY <2>1 DEF ChannelOutputs
    <3> QED BY <1>4, <1>5, <3>1 DEF ChannelOutputs
  <2>2. ASSUME NEW o \in ChannelOutputs(c) PROVE \E p \in ChannelOutputs(e) : SameOutput(o, p)
    <3>1. PICK x \in Channels(c) : o \in ToSet(x.outputs)
      BY <2>2 DEF ChannelOutputs
    <3> QED BY <1>4, <1>5, <3>1 DEF ChannelOutputs
  <2> QED BY <2>1, <2>2
<1>7. \A p \in ScanOutputs(e) : \E o \in ScanOutputs(c) : SameOutput(o, p)
  <2> SUFFICES ASSUME NEW p \in ScanOutputs(e) PROVE \E o \in ScanOutputs(c) : SameOutput(o, p)
    OBVIOUS
  <2>1. PICK f \in ToSet(e.devices) : IsScanDevice(f) /\ \E y \in ToSet(f.channels) : p \in ToSet(y.outputs)
    BY DEF ScanOutputs
  <2>2. PICK d \in ToSet(c.devices) : SameDevice(d, f)
    BY <1>1
  <2>3. PICK y \in ToSet(f.channels) : p \in ToSet(y.outputs)
    BY <2>1
  <2>4. PICK x \in ToSet(d.channels) : SameChannel(x, y)
    BY <1>3, <2>2
  <2>5. PICK o \in ToSet(x.outputs) : SameOutput(o, p)
    BY <1>4, <2>3, <2>4
  <2>6. IsScanDevice(d)
    BY <1>3, <2>1, <2>2
  <2> QED BY <2>4, <2>5, <2>6 DEF ScanOutputs
<1>8. /\ \A n \in Mixers(e) : \E m \in Mixers(c) : SameMixer(m, n)
      /\ \A m \in Mixers(c) : \E n \in Mixers(e) : SameMixer(m, n)
  BY DEF Mixers, ToSet, SameConfig
<1>9. MixerOutputs(e) = MixerOutputs(c)
  BY <1>8 DEF MixerOutputs, SameMixer
<1>10. Inputs(e) = Inputs(c)
  <2>1. [i \in DOMAIN e.mixers |-> e.mixers[i].remote_inputs]
          = [i \in DOMAIN c.mixers |-> c.mixers[i].remote_inputs]
    BY DEF SameConfig, SameMixer
  <2> QED BY <2>1 DEF Inputs
<1> QED BY <1>1, <1>5, <1>6, <1>7, <1>8, <1>9, <1>10

LEMMA SameVals ==
  ASSUME NEW x, NEW y, SameChannel(x, y), NEW k, k # "disable"
  PROVE  Vals(y, k) = Vals(x, k)
BY SameSettings DEF SameChannel, Vals

LEMMA SameBins ==
  ASSUME NEW c, NEW e, SameConfig(c, e)
  PROVE  BinCollisions(e) \subseteq BinCollisions(c)
<1> DEFINE tuned(d) == {j \in DOMAIN d.channels : Has(d.channels[j].set, "freq")}
           bins(a, d) == [j \in tuned(d) |-> Bin(a, d, d.channels[j])]
           freqs(d) == [j \in tuned(d) |-> d.channels[j].set["freq"]]
           bad(a, d) == /\ Has(d.set, "centerfreq") /\ ~IsScanDevice(d)
                        /\ \E j \in tuned(d) : Collides(bins(a, d), freqs(d), j)
<1>1. ASSUME NEW i \in DOMAIN c.devices
      PROVE  bad(e, e.devices[i]) <=> bad(c, c.devices[i])
  <2> DEFINE d == c.devices[i]  f == e.devices[i]
  <2>1. Same(d.set, f.set) /\ DOMAIN f.channels = DOMAIN d.channels
        /\ \A j \in DOMAIN d.channels : Same(d.channels[j].set, f.channels[j].set)
    BY <1>1 DEF SameConfig, SameDevice, SameChannel
  <2> HIDE DEF d, f
  <2>2. (Has(f.set, "centerfreq") <=> Has(d.set, "centerfreq")) /\ IsScanDevice(f) = IsScanDevice(d) /\ SampleRate(f) = SampleRate(d)
    BY <2>1, SameSettings DEF IsScanDevice, SampleRate
  <2>3. tuned(f) = tuned(d) /\ freqs(f) = freqs(d)
    BY <2>1, SameSettings
  <2>4. CASE Has(d.set, "centerfreq")
    <3>1. f.set["centerfreq"] = d.set["centerfreq"]
      BY <2>1, <2>4, SameSettings
    <3>2. \A j \in tuned(d) : Bin(e, f, f.channels[j]) = Bin(c, d, d.channels[j])
      BY <2>1, <2>2, <3>1, SameSettings DEF Bin, SameConfig
    <3>3. bins(e, f) = bins(c, d)
      BY <2>3, <3>2
    <3> QED BY <2>2, <2>3, <3>3 DEF d, f
  <2> QED BY <2>2, <2>4 DEF d, f
<1> HIDE DEF bad
<1>2. (\E f \in ToSet(e.devices) : bad(e, f)) => \E d \in ToSet(c.devices) : bad(c, d)
  BY <1>1 DEF ToSet, SameConfig
<1> QED BY <1>2 DEF BinCollisions, If, bad

LEMMA SameScanMode ==
  ASSUME NEW c, NEW e, SameConfig(c, e)
  PROVE  ScanMode(e) \subseteq ScanMode(c)
<1>1. ASSUME NEW i \in DOMAIN c.devices
      PROVE  LET d == c.devices[i]  f == e.devices[i]
                 Shape(x) == {ch \in ToSet(x.channels) : ch.scan}
             IN  /\ IsScanDevice(f) = IsScanDevice(d) /\ Len(f.channels) = Len(d.channels)
                 /\ Shape(f) # {} <=> Shape(d) # {}
                 /\ Shape(f) # ToSet(f.channels) <=> Shape(d) # ToSet(d.channels)
  <2> DEFINE d == c.devices[i]  f == e.devices[i]
  <2>1. Same(d.set, f.set) /\ DOMAIN f.channels = DOMAIN d.channels /\ Len(f.channels) = Len(d.channels)
        /\ \A j \in DOMAIN d.channels : f.channels[j].scan = d.channels[j].scan
    BY <1>1 DEF SameConfig, SameDevice, SameChannel
  <2> HIDE DEF d, f
  <2>2. IsScanDevice(f) = IsScanDevice(d)
    BY <2>1, SameSettings DEF IsScanDevice
  <2>3. (\E ch \in ToSet(f.channels) : ch.scan) <=> \E ch \in ToSet(d.channels) : ch.scan
    BY <2>1 DEF ToSet
  <2>4. (\A ch \in ToSet(f.channels) : ch.scan) <=> \A ch \in ToSet(d.channels) : ch.scan
    BY <2>1 DEF ToSet
  <2> QED BY <2>1, <2>2, <2>3, <2>4 DEF d, f
<1>2. \A y \in Channels(e) : \E x \in Channels(c) : y.scan = x.scan /\ y.lists = x.lists
  BY SameParts DEF SameChannel
<1> DEFINE one(d) == IF IsScanDevice(d)
                       THEN If(Len(d.channels) # 1, "scan-mode-single-channel")
                              \cup If({ch \in ToSet(d.channels) : ch.scan} # ToSet(d.channels),
                                     "scan-mode-channel-shape-mismatch")
                       ELSE If({ch \in ToSet(d.channels) : ch.scan} # {},
                               "scan-mode-channel-shape-mismatch")
           lists(a) ==
             LET scans == {ch \in Channels(a) : ch.scan}
                 Short(ch) == \E k \in DOMAIN ch.lists \ {"freqs"} : Len(ch.lists[k]) < Len(ch.lists["freqs"])
                 Long(ch) == \E k \in DOMAIN ch.lists \ {"freqs"} : Len(ch.lists[k]) > Len(ch.lists["freqs"])
             IN  If(\E ch \in scans : ch.lists["freqs"] = <<>>, "scan-freqs-empty")
                   \cup If(\E ch \in scans : Short(ch), "scan-list-too-short")
                   \cup If(\E ch \in scans : Long(ch), "scan-list-too-long")
<1>3. \A i \in DOMAIN c.devices : one(e.devices[i]) = one(c.devices[i])
  BY <1>1 DEF If
<1>4. (UNION {one(f) : f \in ToSet(e.devices)}) \subseteq (UNION {one(d) : d \in ToSet(c.devices)})
  <2> HIDE DEF one
  <2> QED BY <1>3 DEF ToSet, SameConfig
<1>5. lists(e) \subseteq lists(c)
  BY <1>2 DEF If
<1>6. \A a : ScanMode(a) = (UNION {one(d) : d \in ToSet(a.devices)}) \cup lists(a)
  BY Zenon DEF ScanMode
<1> HIDE DEF one, lists
<1> QED BY <1>4, <1>5, <1>6

LEMMA SameRequired ==
  ASSUME NEW d, NEW f, SameDevice(d, f), Has(d.set, "type")
  PROVE  RequiredSettings(f) = RequiredSettings(d)
<1>1. \A k : k # "disable" => (Has(f.set, k) <=> Has(d.set, k))
  BY SameSettings DEF SameDevice
<1>2. IsScanDevice(f) = IsScanDevice(d) /\ f.set["type"] = d.set["type"]
  BY SameSettings DEF SameDevice, IsScanDevice
<1> QED BY <1>1, <1>2, SameSettings DEF RequiredSettings, If, SameDevice

LEMMA SameNumbers ==
  ASSUME NEW d, NEW f, SameDevice(d, f), Has(d.set, "type")
  PROVE  DeviceNumbers(f) = DeviceNumbers(d)
<1>1. Same(d.set, f.set)
  BY DEF SameDevice
<1>2. \A k : k # "disable" => /\ Has(f.set, k) <=> Has(d.set, k)
                              /\ \A v : Or(f.set, k, v) = Or(d.set, k, v)
                              /\ Has(d.set, k) => f.set[k] = d.set[k]
  BY <1>1, SameSettings
<1>3. IsScanDevice(f) = IsScanDevice(d) /\ SampleRate(f) = SampleRate(d) /\ f.set["type"] = d.set["type"]
  BY <1>2 DEF IsScanDevice, SampleRate
<1>4. If(/\ f.set["type"] = "rtlsdr" /\ Has(f.set, "buffer_size")
         /\ ~(f.set["buffer_size"] \in 1..MaxUsbBuffer /\ f.set["buffer_size"] % 512 = 0),
         "device-buffer-size-invalid")
      = If(/\ d.set["type"] = "rtlsdr" /\ Has(d.set, "buffer_size")
           /\ ~(d.set["buffer_size"] \in 1..MaxUsbBuffer /\ d.set["buffer_size"] % 512 = 0),
           "device-buffer-size-invalid")
  <2>1. Has(d.set, "buffer_size") => f.set["buffer_size"] = d.set["buffer_size"]
    BY <1>2
  <2>2. Has(f.set, "buffer_size") <=> Has(d.set, "buffer_size")
    BY <1>2
  <2> QED BY <1>3, <2>1, <2>2 DEF If
<1>5. \A k \in {"buffers", "num_buffers", "reserve_channels", "bandwidth"}, v \in {0, 1} :
        Or(f.set, k, v) = Or(d.set, k, v)
  BY <1>2
<1>6. /\ Or(f.set, "buffers", 1) = Or(d.set, "buffers", 1)
      /\ Or(f.set, "num_buffers", 1) = Or(d.set, "num_buffers", 1)
      /\ Or(f.set, "reserve_channels", 0) = Or(d.set, "reserve_channels", 0)
      /\ Or(f.set, "bandwidth", 0) = Or(d.set, "bandwidth", 0)
  BY <1>5
<1> DEFINE size(g) == If(/\ g["type"] = "rtlsdr" /\ Has(g, "buffer_size")
                         /\ ~(g["buffer_size"] \in 1..MaxUsbBuffer /\ g["buffer_size"] % 512 = 0),
                         "device-buffer-size-invalid")
           numbers(ty, scan, rate, sized, buffers, num, reserve, width) ==
             If(rate <= 16, "device-sample-rate-too-low")
               \cup If(ty = "rtlsdr" /\ rate \in 301..900, "device-sample-rate-unsupported")
               \cup If(ty = "rtlsdr" /\ buffers <= 0, "device-buffers-invalid")
               \cup sized
               \cup If(ty = "mirisdr" /\ num <= 0, "device-num-buffers-invalid")
               \cup If(reserve < 0, "device-reserve-channels-negative")
               \cup If(scan /\ reserve # 0, "device-reserve-channels-scan-unsupported")
               \cup If(ty = "rtlsdr" /\ width < 0, "device-bandwidth-negative")
<1>7. \A a : DeviceNumbers(a) =
             numbers(a.set["type"], IsScanDevice(a), SampleRate(a), size(a.set), Or(a.set, "buffers", 1),
                     Or(a.set, "num_buffers", 1), Or(a.set, "reserve_channels", 0),
                     Or(a.set, "bandwidth", 0))
  BY Zenon DEF DeviceNumbers
<1>8. size(f.set) = size(d.set)
  BY <1>4
<1> HIDE DEF numbers, size
<1> QED BY <1>3, <1>6, <1>7, <1>8

LEMMA SamePpm ==
  ASSUME NEW d, NEW f, SameDevice(d, f), Has(d.set, "type")
  PROVE  AutoPpm(f) \subseteq AutoPpm(d)
<1>1. Same(d.set, f.set) /\ Len(f.channels) = Len(d.channels)
  BY DEF SameDevice
<1>2. \A k : k # "disable" => /\ Has(f.set, k) <=> Has(d.set, k)
                              /\ \A v : Or(f.set, k, v) = Or(d.set, k, v)
                              /\ Has(d.set, k) => f.set[k] = d.set[k]
  BY <1>1, SameSettings
<1>3. IsScanDevice(f) = IsScanDevice(d) /\ f.set["type"] = d.set["type"] /\ MaxPpm(f) = MaxPpm(d)
  BY <1>2 DEF IsScanDevice, MaxPpm
<1>4. VoterCapacity(f) = VoterCapacity(d)
  BY <1>1, <1>2 DEF VoterCapacity
<1>5. MinVoters(f) \subseteq MinVoters(d)
  <2>1. Off(d.set) => Off(f.set)
    BY <1>1, SameSettings
  <2> QED BY <1>2, <1>3, <1>4, <2>1 DEF MinVoters, If
<1>6. DOMAIN PpmRanges \cap DOMAIN f.set = DOMAIN PpmRanges \cap DOMAIN d.set
  <2>1. "disable" \notin DOMAIN PpmRanges
    BY DEF PpmRanges
  <2> QED BY <1>1, <2>1, SameSettings
<1>7. \A k \in DOMAIN PpmRanges \cap DOMAIN d.set : f.set[k] = d.set[k]
  BY <1>2 DEF PpmRanges, Has
<1>8. CASE ~Has(d.set, "auto_ppm")
  BY <1>2, <1>6, <1>8 DEF AutoPpm, If
<1>9. CASE Has(d.set, "auto_ppm")
  BY <1>2, <1>3, <1>5, <1>6, <1>7, <1>9 DEF AutoPpm, If
<1> QED BY <1>8, <1>9

-----------------------------------------------------------------------------
LEMMA SameChannelChecks ==
  ASSUME NEW c, NEW e, SameConfig(c, e)
  PROVE  /\ CtcssTones(e) \subseteq WarningCodes
         /\ FilterCutoffs(e) \subseteq FilterCutoffs(c)
         /\ Modulation(e) \subseteq Modulation(c)
         /\ ChannelValues(e) \subseteq ChannelValues(c)
         /\ EnabledDisableRedundant(e) \subseteq WarningCodes
<1>1. \A y \in Channels(e) : \E x \in Channels(c) : SameChannel(x, y)
  BY SameParts
<1>2. \A n \in Mixers(e) : \E m \in Mixers(c) : SameMixer(m, n)
  BY SameParts
<1>3. CtcssTones(e) \subseteq WarningCodes
  BY DEF CtcssTones, If, WarningCodes
<1>4. EnabledDisableRedundant(e) \subseteq WarningCodes
  BY DEF EnabledDisableRedundant, If, WarningCodes
<1>5. FilterCutoffs(e) \subseteq FilterCutoffs(c)
  <2>1. \A n \in Channels(e) \cup Mixers(e) : \E m \in Channels(c) \cup Mixers(c) : Same(m.set, n.set)
    BY <1>1, <1>2 DEF SameChannel, SameMixer
  <2>2. \A g, h : Same(g, h) =>
          ({"lowpass", "highpass"} \subseteq DOMAIN h /\ h["lowpass"] < h["highpass"]
             => {"lowpass", "highpass"} \subseteq DOMAIN g /\ g["lowpass"] < g["highpass"])
    BY SameSettings DEF Has
  <2> QED BY <2>1, <2>2 DEF FilterCutoffs, If
<1>6. \A y \in Channels(e) : \E x \in Channels(c) :
        /\ \A k : k # "disable" => Vals(y, k) = Vals(x, k)
        /\ \A k : k # "disable" => (Has(y.set, k) <=> Has(x.set, k))
        /\ y.lists = x.lists
  BY <1>1, SameVals, SameSettings DEF SameChannel
<1>7. Modulation(e) \subseteq Modulation(c)
  BY <1>6 DEF Modulation, If
<1>8. \A k, fine, code : k # "disable" => ScalarOrList(e, k, fine, code) \subseteq ScalarOrList(c, k, fine, code)
  BY <1>6 DEF ScalarOrList, If
<1>9. ChannelValues(e) \subseteq ChannelValues(c)
  BY <1>6, <1>8 DEF ChannelValues, If
<1> QED BY <1>3, <1>4, <1>5, <1>7, <1>9

LEMMA SameOutputs ==
  ASSUME NEW c, NEW e, SameConfig(c, e)
  PROVE  /\ \A p \in Outputs(e) : \E o \in Outputs(c) : SameOutput(o, p)
         /\ \A o \in Outputs(c) : \E p \in Outputs(e) : SameOutput(o, p)
         /\ \A p \in ScanOutputs(e) : \E o \in ScanOutputs(c) : o \in Outputs(c) /\ SameOutput(o, p)
<1>1. \A o : SameOutput(o, o)
  BY DEF SameOutput, Same
<1>2. \A o \in ScanOutputs(c) : o \in Outputs(c)
  BY DEF ScanOutputs, Outputs, ChannelOutputs, Channels
<1> QED BY <1>1, <1>2, SameParts DEF Outputs

LEMMA SameOutputSettings ==
  ASSUME NEW o, NEW p, SameOutput(o, p)
  PROVE  /\ p.type = o.type /\ p.rdio = o.rdio
         /\ \A k : k # "disable" => /\ Has(p.set, k) <=> Has(o.set, k)
                                    /\ \A v : Or(p.set, k, v) = Or(o.set, k, v)
                                    /\ On(p.set, k) = On(o.set, k)
                                    /\ Has(o.set, k) => p.set[k] = o.set[k]
         /\ \A K : "disable" \notin K => K \cap DOMAIN p.set = K \cap DOMAIN o.set
                                         /\ (AnyOf(p.set, K) <=> AnyOf(o.set, K))
         /\ Off(o.set) => Off(p.set)
BY SameSettings DEF SameOutput

LEMMA SameOutputChecks ==
  ASSUME NEW c, NEW e, SameConfig(c, e), Typed(c)
  PROVE  /\ RdioScanner(e) \subseteq RdioScanner(c)
         /\ OutputValues(e) \subseteq OutputValues(c) \cup WarningCodes
<1>1. /\ \A p \in Outputs(e) : \E o \in Outputs(c) : SameOutput(o, p)
      /\ \A p \in ScanOutputs(e) : \E o \in ScanOutputs(c) : o \in Outputs(c) /\ SameOutput(o, p)
      /\ e.set = c.set /\ MixerOutputs(e) = MixerOutputs(c)
  BY SameOutputs, SameParts DEF SameConfig
<1>2. RdioScanner(e) \subseteq RdioScanner(c)
  <2> DEFINE used(a) == {o \in OfType(Outputs(a), "file") : o.rdio # <<>> /\ ~Off(o.rdio[1])}
  <2>1. \A o, p : SameOutput(o, p) =>
          /\ p.rdio = o.rdio /\ p.type = o.type
          /\ On(p.set, "split_on_transmission") = On(o.set, "split_on_transmission")
    BY SameOutputSettings
  <2>2. \A p \in used(e) : \E o \in used(c) : o.rdio = p.rdio
          /\ On(p.set, "split_on_transmission") = On(o.set, "split_on_transmission")
    BY <1>1, <2>1 DEF OfType
  <2>3. used(e) \cap ScanOutputs(e) # {} => used(c) \cap ScanOutputs(c) # {}
    BY <1>1, <2>1 DEF OfType
  <2>4. \A a : RdioScanner(a) =
          If(\E o \in used(a) : ~On(o.set, "split_on_transmission"),
             "rdio-scanner-requires-split-on-transmission")
            \cup If(used(a) \cap ScanOutputs(a) # {}, "rdio-scanner-not-supported-on-scan-mode")
            \cup If(\E o \in used(a) : Or(o.rdio[1], "timeout_ms", 1) <= 0, "rdio-scanner-invalid-timeout")
            \cup If(\E o \in used(a) : Or(o.rdio[1], "max_retries", 0) < 0, "rdio-scanner-invalid-max-retries")
            \cup If(Or(a.set, "rdio_scanner_queue_depth", 1) <= 0, "rdio-scanner-invalid-queue-depth")
    BY Zenon DEF RdioScanner
  <2> HIDE DEF used
  <2> QED BY <1>1, <2>2, <2>3, <2>4 DEF If
<1>3. OutputValues(e) \subseteq OutputValues(c) \cup WarningCodes
  <2>1. \A o, p : SameOutput(o, p) =>
          /\ p.type = o.type
          /\ \A k \in {"send_tx_tags", "continuous", "split_on_transmission"} : On(p.set, k) = On(o.set, k)
          /\ Or(p.set, "sample_rate", 1) = Or(o.set, "sample_rate", 1)
    BY SameOutputSettings
  <2>2. \A p \in OfType(Outputs(e), "mixer_remote") :
          \E o \in OfType(Outputs(c), "mixer_remote") : p.set["stream_id"] = o.set["stream_id"]
    <3> SUFFICES ASSUME NEW p \in OfType(Outputs(e), "mixer_remote")
                 PROVE \E o \in OfType(Outputs(c), "mixer_remote") : p.set["stream_id"] = o.set["stream_id"]
      OBVIOUS
    <3>1. CASE p \in MixerOutputs(c)
      BY <3>1 DEF Outputs, OfType
    <3>2. CASE p \in ChannelOutputs(e)
      <4>1. PICK o \in ChannelOutputs(c) : SameOutput(o, p)
        BY <3>2, SameParts
      <4> QED BY <4>1, SameOutputSettings DEF Typed, OfType, Outputs
    <3> QED BY <1>1, <3>1, <3>2 DEF OfType, Outputs
  <2>3. /\ \A p \in OfType(ScanOutputs(e), "icecast") : \E o \in OfType(ScanOutputs(c), "icecast") :
             On(p.set, "send_tx_tags") = On(o.set, "send_tx_tags")
        /\ \A p \in OfType(Outputs(e), "file") : \E o \in OfType(Outputs(c), "file") :
             /\ On(p.set, "continuous") = On(o.set, "continuous")
             /\ On(p.set, "split_on_transmission") = On(o.set, "split_on_transmission")
        /\ \A p \in OfType(Outputs(e), "udp_stream") : \E o \in OfType(Outputs(c), "udp_stream") :
             Or(p.set, "sample_rate", 1) = Or(o.set, "sample_rate", 1)
    BY <1>1, <2>1 DEF OfType
  <2>4. "post-write-script-runs-arbitrary-command" \in WarningCodes
    BY DEF WarningCodes
  <2> QED BY <2>2, <2>3, <2>4 DEF OutputValues, If
<1> QED BY <1>2, <1>3

LEMMA SameMixerChecks ==
  ASSUME NEW c, NEW e, SameConfig(c, e), Typed(c)
  PROVE  /\ MixerRouting(e) \subseteq MixerRouting(c)
         /\ MixerNestedOutputs(e) \subseteq MixerNestedOutputs(c)
         /\ MixerValues(e) \subseteq MixerValues(c)
<1>1. /\ \A n \in Mixers(e) : \E m \in Mixers(c) : SameMixer(m, n)
      /\ \A m \in Mixers(c) : \E n \in Mixers(e) : SameMixer(m, n)
      /\ \A p \in ChannelOutputs(e) : \E o \in ChannelOutputs(c) : SameOutput(o, p)
      /\ \A o \in ChannelOutputs(c) : \E p \in ChannelOutputs(e) : SameOutput(o, p)
      /\ MixerOutputs(e) = MixerOutputs(c) /\ Inputs(e) = Inputs(c)
  BY SameParts
<1>2. MixerNestedOutputs(e) \subseteq MixerNestedOutputs(c)
  BY <1>1 DEF MixerNestedOutputs
<1>3. Routed(e) = Routed(c)
  <2>1. \A o \in ChannelOutputs(c) : \A p : SameOutput(o, p) =>
          p.type = o.type /\ (o.type = "mixer" => p.set["name"] = o.set["name"])
    BY SameOutputSettings DEF Typed
  <2> QED BY <1>1, <2>1 DEF Routed, OfType
<1>4. MixerRouting(e) \subseteq MixerRouting(c)
  <2>1. {n.name : n \in Mixers(e)} = {m.name : m \in Mixers(c)}
    BY <1>1 DEF SameMixer
  <2>2. \A n \in InUse(e.mixers) : \E m \in InUse(c.mixers) : m.name = n.name /\ m.outputs = n.outputs
    BY <1>1, SameSettings DEF InUse, Mixers, SameMixer
  <2> QED BY <1>3, <2>1, <2>2 DEF MixerRouting, If
<1>5. MixerValues(e) \subseteq MixerValues(c)
  <2>1. \A p \in OfType(ChannelOutputs(e), "mixer") : \E o \in OfType(ChannelOutputs(c), "mixer") :
          Balanced(p.set) <=> Balanced(o.set)
    <3>1. \A o, p : SameOutput(o, p) => p.type = o.type /\ Or(p.set, "balance", 0) = Or(o.set, "balance", 0)
      BY SameOutputSettings
    <3> QED BY <1>1, <3>1 DEF OfType, Balanced
  <2>2. \A n \in Mixers(e) : \E m \in Mixers(c) : Or(n.set, "reserve_inputs", 0) = Or(m.set, "reserve_inputs", 0)
    <3>1. \A m, n : SameMixer(m, n) => Or(n.set, "reserve_inputs", 0) = Or(m.set, "reserve_inputs", 0)
      BY SameSettings DEF SameMixer
    <3> QED BY <1>1, <3>1
  <2> QED BY <1>1, <2>1, <2>2 DEF MixerValues, If
<1> QED BY <1>2, <1>4, <1>5

LEMMA SameSplits ==
  ASSUME NEW c, NEW e, SameConfig(c, e)
  PROVE  SplitFileSettings(e) \subseteq SplitFileSettings(c) \cup WarningCodes
<1>1. /\ \A p \in ChannelOutputs(e) : \E o \in ChannelOutputs(c) : SameOutput(o, p)
      /\ MixerOutputs(e) = MixerOutputs(c) /\ e.set = c.set
  BY SameParts DEF SameConfig
<1>2. SplitGlobals(e) = SplitGlobals(c)
  BY <1>1 DEF SplitGlobals
<1>3. ASSUME NEW o, NEW p, SameOutput(o, p)
      PROVE  /\ p.type = o.type /\ SplitOf(e, p) = SplitOf(c, o)
             /\ AnyOf(p.set, SplitTimes) <=> AnyOf(o.set, SplitTimes)
             /\ DropOverridden(p) <=> DropOverridden(o)
  <2>1. \A k \in DOMAIN SplitDefaults : Or(p.set, k, SplitGlobals(c)[k]) = Or(o.set, k, SplitGlobals(c)[k])
    <3>1. "disable" \notin DOMAIN SplitDefaults
      BY DEF SplitDefaults
    <3> QED BY <1>3, <3>1, SameOutputSettings
  <2>2. "disable" \notin SplitTimes /\ "disable" \notin DropKeys
    BY DEF SplitTimes, DropKeys
  <2> QED BY <1>2, <1>3, <2>1, <2>2, SameOutputSettings DEF SplitOf, DropOverridden
<1> DEFINE files(outputs) == OfType(outputs, "file") \cup OfType(outputs, "rawfile")
<1>4. \A p \in files(ChannelOutputs(e)) : \E o \in files(ChannelOutputs(c)) :
        /\ SplitOf(e, p) = SplitOf(c, o)
        /\ AnyOf(p.set, SplitTimes) <=> AnyOf(o.set, SplitTimes)
        /\ DropOverridden(p) <=> DropOverridden(o)
  BY <1>1, <1>3 DEF OfType
<1>5. files(MixerOutputs(e)) = files(MixerOutputs(c))
  BY <1>1
<1>6. "split-settings-ignored-without-split-on-transmission" \in WarningCodes
  BY DEF WarningCodes
<1> QED BY <1>1, <1>2, <1>4, <1>5, <1>6 DEF SplitFileSettings, If

LEMMA OnlyWarnings ==
  ASSUME NEW a
  PROVE  FrequencyWindow(a) \cup UnknownSettings(a) \subseteq WarningCodes
BY DEF FrequencyWindow, UnknownSettings, If, WarningCodes

LEMMA OnlyTooLittle ==
  ASSUME NEW a
  PROVE  DisableCascade(a) \subseteq TooLittle
BY DEF DisableCascade, If, TooLittle

LEMMA DisablingErrors ==
  ASSUME NEW c, NEW e, SameConfig(c, e), Typed(c)
  PROVE  Errors(e) \subseteq Errors(c) \cup TooLittle
<1>1. \A f \in ToSet(e.devices) : \E d \in ToSet(c.devices) :
        RequiredSettings(f) \cup DeviceNumbers(f) \cup AutoPpm(f)
          \subseteq RequiredSettings(d) \cup DeviceNumbers(d) \cup AutoPpm(d)
  <2>1. \A d, f : SameDevice(d, f) /\ Has(d.set, "type") =>
          /\ RequiredSettings(f) = RequiredSettings(d) /\ DeviceNumbers(f) = DeviceNumbers(d)
          /\ AutoPpm(f) \subseteq AutoPpm(d)
    BY SameRequired, SameNumbers, SamePpm
  <2>2. \A f \in ToSet(e.devices) : \E d \in ToSet(c.devices) : SameDevice(d, f) /\ Has(d.set, "type")
    BY SameParts DEF Typed
  <2> QED BY <2>1, <2>2
<1> DEFINE found(a) == UNION {RequiredSettings(d) \cup DeviceNumbers(d) \cup AutoPpm(d) : d \in ToSet(a.devices)}
<1>2. found(e) \subseteq found(c)
  BY <1>1
<1>3. Globals(e) = Globals(c)
  BY DEF Globals, SameConfig
<1>4. \A a : Issues(a) =
        FrequencyWindow(a) \cup BinCollisions(a) \cup ScanMode(a) \cup DisableCascade(a)
          \cup found(a)
          \cup CtcssTones(a) \cup FilterCutoffs(a) \cup Modulation(a) \cup ChannelValues(a)
          \cup EnabledDisableRedundant(a) \cup RdioScanner(a) \cup OutputValues(a) \cup MixerRouting(a)
          \cup MixerNestedOutputs(a) \cup MixerValues(a) \cup Globals(a) \cup SplitFileSettings(a)
          \cup UnknownSettings(a)
  BY Zenon DEF Issues
<1> HIDE DEF found
<1>5. Issues(e) \subseteq Issues(c) \cup WarningCodes \cup TooLittle
  <2>1. FrequencyWindow(e) \cup UnknownSettings(e) \subseteq WarningCodes
    BY OnlyWarnings
  <2>2. DisableCascade(e) \subseteq TooLittle
    BY OnlyTooLittle
  <2> QED BY <1>2, <1>3, <1>4, <2>1, <2>2, SameBins, SameScanMode, SameChannelChecks, SameOutputChecks,
             SameMixerChecks, SameSplits
<1> QED BY <1>5 DEF Errors

-----------------------------------------------------------------------------
LEMMA SameNeeds ==
  ASSUME NEW g, NEW h, Same(g, h), NEW feature, NEW keys, "disable" \notin keys
  PROVE  Needs(h, feature, keys) = Needs(g, feature, keys)
BY SameSettings DEF Needs

LEMMA SameEach ==
  ASSUME NEW A, NEW B, \A y \in B : \E x \in A : Same(x.set, y.set),
         NEW feature, NEW keys, "disable" \notin keys
  PROVE  Each(B, feature, keys) \subseteq Each(A, feature, keys)
BY SameNeeds DEF Each

LEMMA DisablingFeatures ==
  ASSUME NEW c, NEW e, SameConfig(c, e), NEW features
  PROVE  FeatureWarnings(e, features) \subseteq FeatureWarnings(c, features)
<1> DEFINE odd(a) == {x \in Channels(a) \cup Mixers(a) : ~Or(x.set, "enabled", TRUE)}
           groups(a) ==
             Each(ToSet(a.devices), "auto_ppm", {"auto_ppm"})
               \cup Each(ToSet(a.devices), "auto_ppm_voting", {"auto_ppm_min_voters", "auto_ppm_deadband_hz"})
               \cup Each(ToSet(a.devices), "usb_chunk_sizing", {"buffer_size"})
               \cup Each(ToSet(a.devices), "reserve", {"reserve_channels"})
               \cup Each(Mixers(a), "reserve", {"reserve_inputs"})
               \cup Each(odd(a), "control_socket", {"enabled"})
           outputs(a) ==
             Each(OfType(Outputs(a), "file"), "post_write_script", {"post_write_script", "min_rx_seconds"})
               \cup Each(OfType(Outputs(a), "icecast"), "send_tx_tags", {"send_tx_tags"})
               \cup Each(OfType(Outputs(a), "udp_stream"), "fork", {"bit_depth"})
           others(a) ==
             Needs(a.set, "control_socket", {"control_socket_path"})
               \cup Needs(a.set, "stats_http", {"stats_http_address", "stats_http_port"})
               \cup Needs(a.set, "rdio_scanner", {"rdio_scanner_queue_depth"})
               \cup If(\E o \in OfType(Outputs(a), "file") : o.rdio # <<>>, <<"rdio_scanner", "rdio_scanner">>)
               \cup If(Inputs(a) # <<>>, <<"mixer_remote", "remote_inputs">>)
<1>1. \A a : NeededFeatures(a) = groups(a) \cup outputs(a) \cup others(a)
  <2> SUFFICES ASSUME NEW a PROVE NeededFeatures(a) = groups(a) \cup outputs(a) \cup others(a)
    OBVIOUS
  <2> QED BY Zenon DEF NeededFeatures
<1>2. /\ e.set = c.set /\ Inputs(e) = Inputs(c)
      /\ \A f \in ToSet(e.devices) : \E d \in ToSet(c.devices) : Same(d.set, f.set)
      /\ \A n \in Mixers(e) : \E m \in Mixers(c) : Same(m.set, n.set)
      /\ \A y \in Channels(e) : \E x \in Channels(c) : Same(x.set, y.set)
  BY SameParts DEF SameConfig, SameDevice, SameMixer, SameChannel
<1>3. \A ty : \A p \in OfType(Outputs(e), ty) : \E o \in OfType(Outputs(c), ty) :
        Same(o.set, p.set) /\ p.rdio = o.rdio
  BY SameOutputs DEF OfType, SameOutput
<1>4. \A y \in odd(e) : \E x \in odd(c) : Same(x.set, y.set)
  <2>1. \A g, h : Same(g, h) => \A v : Or(h, "enabled", v) = Or(g, "enabled", v)
    BY SameSettings
  <2>2. \A g, h : Same(g, h) => Or(h, "enabled", TRUE) = Or(g, "enabled", TRUE)
    BY <2>1, Zenon
  <2> QED BY <1>2, <2>2
<1> HIDE DEF odd
<1>5. groups(e) \subseteq groups(c)
  BY <1>2, <1>4, SameEach
<1>6. outputs(e) \subseteq outputs(c)
  BY <1>3, SameEach
<1>7. others(e) \subseteq others(c)
  BY <1>2, <1>3 DEF If
<1> HIDE DEF groups, outputs, others
<1> QED BY <1>1, <1>5, <1>6, <1>7 DEF FeatureWarnings

LEMMA DisablingFeatureErrors ==
  ASSUME NEW c, NEW e, SameConfig(c, e), Typed(c), NEW features
  PROVE  FeatureErrors(e, features) \subseteq FeatureErrors(c, features)
<1>1. \A p \in OfType(Outputs(e), "mixer_remote") : ~Off(p.set) =>
        \E o \in OfType(Outputs(c), "mixer_remote") : ~Off(o.set)
  BY SameOutputs, SameOutputSettings DEF OfType
<1>2. \A f \in InUse(e.devices) : \E d \in InUse(c.devices) : f.set["type"] = d.set["type"]
  <2> SUFFICES ASSUME NEW f \in InUse(e.devices)
               PROVE \E d \in InUse(c.devices) : f.set["type"] = d.set["type"]
    OBVIOUS
  <2>1. PICK d \in ToSet(c.devices) : SameDevice(d, f)
    BY SameParts DEF InUse
  <2> QED BY <2>1, SameSettings DEF InUse, Typed, SameDevice
<1> QED BY <1>1, <1>2 DEF FeatureErrors, If

LEMMA DisabledIsSame ==
  ASSUME NEW g
  PROVE  Same(g, Disabled(g))
BY DEF Same, Off, On, Or, Disabled

\* One element of a list replaced.
LEMMA Replaced ==
  ASSUME NEW s, IsList(s), NEW i \in DOMAIN s, NEW x
  PROVE  LET t == [s EXCEPT ![i] = x]
         IN  /\ DOMAIN t = DOMAIN s /\ Len(t) = Len(s)
             /\ t[i] = x /\ \A j \in DOMAIN s \ {i} : t[j] = s[j]
<1> DEFINE S == ToSet(s) \cup {x}
<1>1. s \in Seq(S) /\ x \in S
  BY DEF IsList
<1>2. DOMAIN s = 1..Len(s)
  BY <1>1, LenProperties
<1> QED BY <1>1, <1>2, ExceptSeq

LEMMA SameSelf ==
  /\ \A g : Same(g, g)
  /\ \A o : SameOutput(o, o)
  /\ \A x : SameChannel(x, x)
  /\ \A d : SameDevice(d, d)
  /\ \A m : SameMixer(m, m)
BY DEF Same, SameOutput, SameChannel, SameDevice, SameMixer

LEMMA DeviceReplaced ==
  ASSUME NEW c, Shaped(c), NEW i \in DOMAIN c.devices, NEW f, SameDevice(c.devices[i], f)
  PROVE  SameConfig(c, [c EXCEPT !.devices[i] = f])
<1> DEFINE e == [c EXCEPT !.devices[i] = f]
<1>1. e.set = c.set /\ e.mixers = c.mixers /\ e.devices = [c.devices EXCEPT ![i] = f]
  BY DEF Shaped
<1> HIDE DEF e
<1>2. DOMAIN e.devices = DOMAIN c.devices /\ e.devices[i] = f
      /\ \A j \in DOMAIN c.devices \ {i} : e.devices[j] = c.devices[j]
  BY <1>1, Replaced DEF Shaped
<1>3. SameConfig(c, e)
  BY <1>1, <1>2, SameSelf DEF SameConfig
<1> QED BY <1>3 DEF e

LEMMA ChannelReplaced ==
  ASSUME NEW c, Shaped(c), NEW i \in DOMAIN c.devices,
         NEW j \in DOMAIN c.devices[i].channels, NEW y, SameChannel(c.devices[i].channels[j], y)
  PROVE  SameConfig(c, [c EXCEPT !.devices[i].channels[j] = y])
<1> DEFINE d == c.devices[i]  f == [d EXCEPT !.channels[j] = y]
<1>0. d \in ToSet(c.devices)
  BY DEF ToSet
<1>1. f.set = d.set /\ f.channels = [d.channels EXCEPT ![j] = y]
  BY <1>0 DEF Shaped
<1>2. IsList(d.channels)
  BY <1>0 DEF Shaped
<1>3. [c EXCEPT !.devices[i].channels[j] = y] = [c EXCEPT !.devices[i] = f]
  BY DEF Shaped
<1> HIDE DEF d, f
<1>4. SameDevice(d, f)
  BY <1>1, <1>2, Replaced, SameSelf DEF SameDevice, d
<1> QED BY <1>3, <1>4, DeviceReplaced DEF d

LEMMA OutputReplaced ==
  ASSUME NEW c, Shaped(c), NEW i \in DOMAIN c.devices, NEW j \in DOMAIN c.devices[i].channels,
         NEW k \in DOMAIN c.devices[i].channels[j].outputs, NEW p,
         SameOutput(c.devices[i].channels[j].outputs[k], p)
  PROVE  SameConfig(c, [c EXCEPT !.devices[i].channels[j].outputs[k] = p])
<1> DEFINE x == c.devices[i].channels[j]  y == [x EXCEPT !.outputs[k] = p]
<1>1. c.devices[i] \in ToSet(c.devices) /\ x \in ToSet(c.devices[i].channels)
  BY DEF ToSet
<1>2. /\ x = [scan |-> x.scan, set |-> x.set, lists |-> x.lists, outputs |-> x.outputs]
      /\ IsList(x.outputs)
  BY <1>1 DEF Shaped
<1>3. [c EXCEPT !.devices[i].channels[j].outputs[k] = p] = [c EXCEPT !.devices[i].channels[j] = y]
  BY DEF Shaped
<1> HIDE DEF x
<1>4. y.scan = x.scan /\ y.lists = x.lists /\ y.set = x.set /\ y.outputs = [x.outputs EXCEPT ![k] = p]
  BY <1>2
<1> HIDE DEF y
<1>5. SameChannel(x, y)
  BY <1>2, <1>4, Replaced, SameSelf DEF SameChannel, x
<1> QED BY <1>3, <1>5, ChannelReplaced DEF x

LEMMA DisablingSame ==
  ASSUME NEW c, Shaped(c), NEW e \in Disabling(c)
  PROVE  SameConfig(c, e)
<1>1. ASSUME NEW i \in DOMAIN c.devices, e = [c EXCEPT !.devices[i].set = Disabled(@)]
      PROVE  SameConfig(c, e)
  <2> DEFINE d == c.devices[i]  f == [d EXCEPT !.set = Disabled(@)]
  <2>1. d = [set |-> d.set, channels |-> d.channels]
    BY DEF Shaped, ToSet
  <2>2. e = [c EXCEPT !.devices[i] = f]
    BY <1>1
  <2>3. SameDevice(d, f)
    <3>1. f.set = Disabled(d.set) /\ f.channels = d.channels
      BY <2>1
    <3> HIDE DEF d, f
    <3> QED BY <3>1, DisabledIsSame, SameSelf DEF SameDevice
  <2> QED BY <2>2, <2>3, DeviceReplaced
<1>2. ASSUME NEW i \in DOMAIN c.mixers, e = [c EXCEPT !.mixers[i].set = Disabled(@)]
      PROVE  SameConfig(c, e)
  <2> DEFINE m == c.mixers[i]  n == [m EXCEPT !.set = Disabled(@)]
  <2>1. m = [name |-> m.name, set |-> m.set, outputs |-> m.outputs, remote_inputs |-> m.remote_inputs]
    BY DEF Shaped, ToSet
  <2>2. e.set = c.set /\ e.devices = c.devices /\ e.mixers = [c.mixers EXCEPT ![i] = n]
    BY <1>2 DEF Shaped
  <2>3. SameMixer(m, n)
    <3>1. n.set = Disabled(m.set) /\ n.name = m.name /\ n.outputs = m.outputs
          /\ n.remote_inputs = m.remote_inputs
      BY <2>1
    <3> HIDE DEF m, n
    <3> QED BY <3>1, DisabledIsSame DEF SameMixer
  <2> HIDE DEF n
  <2>4. DOMAIN e.mixers = DOMAIN c.mixers /\ e.mixers[i] = n
        /\ \A j \in DOMAIN c.mixers \ {i} : e.mixers[j] = c.mixers[j]
    BY <2>2, Replaced DEF Shaped
  <2> QED BY <2>2, <2>3, <2>4, SameSelf DEF SameConfig
<1>3. ASSUME NEW i \in DOMAIN c.devices, NEW j \in DOMAIN c.devices[i].channels,
             e = [c EXCEPT !.devices[i].channels[j].set = Disabled(@)]
      PROVE  SameConfig(c, e)
  <2> DEFINE x == c.devices[i].channels[j]  y == [x EXCEPT !.set = Disabled(@)]
  <2>1. x = [scan |-> x.scan, set |-> x.set, lists |-> x.lists, outputs |-> x.outputs]
    BY DEF Shaped, ToSet
  <2>2. e = [c EXCEPT !.devices[i].channels[j] = y]
    BY <1>3
  <2>3. SameChannel(x, y)
    <3>1. y.set = Disabled(x.set) /\ y.scan = x.scan /\ y.lists = x.lists /\ y.outputs = x.outputs
      BY <2>1
    <3> HIDE DEF x, y
    <3> QED BY <3>1, DisabledIsSame, SameSelf DEF SameChannel
  <2> QED BY <2>2, <2>3, ChannelReplaced
<1>4. ASSUME NEW i \in DOMAIN c.devices, NEW j \in DOMAIN c.devices[i].channels,
             NEW k \in DOMAIN c.devices[i].channels[j].outputs,
             e = [c EXCEPT !.devices[i].channels[j].outputs[k].set = Disabled(@)]
      PROVE  SameConfig(c, e)
  <2> DEFINE o == c.devices[i].channels[j].outputs[k]  p == [o EXCEPT !.set = Disabled(@)]
  <2>1. o = [type |-> o.type, set |-> o.set, rdio |-> o.rdio]
    BY DEF Shaped, ToSet
  <2>2. e = [c EXCEPT !.devices[i].channels[j].outputs[k] = p]
    BY <1>4
  <2>3. SameOutput(o, p)
    <3>1. p.set = Disabled(o.set) /\ p.type = o.type /\ p.rdio = o.rdio
      BY <2>1
    <3> HIDE DEF o, p
    <3> QED BY <3>1, DisabledIsSame DEF SameOutput
  <2> QED BY <2>2, <2>3, OutputReplaced
<1> DEFINE device(i) == [c EXCEPT !.devices[i].set = Disabled(@)]
           mixer(i) == [c EXCEPT !.mixers[i].set = Disabled(@)]
           channel(i, j) == [c EXCEPT !.devices[i].channels[j].set = Disabled(@)]
           output(i, j, k) == [c EXCEPT !.devices[i].channels[j].outputs[k].set = Disabled(@)]
<1>5. Disabling(c) =
        {device(i) : i \in DOMAIN c.devices} \cup {mixer(i) : i \in DOMAIN c.mixers}
          \cup (UNION {{channel(i, j) : j \in DOMAIN c.devices[i].channels} : i \in DOMAIN c.devices})
          \cup (UNION {UNION {{output(i, j, k) : k \in DOMAIN c.devices[i].channels[j].outputs} :
                               j \in DOMAIN c.devices[i].channels} : i \in DOMAIN c.devices})
  BY Zenon DEF Disabling
<1> HIDE DEF device, mixer, channel, output
<1>6. \/ \E i \in DOMAIN c.devices : e = device(i)
      \/ \E i \in DOMAIN c.mixers : e = mixer(i)
      \/ \E i \in DOMAIN c.devices : \E j \in DOMAIN c.devices[i].channels : e = channel(i, j)
      \/ \E i \in DOMAIN c.devices : \E j \in DOMAIN c.devices[i].channels :
           \E k \in DOMAIN c.devices[i].channels[j].outputs : e = output(i, j, k)
  BY <1>5
<1> QED BY <1>1, <1>2, <1>3, <1>4, <1>6 DEF device, mixer, channel, output

\* Of the mixers, disabling adds none that is fed and none that is in use.
LEMMA NoneAdded ==
  ASSUME NEW c, NEW e, SameConfig(c, e), Typed(c)
  PROVE  Fed(e) \subseteq Fed(c) /\ MixersInUse(e) \subseteq MixersInUse(c)
<1>1. MixersInUse(e) \subseteq MixersInUse(c)
  <2>1. \A n \in InUse(e.mixers) : \E m \in InUse(c.mixers) : m.name = n.name
    BY SameParts, SameSettings DEF InUse, Mixers, SameMixer
  <2> QED BY <2>1 DEF MixersInUse
<1>2. ASSUME NEW p \in ActiveOutputs(e)
      PROVE  \E o \in ActiveOutputs(c) : SameOutput(o, p) /\ o \in ChannelOutputs(c)
  <2>0. PICK f \in InUse(e.devices) : \E y \in InUse(f.channels) : p \in InUse(y.outputs)
    BY DEF ActiveOutputs
  <2>1. PICK y \in InUse(f.channels) : p \in InUse(y.outputs)
    BY <2>0
  <2>2. PICK d \in InUse(c.devices) : SameDevice(d, f)
    BY SameParts, SameSettings DEF InUse, SameDevice
  <2>3. PICK x \in InUse(d.channels) : SameChannel(x, y)
    BY <2>1, <2>2, SameSettings DEF InUse, ToSet, SameDevice, SameChannel
  <2>4. PICK o \in InUse(x.outputs) : SameOutput(o, p)
    BY <2>1, <2>3, SameSettings DEF InUse, ToSet, SameChannel, SameOutput
  <2>5. o \in ActiveOutputs(c)
    BY <2>4 DEF ActiveOutputs
  <2>6. o \in ChannelOutputs(c)
    BY <2>4 DEF ChannelOutputs, Channels, InUse
  <2> QED BY <2>4, <2>5, <2>6
<1>3. Fed(e) \subseteq Fed(c)
  <2>1. \A o \in ChannelOutputs(c) : \A p : SameOutput(o, p) =>
          p.type = o.type /\ (o.type = "mixer" => p.set["name"] = o.set["name"])
    BY SameOutputSettings DEF Typed
  <2> QED BY <1>2, <2>1 DEF Fed, OfType
<1> QED BY <1>1, <1>3

\* Whatever of a config is disabled, the validator finds no new error but for too little
\* being left, and no feature that was not needed before; and rtl_airband has nothing new
\* not to start with, unless the validator is silent about a mixer (the two cases that
\* DisablingIsSafe names).
THEOREM DisablingBreaksNothing ==
  ASSUME Shaped(config), Typed(config)
  PROVE  DisablingIsSafe
<1> SUFFICES ASSUME NEW e \in Disabling(config)
             PROVE  /\ FeatureWarnings(e, build) \subseteq FeatureWarnings(config, build)
                    /\ Errors(e) \cup FeatureErrors(e, build) \subseteq
                         Errors(config) \cup FeatureErrors(config, build) \cup TooLittle
                    /\ ~DisablesFedMixer(config, e) /\ ~DisablesLastFeeder(config, e) =>
                         Unstartable(e) \subseteq Unstartable(config)
  BY DEF DisablingIsSafe, TooLittle
<1>1. SameConfig(config, e)
  BY DisablingSame
<1>2. ASSUME ~DisablesFedMixer(config, e), ~DisablesLastFeeder(config, e)
      PROVE  Unstartable(e) \subseteq Unstartable(config)
  BY <1>1, <1>2, NoneAdded DEF Unstartable, DisablesFedMixer, DisablesLastFeeder
<1> QED BY <1>1, <1>2, DisablingErrors, DisablingFeatures, DisablingFeatureErrors

-----------------------------------------------------------------------------
(* ConfText: the tables of the settings *)

HzForms == {"hz", "hz_list", "hz_or_list"}

TablesFit(kind) ==
  /\ KeysOf(kind) \subseteq WrittenKeys(kind)
  /\ Required[kind] \subseteq KeysOf(kind) \ {"remote_inputs"}
  /\ \A form \in DOMAIN Reads[kind] \cap HzForms :
       /\ Reads[kind][form] \cap Writes[kind]["float"] = {}
       /\ Reads[kind][form] \subseteq WholeKeys[kind] \ {"correction"}

LEMMA GlobalFits == TablesFit("global")
<1>1. Reads["global"] = GlobalReads /\ Writes["global"] = GlobalWrites
  BY DEF Reads, Writes
<1>2. KeysOf("global") \subseteq WrittenKeys("global")
  BY <1>1 DEF KeysOf, WrittenKeys, GlobalReads, GlobalWrites, SplitKeys
<1>3. Required["global"] \subseteq KeysOf("global") \ {"remote_inputs"}
  BY <1>1 DEF KeysOf, GlobalReads, Required
<1>4. DOMAIN GlobalReads \cap HzForms = {}
  BY DEF GlobalReads, HzForms
<1> QED BY <1>1, <1>2, <1>3, <1>4 DEF TablesFit

LEMMA DeviceFits == TablesFit("device")
<1>1. Reads["device"] = DeviceReads /\ Writes["device"] = DeviceWrites
  BY DEF Reads, Writes
<1>2. KeysOf("device") \subseteq WrittenKeys("device")
  BY <1>1 DEF KeysOf, WrittenKeys, DeviceReads, DeviceWrites
<1>3. Required["device"] \subseteq KeysOf("device") \ {"remote_inputs"}
  BY <1>1 DEF KeysOf, DeviceReads, Required
<1>4. DOMAIN DeviceReads \cap HzForms = {"hz"}
  BY DEF DeviceReads, HzForms
<1>5. \A form \in {"hz"} : DeviceReads[form] \subseteq WholeKeys["device"] \ {"correction"}
  BY DEF DeviceReads, WholeKeys
<1>6. \A form \in {"hz"} : DeviceReads[form] \cap DeviceWrites["float"] = {}
  BY DEF DeviceReads, DeviceWrites
<1> QED BY <1>1, <1>2, <1>3, <1>4, <1>5, <1>6 DEF TablesFit

LEMMA MultichannelFits == TablesFit("multichannel")
<1>1. Reads["multichannel"] = MultichannelReads /\ Writes["multichannel"] = MultichannelWrites
  BY DEF Reads, Writes
<1>2. KeysOf("multichannel") \subseteq WrittenKeys("multichannel")
  BY <1>1 DEF KeysOf, WrittenKeys, MultichannelReads, MultichannelWrites
<1>3. Required["multichannel"] \subseteq KeysOf("multichannel") \ {"remote_inputs"}
  BY <1>1 DEF KeysOf, MultichannelReads, Required
<1>4. DOMAIN MultichannelReads \cap HzForms = {"hz"}
  BY DEF MultichannelReads, HzForms
<1>5. \A form \in {"hz"} : MultichannelReads[form] \subseteq WholeKeys["multichannel"] \ {"correction"}
  BY DEF MultichannelReads, WholeKeys
<1>6. \A form \in {"hz"} : MultichannelReads[form] \cap MultichannelWrites["float"] = {}
  BY DEF MultichannelReads, MultichannelWrites
<1> QED BY <1>1, <1>2, <1>3, <1>4, <1>5, <1>6 DEF TablesFit

LEMMA ScanFits == TablesFit("scan")
<1>1. Reads["scan"] = ScanReads /\ Writes["scan"] = ScanWrites
  BY DEF Reads, Writes
<1>2. KeysOf("scan") \subseteq WrittenKeys("scan")
  BY <1>1 DEF KeysOf, WrittenKeys, ScanReads, ScanWrites
<1>3. Required["scan"] \subseteq KeysOf("scan") \ {"remote_inputs"}
  BY <1>1 DEF KeysOf, ScanReads, Required
<1>4. DOMAIN ScanReads \cap HzForms = {"hz_list", "hz_or_list"}
  BY DEF ScanReads, HzForms
<1>5. \A form \in {"hz_list", "hz_or_list"} : ScanReads[form] \subseteq WholeKeys["scan"] \ {"correction"}
  BY DEF ScanReads, WholeKeys
<1>6. \A form \in {"hz_list", "hz_or_list"} : ScanReads[form] \cap ScanWrites["float"] = {}
  BY DEF ScanReads, ScanWrites
<1> QED BY <1>1, <1>2, <1>3, <1>4, <1>5, <1>6 DEF TablesFit

LEMMA MixerFits == TablesFit("mixer_group")
<1>1. Reads["mixer_group"] = MixerReads /\ Writes["mixer_group"] = MixerWrites
  BY DEF Reads, Writes
<1>2. KeysOf("mixer_group") \subseteq WrittenKeys("mixer_group")
  BY <1>1 DEF KeysOf, WrittenKeys, MixerReads, MixerWrites
<1>3. Required["mixer_group"] \subseteq KeysOf("mixer_group") \ {"remote_inputs"}
  BY <1>1 DEF KeysOf, MixerReads, Required
<1>4. DOMAIN MixerReads \cap HzForms = {}
  BY DEF MixerReads, HzForms
<1> QED BY <1>1, <1>2, <1>3, <1>4 DEF TablesFit

LEMMA RemoteInputFits == TablesFit("remote_input")
<1>1. Reads["remote_input"] = RemoteInputReads /\ Writes["remote_input"] = RemoteInputWrites
  BY DEF Reads, Writes
<1>2. KeysOf("remote_input") \subseteq WrittenKeys("remote_input")
  BY <1>1 DEF KeysOf, WrittenKeys, RemoteInputReads, RemoteInputWrites
<1>3. Required["remote_input"] \subseteq KeysOf("remote_input") \ {"remote_inputs"}
  BY <1>1 DEF KeysOf, RemoteInputReads, Required
<1>4. DOMAIN RemoteInputReads \cap HzForms = {}
  BY DEF RemoteInputReads, HzForms
<1> QED BY <1>1, <1>2, <1>3, <1>4 DEF TablesFit

LEMMA RdioFits == TablesFit("rdio")
<1>1. Reads["rdio"] = RdioReads /\ Writes["rdio"] = RdioWrites
  BY DEF Reads, Writes
<1>2. KeysOf("rdio") \subseteq WrittenKeys("rdio")
  BY <1>1 DEF KeysOf, WrittenKeys, RdioReads, RdioWrites
<1>3. Required["rdio"] \subseteq KeysOf("rdio") \ {"remote_inputs"}
  BY <1>1 DEF KeysOf, RdioReads, Required
<1>4. DOMAIN RdioReads \cap HzForms = {}
  BY DEF RdioReads, HzForms
<1> QED BY <1>1, <1>2, <1>3, <1>4 DEF TablesFit

LEMMA PulseFits == TablesFit("pulse")
<1>1. Reads["pulse"] = PulseReads /\ Writes["pulse"] = PulseWrites
  BY DEF Reads, Writes
<1>2. KeysOf("pulse") \subseteq WrittenKeys("pulse")
  BY <1>1 DEF KeysOf, WrittenKeys, PulseReads, PulseWrites
<1>3. Required["pulse"] \subseteq KeysOf("pulse") \ {"remote_inputs"}
  BY <1>1 DEF KeysOf, PulseReads, Required
<1>4. DOMAIN PulseReads \cap HzForms = {}
  BY DEF PulseReads, HzForms
<1> QED BY <1>1, <1>2, <1>3, <1>4 DEF TablesFit

LEMMA FileFits == TablesFit("file")
<1>1. Reads["file"] = FileReads /\ Writes["file"] = FileWrites
  BY DEF Reads, Writes
<1>2. KeysOf("file") \subseteq WrittenKeys("file")
  BY <1>1 DEF KeysOf, WrittenKeys, FileReads, FileWrites, SplitKeys, FileNames, FileFlags
<1>3. Required["file"] \subseteq KeysOf("file") \ {"remote_inputs"}
  BY <1>1 DEF KeysOf, FileReads, Required, FileNames
<1>4. DOMAIN FileReads \cap HzForms = {}
  BY DEF FileReads, HzForms
<1> QED BY <1>1, <1>2, <1>3, <1>4 DEF TablesFit

LEMMA RawFileFits == TablesFit("rawfile")
<1>1. Reads["rawfile"] = RawFileReads /\ Writes["rawfile"] = RawFileWrites
  BY DEF Reads, Writes
<1>2. KeysOf("rawfile") \subseteq WrittenKeys("rawfile")
  BY <1>1 DEF KeysOf, WrittenKeys, RawFileReads, RawFileWrites, SplitKeys, FileNames, FileFlags
<1>3. Required["rawfile"] \subseteq KeysOf("rawfile") \ {"remote_inputs"}
  BY <1>1 DEF KeysOf, RawFileReads, Required, FileNames
<1>4. DOMAIN RawFileReads \cap HzForms = {}
  BY DEF RawFileReads, HzForms
<1> QED BY <1>1, <1>2, <1>3, <1>4 DEF TablesFit

LEMMA IcecastFits == TablesFit("icecast")
<1>1. Reads["icecast"] = IcecastReads /\ Writes["icecast"] = IcecastWrites
  BY DEF Reads, Writes
<1>2. KeysOf("icecast") \subseteq WrittenKeys("icecast")
  BY <1>1 DEF KeysOf, WrittenKeys, IcecastReads, IcecastWrites
<1>3. Required["icecast"] \subseteq KeysOf("icecast") \ {"remote_inputs"}
  BY <1>1 DEF KeysOf, IcecastReads, Required
<1>4. DOMAIN IcecastReads \cap HzForms = {}
  BY DEF IcecastReads, HzForms
<1> QED BY <1>1, <1>2, <1>3, <1>4 DEF TablesFit

LEMMA UdpStreamFits == TablesFit("udp_stream")
<1>1. Reads["udp_stream"] = UdpStreamReads /\ Writes["udp_stream"] = UdpStreamWrites
  BY DEF Reads, Writes
<1>2. KeysOf("udp_stream") \subseteq WrittenKeys("udp_stream")
  BY <1>1 DEF KeysOf, WrittenKeys, UdpStreamReads, UdpStreamWrites
<1>3. Required["udp_stream"] \subseteq KeysOf("udp_stream") \ {"remote_inputs"}
  BY <1>1 DEF KeysOf, UdpStreamReads, Required
<1>4. DOMAIN UdpStreamReads \cap HzForms = {}
  BY DEF UdpStreamReads, HzForms
<1> QED BY <1>1, <1>2, <1>3, <1>4 DEF TablesFit

LEMMA MixerOutputFits == TablesFit("mixer")
<1>1. Reads["mixer"] = MixerOutputReads /\ Writes["mixer"] = MixerOutputWrites
  BY DEF Reads, Writes
<1>2. KeysOf("mixer") \subseteq WrittenKeys("mixer")
  BY <1>1 DEF KeysOf, WrittenKeys, MixerOutputReads, MixerOutputWrites
<1>3. Required["mixer"] \subseteq KeysOf("mixer") \ {"remote_inputs"}
  BY <1>1 DEF KeysOf, MixerOutputReads, Required
<1>4. DOMAIN MixerOutputReads \cap HzForms = {}
  BY DEF MixerOutputReads, HzForms
<1> QED BY <1>1, <1>2, <1>3, <1>4 DEF TablesFit

LEMMA MixerRemoteFits == TablesFit("mixer_remote")
<1>1. Reads["mixer_remote"] = MixerRemoteReads /\ Writes["mixer_remote"] = MixerRemoteWrites
  BY DEF Reads, Writes
<1>2. KeysOf("mixer_remote") \subseteq WrittenKeys("mixer_remote")
  BY <1>1 DEF KeysOf, WrittenKeys, MixerRemoteReads, MixerRemoteWrites
<1>3. Required["mixer_remote"] \subseteq KeysOf("mixer_remote") \ {"remote_inputs"}
  BY <1>1 DEF KeysOf, MixerRemoteReads, Required
<1>4. DOMAIN MixerRemoteReads \cap HzForms = {}
  BY DEF MixerRemoteReads, HzForms
<1> QED BY <1>1, <1>2, <1>3, <1>4 DEF TablesFit

\* Only a file output has an upload, and it need not.
LEMMA UploadIsOptional ==
  ASSUME NEW kind \in Kinds, "upload" \in DOMAIN Reads[kind]
  PROVE  Reads[kind]["upload"] \cap Required[kind] = {}
<1>1. Kinds = {"global", "device", "multichannel", "scan", "mixer_group", "remote_input", "rdio",
               "pulse", "file", "rawfile", "icecast", "udp_stream", "mixer", "mixer_remote"}
  BY DEF Kinds, Reads
<1>2. /\ "upload" \notin DOMAIN GlobalReads /\ "upload" \notin DOMAIN DeviceReads
      /\ "upload" \notin DOMAIN MultichannelReads /\ "upload" \notin DOMAIN ScanReads
      /\ "upload" \notin DOMAIN MixerReads /\ "upload" \notin DOMAIN RemoteInputReads
      /\ "upload" \notin DOMAIN RdioReads /\ "upload" \notin DOMAIN PulseReads
      /\ "upload" \notin DOMAIN RawFileReads /\ "upload" \notin DOMAIN IcecastReads
      /\ "upload" \notin DOMAIN UdpStreamReads /\ "upload" \notin DOMAIN MixerOutputReads
      /\ "upload" \notin DOMAIN MixerRemoteReads
  BY DEF GlobalReads, DeviceReads, MultichannelReads, ScanReads, MixerReads, RemoteInputReads, RdioReads,
         PulseReads, RawFileReads, IcecastReads, UdpStreamReads, MixerOutputReads, MixerRemoteReads
<1>3. kind = "file"
  BY <1>1, <1>2 DEF Reads
<1>4. Reads["file"]["upload"] = {"rdio_scanner"} /\ Required["file"] = FileNames
  BY DEF Reads, FileReads, Required
<1> QED BY <1>3, <1>4 DEF FileNames

LEMMA TablesAllFit == \A kind \in Kinds : TablesFit(kind)
<1>1. Kinds = {"global", "device", "multichannel", "scan", "mixer_group", "remote_input", "rdio",
               "pulse", "file", "rawfile", "icecast", "udp_stream", "mixer", "mixer_remote"}
  BY DEF Kinds, Reads
<1> QED BY <1>1, GlobalFits, DeviceFits, MultichannelFits, ScanFits, MixerFits, RemoteInputFits, RdioFits,
           PulseFits, FileFits, RawFileFits, IcecastFits, UdpStreamFits, MixerOutputFits, MixerRemoteFits
-----------------------------------------------------------------------------
(* One value: what is read can be sent, and is read back from its text *)

WholeValue(x) == IF x.ty = "list" THEN \A i \in DOMAIN x.items : Whole(x.items[i].v) ELSE Whole(x.v)

LEMMA ScalarIsSent ==
  ASSUME NEW form, NEW l, IsLiteralScalar(l), ReadScalar(form, l) # NotRead
  PROVE  /\ IsSentScalar(form, ReadScalar(form, l)) /\ ReadScalar(form, l).ty \notin {"list", "disabled"}
         /\ form = "hz" => Whole(ReadScalar(form, l).v)
<1>1. CASE form = "hz"
  <2>1. IsNumber(l) /\ ReadScalar(form, l) = ToHz(l)
    BY <1>1 DEF ReadScalar
  <2>2. l.ty = "float" => (l.v * 1000000) % 10 = 0 /\ l.v * 1000000 \in Int
    BY DEF IsLiteralScalar
  <2> QED BY <1>1, <2>1, <2>2 DEF IsLiteralScalar, IsSentScalar, ToHz, Num, Scalar, Whole, IsNumber
<1>2. CASE form # "hz"
  BY <1>2 DEF ReadScalar, IsLiteralScalar, IsSentScalar, Num, Scalar, IsNumber
<1> QED BY <1>1, <1>2

LEMMA ScalarReadBack ==
  ASSUME NEW form, NEW writer, NEW x, IsSentScalar(form, x), x.ty # "disabled",
         form = "hz" => writer # "float" /\ Whole(x.v)
  PROVE  ReadScalar(form, ScalarText(writer, x)) = x /\ ScalarText(writer, x).ty # "list"
<1> DEFINE l == ScalarText(writer, x)
<1>1. CASE x.ty = "number"
  <2>1. l.v = x.v /\ l.ty \in {"float", "int"} /\ IsNumber(l)
    BY <1>1 DEF ScalarText, NumberText, Scalar, IsNumber
  <2>2. x = Num(l.v)
    BY <1>1, <2>1 DEF IsSentScalar, Num, Scalar
  <2>3. form \in {"hz", "number", "number_or_string", "bit_depth"}
        /\ (form = "bit_depth" => l.v \in {80, 160, 320})
    BY <1>1, <2>1 DEF IsSentScalar
  <2>4. form = "hz" => l.ty = "int"
    BY <1>1 DEF ScalarText, NumberText, Scalar
  <2> HIDE DEF l
  <2> QED BY <2>1, <2>2, <2>3, <2>4 DEF ReadScalar, ToHz, l
<1>2. CASE x.ty # "number"
  <2>1. l = x
    BY <1>2 DEF ScalarText
  <2> HIDE DEF l
  <2>2. ReadScalar(form, x) = x /\ x.ty # "list"
    BY <1>2 DEF IsSentScalar, ReadScalar, IsNumber
  <2> QED BY <2>1, <2>2 DEF l
<1> QED BY <1>1, <1>2

LEMMA IsSequenceOf ==
  ASSUME NEW T, NEW s \in Seq(T)
  PROVE  IsSequence(s)
<1>1. Len(s) \in Nat /\ DOMAIN s = 1..Len(s) /\ s = [i \in 1..Len(s) |-> s[i]]
  OBVIOUS
<1> DEFINE S == {s[i] : i \in DOMAIN s}
<1>2. \A i \in 1..Len(s) : s[i] \in S
  BY <1>1
<1> HIDE DEF S
<1>3. [i \in 1..Len(s) |-> s[i]] \in Seq(S)
  BY <1>1, <1>2, IsASeq
<1> QED BY <1>1, <1>3 DEF IsSequence, S

LEMMA SequenceIsFunction ==
  ASSUME NEW s, IsSequence(s)
  PROVE  s = [i \in DOMAIN s |-> s[i]] /\ Len(s) \in Nat /\ DOMAIN s = 1..Len(s)
BY DEF IsSequence


LEMMA ValueIsSent ==
  ASSUME NEW form, NEW s, IsSetting(s), ReadAs(form, s.value) # NotRead
  PROVE  /\ IsSent(form, ReadAs(form, s.value)) /\ ReadAs(form, s.value).ty # "disabled"
         /\ form \in HzForms => WholeValue(ReadAs(form, s.value))
<1> DEFINE l == s.value  f == ItemForm(form)
<1>1. form \in HzForms => f = "hz"
  BY DEF HzForms, ItemForm
<1>2. CASE l.ty # "list"
  <2>1. form \notin ListOnly /\ ReadAs(form, l) = ReadScalar(f, l)
    BY <1>2 DEF ReadAs
  <2>2. IsLiteralScalar(l)
    BY <1>2 DEF IsSetting
  <2> QED BY <1>1, <2>1, <2>2, ScalarIsSent DEF IsSent, WholeValue
<1>3. CASE l.ty = "list"
  <2> DEFINE R(i) == ReadScalar(f, l.items[i])  x == List([i \in DOMAIN l.items |-> R(i)])
  <2>1. /\ form \in ListForms /\ \A i \in DOMAIN l.items : R(i) # NotRead
        /\ ReadAs(form, l) = x
    BY <1>3 DEF ReadAs
  <2>2. IsSequence(l.items) /\ \A i \in DOMAIN l.items : IsLiteralScalar(l.items[i])
    BY <1>3 DEF IsSetting
  <2>3. \A i \in DOMAIN l.items : IsSentScalar(f, R(i)) /\ (f = "hz" => Whole(R(i).v))
    BY <2>1, <2>2, ScalarIsSent
  <2>4. Len(l.items) \in Nat /\ DOMAIN l.items = 1..Len(l.items)
    BY <2>2, SequenceIsFunction
  <2> HIDE DEF R
  <2>5. IsSequence(x.items) /\ DOMAIN x.items = DOMAIN l.items
        /\ \A i \in DOMAIN l.items : x.items[i] = R(i)
    BY <2>4, IsASeq DEF IsSequence, List
  <2>6. x.ty = "list" /\ x = List(x.items)
    BY DEF List
  <2> HIDE DEF x
  <2> QED BY <1>1, <2>1, <2>3, <2>5, <2>6 DEF IsSent, WholeValue
<1> QED BY <1>2, <1>3

LEMMA ValueReadBack ==
  ASSUME NEW form, NEW writer, NEW x, IsSent(form, x), x.ty # "disabled",
         form \in HzForms => writer # "float" /\ WholeValue(x)
  PROVE  ReadAs(form, Text(writer, x)) = x
<1> DEFINE f == ItemForm(form)
<1>1. f = "hz" <=> form \in HzForms
  BY DEF HzForms, ItemForm
<1>2. CASE x.ty # "list"
  <2>1. Text(writer, x) = ScalarText(writer, x)
    BY <1>2 DEF Text
  <2>2. form \notin ListOnly /\ IsSentScalar(f, x)
    BY <1>2 DEF IsSent
  <2>3. f = "hz" => writer # "float" /\ Whole(x.v)
    BY <1>1, <1>2 DEF WholeValue
  <2> HIDE DEF f
  <2>4. ReadScalar(f, ScalarText(writer, x)) = x /\ ScalarText(writer, x).ty # "list"
    BY <2>2, <2>3, ScalarReadBack
  <2> QED BY <2>1, <2>2, <2>4 DEF ReadAs, f
<1>3. CASE x.ty = "list"
  <2> DEFINE T(i) == ScalarText(writer, x.items[i])  l == List([i \in DOMAIN x.items |-> T(i)])
  <2>1. Text(writer, x) = l
    BY <1>3 DEF Text
  <2>2. /\ form \in ListForms /\ x = List(x.items) /\ IsSequence(x.items)
        /\ \A i \in DOMAIN x.items : IsSentScalar(f, x.items[i])
    BY <1>3 DEF IsSent
  <2>3. \A i \in DOMAIN x.items : /\ f = "hz" => writer # "float" /\ Whole(x.items[i].v)
                                  /\ x.items[i].ty # "disabled"
    <3>1. f # "upload"
      BY <2>2 DEF ListForms, ListOnly, ItemForm
    <3> QED BY <1>1, <1>3, <2>2, <3>1 DEF WholeValue, IsSentScalar
  <2> HIDE DEF f
  <2>4. \A i \in DOMAIN x.items : ReadScalar(f, T(i)) = x.items[i]
    BY <2>2, <2>3, ScalarReadBack
  <2>5. \A i \in DOMAIN x.items : ReadScalar(f, T(i)) # NotRead
    <3>1. \A i \in DOMAIN x.items : x.items[i] # NotRead
      <4>1. \A i \in DOMAIN x.items : x.items[i].ty # NotRead.ty
        BY <2>2 DEF IsSentScalar, NotRead
      <4> QED BY <4>1
    <3> QED BY <2>4, <3>1
  <2> HIDE DEF T
  <2>6. l.ty = "list" /\ DOMAIN l.items = DOMAIN x.items
        /\ \A i \in DOMAIN x.items : l.items[i] = T(i)
    BY DEF List
  <2> HIDE DEF l
  <2>7. ReadAs(form, l) = List([i \in DOMAIN l.items |-> ReadScalar(f, l.items[i])])
    BY <2>2, <2>5, <2>6 DEF ReadAs, f
  <2>8. [i \in DOMAIN l.items |-> ReadScalar(f, l.items[i])] = [i \in DOMAIN x.items |-> x.items[i]]
    BY <2>4, <2>6
  <2>9. x.items = [i \in DOMAIN x.items |-> x.items[i]]
    BY <2>2, SequenceIsFunction
  <2> QED BY <2>1, <2>2, <2>7, <2>8, <2>9
<1> QED BY <1>2, <1>3

-----------------------------------------------------------------------------
(* Finding the settings of a text *)

LEMMA FirstIs ==
  ASSUME NEW t, IsSequence(t), NEW k, NEW i \in DOMAIN t, t[i].key = k,
         \A j \in 1..(i - 1) : t[j].key # k
  PROVE  First(t, k) = i
<1>1. Len(t) \in Nat /\ DOMAIN t = 1..Len(t)
  BY SequenceIsFunction
<1>2. \A j \in DOMAIN t : (t[j].key = k /\ \A h \in 1..(j - 1) : t[h].key # k) => j = i
  <2> TAKE j \in DOMAIN t
  <2> HAVE t[j].key = k /\ \A h \in 1..(j - 1) : t[h].key # k
  <2>1. j \notin 1..(i - 1) /\ i \notin 1..(j - 1)
    OBVIOUS
  <2>2. i \in Int /\ j \in Int /\ 1 <= i /\ 1 <= j
    BY <1>1
  <2> QED BY <2>1, <2>2
<1> QED BY <1>2 DEF First

\* Of a name that occurs there is a first.
LEMMA FirstOccurs ==
  ASSUME NEW t, IsSequence(t), NEW k, Occurs(t, k)
  PROVE  First(t, k) \in DOMAIN t /\ t[First(t, k)].key = k
<1> DEFINE at == {i \in DOMAIN t : t[i].key = k}
<1>1. Len(t) \in Nat /\ DOMAIN t = 1..Len(t)
  BY SequenceIsFunction
<1>2. at \in SUBSET Nat /\ at # {}
  BY <1>1 DEF Occurs
<1>3. PICK i \in at : \A j \in at : i <= j
  BY <1>2, Smallest
<1>4. \A j \in 1..(i - 1) : t[j].key # k
  <2>1. \A j \in 1..(i - 1) : j \in DOMAIN t /\ ~(i <= j)
    BY <1>1
  <2> QED BY <1>3, <2>1
<1>5. First(t, k) = i
  BY <1>3, <1>4, FirstIs
<1> QED BY <1>3, <1>5

(***************************************************************************)
(* What is found in a text of three parts: settings of different names that *)
(* are not nested lists, ones that are not known or a second one of the     *)
(* first part, and nested lists.                                            *)
(***************************************************************************)
Distinct(s) == \A i, j \in DOMAIN s : s[i].key = s[j].key => i = j
KeysIn(s) == {s[i].key : i \in DOMAIN s}

ThreeParts(keys, A, U, B) ==
  /\ IsSequence(A) /\ IsSequence(U) /\ IsSequence(B)
  /\ Distinct(A) /\ Distinct(B)
  /\ KeysIn(A) \cap KeysIn(B) = {} /\ KeysIn(U) \cap KeysIn(B) = {}
  /\ KeysIn(A) \cup KeysIn(B) \subseteq keys /\ KeysIn(U) \cap keys \subseteq KeysIn(A)

Join(A, U, B, t) ==
  /\ IsSequence(t) /\ DOMAIN t = 1..(Len(A) + Len(U) + Len(B))
  /\ \A i \in DOMAIN A : t[i] = A[i]
  /\ \A i \in DOMAIN U : t[Len(A) + i] = U[i]
  /\ \A i \in DOMAIN B : t[Len(A) + Len(U) + i] = B[i]

LEMMA Joined ==
  ASSUME NEW A, NEW U, NEW B, IsSequence(A), IsSequence(U), IsSequence(B)
  PROVE  Join(A, U, B, A \o U \o B)
<1> DEFINE T == {A[i] : i \in DOMAIN A} \cup {U[i] : i \in DOMAIN U} \cup {B[i] : i \in DOMAIN B}
<1>1. A \in Seq(T) /\ U \in Seq(T) /\ B \in Seq(T)
  <2>1. /\ Len(A) \in Nat /\ DOMAIN A = 1..Len(A) /\ A = [i \in DOMAIN A |-> A[i]]
        /\ Len(U) \in Nat /\ DOMAIN U = 1..Len(U) /\ U = [i \in DOMAIN U |-> U[i]]
        /\ Len(B) \in Nat /\ DOMAIN B = 1..Len(B) /\ B = [i \in DOMAIN B |-> B[i]]
    BY SequenceIsFunction
  <2>2. /\ \A i \in DOMAIN A : A[i] \in T
        /\ \A i \in DOMAIN U : U[i] \in T
        /\ \A i \in DOMAIN B : B[i] \in T
    OBVIOUS
  <2> HIDE DEF T
  <2>3. A \in Seq(T)
    BY <2>1, <2>2
  <2>4. U \in Seq(T)
    BY <2>1, <2>2
  <2>5. B \in Seq(T)
    BY <2>1, <2>2
  <2> QED BY <2>3, <2>4, <2>5
<1> HIDE DEF T
<1> DEFINE AU == A \o U
<1>2. /\ AU \in Seq(T) /\ Len(AU) = Len(A) + Len(U)
      /\ \A i \in 1..Len(A) : AU[i] = A[i]
      /\ \A i \in 1..Len(U) : AU[Len(A) + i] = U[i]
  BY <1>1
<1> HIDE DEF AU
<1> DEFINE t == AU \o B
<1>3. /\ t \in Seq(T) /\ Len(t) = Len(AU) + Len(B)
      /\ \A i \in 1..Len(AU) : t[i] = AU[i]
      /\ \A i \in 1..Len(B) : t[Len(AU) + i] = B[i]
  <2>1. AU \in Seq(T) /\ B \in Seq(T)
    BY <1>1, <1>2
  <2> QED BY <2>1
<1> HIDE DEF t
<1>4. IsSequence(t)
  BY <1>3, IsSequenceOf
<1>5. /\ DOMAIN A = 1..Len(A) /\ DOMAIN U = 1..Len(U) /\ DOMAIN B = 1..Len(B)
      /\ Len(A) \in Nat /\ Len(U) \in Nat /\ Len(B) \in Nat
  BY <1>1
<1>6. DOMAIN t = 1..(Len(A) + Len(U) + Len(B))
  BY <1>2, <1>3
<1>7. \A i \in DOMAIN A : t[i] = A[i]
  <2>1. \A i \in DOMAIN A : i \in 1..Len(AU)
    BY <1>2, <1>5
  <2> QED BY <1>2, <1>3, <1>5, <2>1
<1>8. \A i \in DOMAIN U : t[Len(A) + i] = U[i]
  <2>1. \A i \in DOMAIN U : Len(A) + i \in 1..Len(AU)
    BY <1>2, <1>5
  <2> QED BY <1>2, <1>3, <1>5, <2>1
<1>9. \A i \in DOMAIN B : t[Len(A) + Len(U) + i] = B[i]
  BY <1>2, <1>3, <1>5
<1>10. Join(A, U, B, t)
  BY <1>4, <1>6, <1>7, <1>8, <1>9 DEF Join
<1> QED BY <1>10 DEF t, AU

FoundIn(keys, A, U, B, t) ==
  /\ {k \in keys : Occurs(t, k)} = KeysIn(A) \cup KeysIn(B)
  /\ \A i \in DOMAIN A : First(t, A[i].key) = i
  /\ \A i \in DOMAIN B : First(t, B[i].key) = Len(A) + Len(U) + i
  /\ ItemsAt(t, DOMAIN t \ {First(t, k) : k \in KeysIn(A) \cup KeysIn(B)}) = U

LEMMA FoundInThree ==
  ASSUME NEW keys, NEW A, NEW U, NEW B, ThreeParts(keys, A, U, B)
  PROVE  FoundIn(keys, A, U, B, A \o U \o B)
<1> DEFINE t == A \o U \o B  found == KeysIn(A) \cup KeysIn(B)
           a == Len(A)  u == Len(U)  b == Len(B)
<1>1. /\ IsSequence(t) /\ DOMAIN t = 1..(a + u + b)
      /\ \A i \in DOMAIN A : t[i] = A[i]
      /\ \A i \in DOMAIN U : t[a + i] = U[i]
      /\ \A i \in DOMAIN B : t[a + u + i] = B[i]
  <2>1. IsSequence(A) /\ IsSequence(U) /\ IsSequence(B)
    BY DEF ThreeParts
  <2>2. Join(A, U, B, A \o U \o B)
    BY <2>1, Joined
  <2>3. Join(A, U, B, t)
    BY <2>2
  <2> HIDE DEF t
  <2> QED BY <2>3 DEF Join
<1>2. /\ a \in Nat /\ DOMAIN A = 1..a /\ u \in Nat /\ DOMAIN U = 1..u /\ b \in Nat /\ DOMAIN B = 1..b
      /\ U = [i \in 1..u |-> U[i]]
  BY SequenceIsFunction DEF ThreeParts
<1> HIDE DEF t, a, u, b
<1>3. \A i \in DOMAIN t : \/ i \in 1..a
                          \/ \E j \in 1..u : i = a + j
                          \/ \E j \in 1..b : i = a + u + j
  <2> TAKE i \in DOMAIN t
  <2>1. CASE i <= a
    BY <1>1, <1>2, <2>1
  <2>2. CASE a < i /\ i <= a + u
    <3>1. i - a \in 1..u /\ i = a + (i - a)
      BY <1>1, <1>2, <2>2
    <3> QED BY <3>1
  <2>3. CASE a + u < i
    <3>1. i - (a + u) \in 1..b /\ i = a + u + (i - (a + u))
      BY <1>1, <1>2, <2>3
    <3> QED BY <3>1
  <2> QED BY <1>1, <1>2, <2>1, <2>2, <2>3
<1>4. {k \in keys : Occurs(t, k)} = found
  <2>1. ASSUME NEW k \in keys, Occurs(t, k) PROVE k \in found
    <3>1. PICK i \in DOMAIN t : t[i].key = k
      BY <2>1 DEF Occurs
    <3>2. CASE i \in 1..a
      BY <1>1, <1>2, <3>1, <3>2 DEF KeysIn
    <3>3. CASE \E j \in 1..u : i = a + j
      <4>1. k \in KeysIn(U)
        BY <1>1, <1>2, <3>1, <3>3 DEF KeysIn
      <4> QED BY <2>1, <4>1 DEF ThreeParts
    <3>4. CASE \E j \in 1..b : i = a + u + j
      BY <1>1, <1>2, <3>1, <3>4 DEF KeysIn
    <3> QED BY <1>3, <3>2, <3>3, <3>4
  <2>2. ASSUME NEW k \in found PROVE k \in keys /\ Occurs(t, k)
    <3>1. k \in keys
      BY <2>2 DEF ThreeParts
    <3>2. CASE k \in KeysIn(A)
      <4>1. PICK i \in DOMAIN A : A[i].key = k
        BY <3>2 DEF KeysIn
      <4>2. i \in DOMAIN t
        BY <1>1, <1>2
      <4> QED BY <1>1, <3>1, <4>1, <4>2 DEF Occurs
    <3>3. CASE k \in KeysIn(B)
      <4>1. PICK i \in DOMAIN B : B[i].key = k
        BY <3>3 DEF KeysIn
      <4>2. a + u + i \in DOMAIN t
        BY <1>1, <1>2
      <4> QED BY <1>1, <3>1, <4>1, <4>2 DEF Occurs
    <3> QED BY <2>2, <3>2, <3>3
  <2> QED BY <2>1, <2>2
<1>5. ASSUME NEW i \in DOMAIN A PROVE First(t, A[i].key) = i
  <2>1. i \in DOMAIN t /\ t[i].key = A[i].key
    BY <1>1, <1>2
  <2>2. \A j \in 1..(i - 1) : t[j].key # A[i].key
    <3> TAKE j \in 1..(i - 1)
    <3>1. j \in DOMAIN A /\ j # i
      BY <1>2
    <3>2. A[j].key # A[i].key
      BY <3>1 DEF ThreeParts, Distinct
    <3> QED BY <1>1, <3>1, <3>2
  <2> QED BY <1>1, <2>1, <2>2, FirstIs
<1>6. ASSUME NEW i \in DOMAIN B PROVE First(t, B[i].key) = a + u + i
  <2>1. a + u + i \in DOMAIN t /\ t[a + u + i].key = B[i].key
    BY <1>1, <1>2
  <2>2. \A j \in 1..((a + u + i) - 1) : t[j].key # B[i].key
    <3> TAKE j \in 1..((a + u + i) - 1)
    <3>1. j \in DOMAIN t /\ j < a + u + i
      BY <1>1, <1>2
    <3>2. B[i].key \in KeysIn(B)
      BY DEF KeysIn
    <3>3. CASE j \in 1..a
      <4>1. t[j].key \in KeysIn(A)
        BY <1>1, <1>2, <3>3 DEF KeysIn
      <4> QED BY <3>2, <4>1 DEF ThreeParts
    <3>4. CASE \E h \in 1..u : j = a + h
      <4>1. t[j].key \in KeysIn(U)
        BY <1>1, <1>2, <3>4 DEF KeysIn
      <4> QED BY <3>2, <4>1 DEF ThreeParts
    <3>5. CASE \E h \in 1..b : j = a + u + h
      <4>1. PICK h \in 1..b : j = a + u + h
        BY <3>5
      <4>2. h # i /\ t[j] = B[h]
        BY <1>1, <1>2, <3>1, <4>1
      <4> QED BY <1>2, <4>2 DEF ThreeParts, Distinct
    <3> QED BY <1>3, <3>1, <3>3, <3>4, <3>5
  <2> QED BY <1>1, <2>1, <2>2, FirstIs
<1>7. DOMAIN t \ {First(t, k) : k \in found} = (a + 1)..(a + u)
  <2> DEFINE firsts == {First(t, k) : k \in found}
  <2>1. \A i \in 1..a : i \in firsts
    <3> TAKE i \in 1..a
    <3>1. A[i].key \in found /\ First(t, A[i].key) = i
      BY <1>2, <1>5 DEF KeysIn
    <3> QED BY <3>1
  <2>2. \A i \in 1..b : a + u + i \in firsts
    <3> TAKE i \in 1..b
    <3>1. B[i].key \in found /\ First(t, B[i].key) = a + u + i
      BY <1>2, <1>6 DEF KeysIn
    <3> QED BY <3>1
  <2>3. \A i \in firsts : i \in 1..a \/ \E j \in 1..b : i = a + u + j
    <3> TAKE i \in firsts
    <3>1. PICK k \in found : i = First(t, k)
      OBVIOUS
    <3>2. CASE k \in KeysIn(A)
      <4>1. PICK j \in DOMAIN A : A[j].key = k
        BY <3>2 DEF KeysIn
      <4> QED BY <1>2, <1>5, <3>1, <4>1
    <3>3. CASE k \in KeysIn(B)
      <4>1. PICK j \in DOMAIN B : B[j].key = k
        BY <3>3 DEF KeysIn
      <4> QED BY <1>2, <1>6, <3>1, <4>1
    <3> QED BY <3>1, <3>2, <3>3
  <2> HIDE DEF firsts
  <2>4. ASSUME NEW i \in DOMAIN t, i \notin firsts PROVE i \in (a + 1)..(a + u)
    BY <1>2, <1>3, <2>1, <2>2, <2>4
  <2>5. ASSUME NEW i \in (a + 1)..(a + u) PROVE i \in DOMAIN t /\ i \notin firsts
    <3>1. i \in DOMAIN t
      BY <1>1, <1>2
    <3>2. i \notin 1..a /\ \A j \in 1..b : i # a + u + j
      BY <1>2
    <3> QED BY <2>3, <3>1, <3>2
  <2>6. DOMAIN t \ firsts = (a + 1)..(a + u)
    BY <2>4, <2>5
  <2> QED BY <2>6 DEF firsts
<1>8. ItemsAt(t, (a + 1)..(a + u)) = U
  <2>1. Cardinality((a + 1)..(a + u)) = u
    <3>1. a + 1 \in Int /\ a + u \in Int
      BY <1>2
    <3>2. Cardinality((a + 1)..(a + u)) = IF a + 1 > a + u THEN 0 ELSE (a + u) - (a + 1) + 1
      BY <3>1, FS_Interval
    <3> QED BY <1>2, <3>2
  <2>2. \A k \in 1..u : Nth((a + 1)..(a + u), k) = a + k
    BY <1>2, NthOfInterval
  <2>3. \A k \in 1..u : t[Nth((a + 1)..(a + u), k)] = U[k]
    BY <1>1, <1>2, <2>2
  <2> DEFINE S == (a + 1)..(a + u)
  <2>4. ItemsAt(t, S) = [k \in 1..Cardinality(S) |-> t[Nth(S, k)]]
    BY DEF ItemsAt
  <2>5. Cardinality(S) = u /\ \A k \in 1..u : t[Nth(S, k)] = U[k]
    BY <2>1, <2>3
  <2> HIDE DEF S
  <2>6. ItemsAt(t, S) = [k \in 1..u |-> U[k]]
    BY <2>4, <2>5
  <2> QED BY <1>2, <2>6 DEF S
<1>9. FoundIn(keys, A, U, B, t)
  BY <1>4, <1>5, <1>6, <1>7, <1>8 DEF FoundIn, a, u
<1> QED BY <1>9 DEF t

LEMMA OccursInThree ==
  ASSUME NEW A, NEW U, NEW B, IsSequence(A), IsSequence(U), IsSequence(B),
         NEW k, Occurs(A \o U \o B, k)
  PROVE  k \in KeysIn(A) \cup KeysIn(U) \cup KeysIn(B)
<1> DEFINE t == A \o U \o B
<1>1. Join(A, U, B, t)
  BY Joined
<1>2. /\ Len(A) \in Nat /\ DOMAIN A = 1..Len(A) /\ Len(U) \in Nat /\ DOMAIN U = 1..Len(U)
      /\ Len(B) \in Nat /\ DOMAIN B = 1..Len(B)
  BY SequenceIsFunction
<1>3. PICK i \in DOMAIN t : t[i].key = k
  BY DEF Occurs
<1> HIDE DEF t
<1>4. CASE i \in 1..Len(A)
  BY <1>1, <1>2, <1>3, <1>4 DEF Join, KeysIn
<1>5. CASE Len(A) < i /\ i <= Len(A) + Len(U)
  <2>1. i - Len(A) \in DOMAIN U /\ i = Len(A) + (i - Len(A))
    BY <1>1, <1>2, <1>5 DEF Join
  <2>2. t[i] = U[i - Len(A)]
    BY <1>1, <2>1 DEF Join
  <2> QED BY <1>3, <2>1, <2>2 DEF KeysIn
<1>6. CASE Len(A) + Len(U) < i
  <2>1. i - (Len(A) + Len(U)) \in DOMAIN B /\ i = Len(A) + Len(U) + (i - (Len(A) + Len(U)))
    BY <1>1, <1>2, <1>6 DEF Join
  <2>2. t[i] = B[i - (Len(A) + Len(U))]
    BY <1>1, <2>1 DEF Join
  <2> QED BY <1>3, <2>1, <2>2 DEF KeysIn
<1> QED BY <1>1, <1>2, <1>4, <1>5, <1>6 DEF Join

-----------------------------------------------------------------------------
(* What is written of a model *)

Put(kind, d, k) == Setting(k, Text(WriterOf(kind, k), d.known[k]))

SettingsOf(kind, d, places, s) ==
  /\ IsSequence(s) /\ Distinct(s) /\ KeysIn(s) = {Order[kind][i] : i \in places}
  /\ \A p \in DOMAIN s : s[p] = Put(kind, d, s[p].key)

LEMMA WrittenSettings ==
  ASSUME NEW kind \in Kinds, NEW d, NEW places \in SUBSET (DOMAIN Order[kind])
  PROVE  SettingsOf(kind, d, places, Settings(kind, d, places))
<1> DEFINE n == Len(Order[kind])
           set == [i \in places |-> Put(kind, d, Order[kind][i])]
           s == ItemsAt(set, places)
           T == {set[i] : i \in places}
<1>1. /\ n \in Nat /\ DOMAIN Order[kind] = 1..n
      /\ \A i, j \in 1..n : Order[kind][i] = Order[kind][j] => i = j
  BY OrderAssumption
<1>2. Settings(kind, d, places) = s
  BY DEF Settings, Put
<1>3. \A i \in places : set[i] = Put(kind, d, Order[kind][i]) /\ set[i].key = Order[kind][i]
  BY DEF Put, Setting
<1> HIDE DEF n, set
<1>4. places \in SUBSET (1..n)
  BY <1>1
<1>5. /\ Cardinality(places) \in Nat /\ DOMAIN s = 1..Cardinality(places)
      /\ \A p \in DOMAIN s : s[p] = set[Nth(places, p)] /\ Nth(places, p) \in places
      /\ s \in Seq(T)
  <2>1. \A i \in places : set[i] \in T
    OBVIOUS
  <2> HIDE DEF T
  <2>2. /\ Cardinality(places) \in Nat /\ DOMAIN s = 1..Cardinality(places)
        /\ \A p \in 1..Cardinality(places) : s[p] = set[Nth(places, p)] /\ Nth(places, p) \in places
    BY <1>1, <1>4, ItemsAtType
  <2>3. s \in Seq(T)
    BY <1>1, <1>4, <2>1, ItemsAtType
  <2> QED BY <2>2, <2>3
<1> HIDE DEF s, T
<1>6. IsSequence(s)
  BY <1>5, IsSequenceOf
<1>7. KeysIn(s) = {Order[kind][i] : i \in places}
  <2>1. \A p \in DOMAIN s : s[p].key \in {Order[kind][i] : i \in places}
    BY <1>3, <1>5
  <2>2. ASSUME NEW i \in places PROVE Order[kind][i] \in KeysIn(s)
    <3>1. PICK p \in 1..Cardinality(places) : Nth(places, p) = i
      BY <1>1, <1>4, NthOnto
    <3>2. p \in DOMAIN s /\ s[p].key = Order[kind][i]
      BY <1>3, <1>5, <3>1
    <3> QED BY <3>2 DEF KeysIn
  <2> QED BY <2>1, <2>2 DEF KeysIn
<1>8. Distinct(s)
  <2> SUFFICES ASSUME NEW p \in DOMAIN s, NEW q \in DOMAIN s, s[p].key = s[q].key
               PROVE  p = q
    BY DEF Distinct
  <2>1. Order[kind][Nth(places, p)] = Order[kind][Nth(places, q)]
    BY <1>3, <1>5
  <2>2. Nth(places, p) = Nth(places, q)
    BY <1>1, <1>4, <1>5, <2>1
  <2>3. \A i \in 1..Cardinality(places) : Cardinality(UpTo(places, Nth(places, i))) = i
    BY <1>1, <1>4, NthIsPlace
  <2>4. p = Cardinality(UpTo(places, Nth(places, p))) /\ q = Cardinality(UpTo(places, Nth(places, q)))
    BY <1>5, <2>3
  <2> QED BY <2>2, <2>4
<1>9. \A p \in DOMAIN s : s[p] = Put(kind, d, s[p].key)
  BY <1>3, <1>5
<1>10. SettingsOf(kind, d, places, s)
  BY <1>6, <1>7, <1>8, <1>9 DEF SettingsOf
<1> QED BY <1>2, <1>10

-----------------------------------------------------------------------------
(* A model is read back from its text *)

WholeHz(kind, d) ==
  \A k \in DOMAIN d.known \cap KeysOf(kind) :
    FormOf(kind, k) \in HzForms => WholeValue(d.known[k])

LEMMA FormAndWriter ==
  ASSUME NEW kind \in Kinds, NEW k \in KeysOf(kind)
  PROVE  FormOf(kind, k) \in HzForms =>
           WriterOf(kind, k) # "float" /\ k \in WholeKeys[kind] \ {"correction"}
<1>1. TablesFit(kind)
  BY TablesAllFit
<1>2. FormOf(kind, k) \in DOMAIN Reads[kind] /\ k \in Reads[kind][FormOf(kind, k)]
  BY DEF FormOf, KeysOf
<1>3. k \in WrittenKeys(kind)
  BY <1>1 DEF TablesFit
<1>4. k \in Writes[kind][WriterOf(kind, k)]
  BY <1>3 DEF WrittenKeys, WriterOf
<1> QED BY <1>1, <1>2, <1>4 DEF TablesFit

LEMMA ValuesReadBack ==
  ASSUME NEW kind \in Kinds, NEW d, IsModel(kind, d), WholeHz(kind, d),
         NEW k \in DOMAIN d.known \cap KeysOf(kind), d.known[k].ty # "disabled"
  PROVE  /\ ReadAs(FormOf(kind, k), Put(kind, d, k).value) = d.known[k]
         /\ d.known[k] # NotRead
<1>1. IsSent(FormOf(kind, k), d.known[k]) /\ k \in KeysOf(kind)
  BY DEF IsModel
<1>2. Put(kind, d, k).value = Text(WriterOf(kind, k), d.known[k])
  BY DEF Put, Setting
<1>3. FormOf(kind, k) \in HzForms => WriterOf(kind, k) # "float" /\ WholeValue(d.known[k])
  BY <1>1, FormAndWriter DEF WholeHz
<1>4. ReadAs(FormOf(kind, k), Text(WriterOf(kind, k), d.known[k])) = d.known[k]
  BY <1>1, <1>3, ValueReadBack
<1>5. d.known[k].ty # "error"
  <2> DEFINE x == d.known[k]  form == ItemForm(FormOf(kind, k))
  <2>1. x.ty = "list" \/ IsSentScalar(form, x)
    BY <1>1 DEF IsSent
  <2> HIDE DEF x, form
  <2>2. x.ty # "error"
    BY <2>1 DEF IsSentScalar
  <2> QED BY <2>2 DEF x
<1> QED BY <1>2, <1>4, <1>5 DEF NotRead

\* What comes back of a model.
Kept(kind, d) == {k \in DOMAIN d.known \ PanelOnly(kind) : ~LeftOut(k, d.known[k])}

LEMMA ReturnedIsKept ==
  ASSUME NEW kind, NEW d
  PROVE  Returned(kind, d) = Group([k \in Kept(kind, d) |-> d.known[k]], d.unknown)
<1> DEFINE empty == {k \in DOMAIN d.known : k = "remote_inputs" /\ d.known[k].items = <<>>}
           off == {k \in DOMAIN d.known : d.known[k].ty = "disabled"}
<1>1. DOMAIN d.known \ (empty \cup off \cup PanelOnly(kind)) = Kept(kind, d)
  BY DEF Kept, LeftOut
<1> QED BY <1>1 DEF Returned

LEMMA PanelOnlyIsNoKey ==
  ASSUME NEW kind
  PROVE  /\ PanelOnly(kind) \cap KeysOf(kind) = {} /\ PanelOnly(kind) \cap NestedLists = {}
         /\ PanelOnly(kind) \cap WrittenKeys(kind) = {}
<1>1. /\ Reads["rdio"] = RdioReads /\ Writes["rdio"] = RdioWrites
      /\ "disable" \notin NestedLists
  BY DEF Reads, Writes, NestedLists
<1>2. "disable" \notin KeysOf("rdio") /\ "disable" \notin WrittenKeys("rdio")
  BY <1>1 DEF KeysOf, WrittenKeys, RdioReads, RdioWrites
<1> QED BY <1>1, <1>2 DEF PanelOnly

LEMMA OneKindOfChannel ==
  /\ "freqs" \notin KeysOf("multichannel")
  /\ "freq" \notin KeysOf("scan")
BY DEF KeysOf, Reads, MultichannelReads, ScanReads

LEMMA ModelReadBack ==
  ASSUME NEW kind \in Kinds, NEW d, IsModel(kind, d), WholeHz(kind, d), ~SecondUpload(d)
  PROVE  ToDomain(kind, FromDomain(kind, d)) = Returned(kind, d)
<1> DEFINE order == Order[kind]
           written == {i \in DOMAIN order :
                         order[i] \in DOMAIN d.known /\ ~LeftOut(order[i], d.known[order[i]])}
           nested == {i \in written : order[i] \in NestedLists}
           A == Settings(kind, d, written \ nested)  B == Settings(kind, d, nested)
           U == d.unknown
           there == Kept(kind, d)
           t == A \o U \o B
<1>1. FromDomain(kind, d) = t
  BY DEF FromDomain
<1>2. /\ SettingsOf(kind, d, written \ nested, A)
      /\ SettingsOf(kind, d, nested, B)
  BY WrittenSettings
<1>3. /\ DOMAIN d.known \subseteq KeysOf(kind) \cup PanelOnly(kind) /\ Required[kind] \subseteq DOMAIN d.known
      /\ IsSequence(U)
      /\ \A i \in DOMAIN U : U[i].key \in KeysOf(kind) => U[i].key \in DOMAIN d.known \ NestedLists
      /\ kind \in {"multichannel", "scan"} =>
           \A i \in DOMAIN U : U[i].key \notin {"freq", "freqs"} \ KeysOf(kind)
  BY DEF IsModel
<1>4. {order[i] : i \in written} = there
  <2>1. KeysOf(kind) \subseteq WrittenKeys(kind) /\ WrittenKeys(kind) = {order[i] : i \in DOMAIN order}
    BY TablesAllFit, OrderAssumption DEF TablesFit
  <2> HIDE DEF order
  <2>2. \A k \in there : k \in {order[i] : i \in written}
    <3> TAKE k \in there
    <3>1. PICK i \in DOMAIN order : order[i] = k
      BY <1>3, <2>1 DEF Kept
    <3>2. i \in written
      BY <3>1 DEF Kept
    <3> QED BY <3>1, <3>2
  <2>3. \A i \in written : order[i] \in there
    BY <2>1, PanelOnlyIsNoKey DEF Kept
  <2> QED BY <2>2, <2>3
<1>5. KeysIn(A) = there \ NestedLists /\ KeysIn(B) = there \cap NestedLists
  <2>1. KeysIn(A) = {order[i] : i \in written \ nested} /\ KeysIn(B) = {order[i] : i \in nested}
    BY <1>2 DEF SettingsOf
  <2> HIDE DEF order, there, A, B
  <2>2. {order[i] : i \in written \ nested} = {order[i] : i \in written} \ NestedLists
    OBVIOUS
  <2>3. {order[i] : i \in nested} = {order[i] : i \in written} \cap NestedLists
    OBVIOUS
  <2> QED BY <1>4, <2>1, <2>2, <2>3
<1>6. /\ there \subseteq KeysOf(kind)
      /\ \A i \in DOMAIN U : U[i].key \in KeysOf(kind) => U[i].key \in there
  <2>1. \A i \in DOMAIN U : U[i].key \in DOMAIN d.known => d.known[U[i].key].ty # "disabled"
    BY DEF SecondUpload
  <2> QED BY <1>3, <2>1, PanelOnlyIsNoKey DEF Kept, LeftOut, NestedLists
<1> HIDE DEF there, written, nested, order, A, B, U
<1>7. ThreeParts(KeysOf(kind), A, U, B)
  <2>1. IsSequence(A) /\ IsSequence(B) /\ Distinct(A) /\ Distinct(B)
    BY <1>2 DEF SettingsOf
  <2>2. \A k \in KeysIn(U) : k \in KeysOf(kind) => k \in KeysIn(A) /\ k \notin NestedLists
    BY <1>3, <1>5, <1>6 DEF KeysIn
  <2>3. KeysIn(A) \cap KeysIn(B) = {} /\ KeysIn(A) \cup KeysIn(B) \subseteq KeysOf(kind)
    BY <1>5, <1>6
  <2>4. KeysIn(U) \cap KeysIn(B) = {}
    BY <1>5, <1>6, <2>2
  <2> QED BY <1>3, <2>1, <2>2, <2>3, <2>4 DEF ThreeParts
<1>8. /\ {k \in KeysOf(kind) : Occurs(t, k)} = there
      /\ \A i \in DOMAIN A : First(t, A[i].key) = i
      /\ \A i \in DOMAIN B : First(t, B[i].key) = Len(A) + Len(U) + i
      /\ ItemsAt(t, DOMAIN t \ {First(t, k) : k \in there}) = U
  <2>1. KeysIn(A) \cup KeysIn(B) = there
    BY <1>5
  <2>2. FoundIn(KeysOf(kind), A, U, B, t)
    BY <1>7, FoundInThree
  <2> HIDE DEF t
  <2> QED BY <2>1, <2>2 DEF FoundIn
<1>9. Join(A, U, B, t)
  BY <1>7, Joined DEF ThreeParts
<1>10. ~Ambiguous(kind, t)
  <2> SUFFICES ASSUME kind \in {"multichannel", "scan"}, Occurs(t, "freq"), Occurs(t, "freqs")
               PROVE  FALSE
    BY DEF Ambiguous
  <2>1. \A k : Occurs(t, k) => k \in KeysIn(A) \cup KeysIn(U) \cup KeysIn(B)
    BY <1>7, OccursInThree DEF ThreeParts
  <2>2. \A k \in {"freq", "freqs"} : Occurs(t, k) => k \in KeysOf(kind)
    <3> TAKE k \in {"freq", "freqs"}
    <3> HAVE Occurs(t, k)
    <3>1. CASE k \in KeysIn(U)
      <4>1. PICK i \in DOMAIN U : U[i].key = k
        BY <3>1 DEF KeysIn
      <4> QED BY <1>3, <4>1
    <3>2. CASE k \in KeysIn(A) \cup KeysIn(B)
      BY <1>5, <1>6, <3>2
    <3> QED BY <2>1, <3>1, <3>2
  <2>3. "freq" \in KeysOf(kind) /\ "freqs" \in KeysOf(kind)
    BY <2>2
  <2> QED BY <2>3, OneKindOfChannel
<1>11. ASSUME NEW k \in there PROVE ReadAs(FormOf(kind, k), t[First(t, k)].value) = d.known[k]
                                    /\ d.known[k] # NotRead
  <2>1. k \in DOMAIN d.known \cap KeysOf(kind) /\ d.known[k].ty # "disabled"
    BY <1>6 DEF there, Kept, LeftOut
  <2>2. t[First(t, k)] = Put(kind, d, k)
    <3>1. CASE k \in KeysIn(A)
      <4>1. PICK i \in DOMAIN A : A[i].key = k
        BY <3>1 DEF KeysIn
      <4> QED BY <1>2, <1>8, <1>9, <4>1 DEF SettingsOf, Join
    <3>2. CASE k \in KeysIn(B)
      <4>1. PICK i \in DOMAIN B : B[i].key = k
        BY <3>2 DEF KeysIn
      <4> QED BY <1>2, <1>8, <1>9, <4>1 DEF SettingsOf, Join
    <3> QED BY <1>5, <3>1, <3>2
  <2> QED BY <2>1, <2>2, ValuesReadBack
<1>12. Required[kind] \subseteq there
  <2> SUFFICES ASSUME NEW k \in Required[kind] PROVE k \in there
    OBVIOUS
  <2>1. k \in KeysOf(kind) \ {"remote_inputs"} /\ k \in DOMAIN d.known
    BY <1>3, TablesAllFit DEF TablesFit
  <2>2. FormOf(kind, k) \in DOMAIN Reads[kind] /\ k \in Reads[kind][FormOf(kind, k)]
    BY <2>1 DEF FormOf, KeysOf
  <2>3. FormOf(kind, k) # "upload"
    BY <2>2, UploadIsOptional
  <2>4. ItemForm(FormOf(kind, k)) # "upload"
    BY <2>3 DEF ItemForm
  <2>5. d.known[k].ty # "disabled"
    BY <2>1, <2>4 DEF IsModel, IsSent, IsSentScalar
  <2> QED BY <2>1, <2>5, PanelOnlyIsNoKey DEF there, Kept, LeftOut
<1> HIDE DEF t
<1> DEFINE present == {k \in KeysOf(kind) : Occurs(t, k)}
           known == [k \in present |-> ReadAs(FormOf(kind, k), t[First(t, k)].value)]
           taken == {First(t, k) : k \in present}
<1>13. present = there
  BY <1>8
<1>14. known = [k \in there |-> d.known[k]]
  BY <1>11, <1>13
<1>15. ItemsAt(t, DOMAIN t \ taken) = U
  BY <1>8, <1>13
<1>16. ~(\/ ~(Required[kind] \subseteq present)
         \/ \E k \in present : known[k] = NotRead
         \/ Ambiguous(kind, t))
  BY <1>10, <1>11, <1>12, <1>13, <1>14
<1>17. ToDomain(kind, t) = Group(known, ItemsAt(t, DOMAIN t \ taken))
  BY <1>16 DEF ToDomain
<1>18. ToDomain(kind, t) = Group([k \in there |-> d.known[k]], U)
  BY <1>14, <1>15, <1>17
<1> QED BY <1>1, <1>18, ReturnedIsKept DEF t, there, U

-----------------------------------------------------------------------------
(* What is read of a text is a model *)

LEMMA RequiredFrequency ==
  "freq" \in Required["multichannel"] /\ "freqs" \in Required["scan"]
BY DEF Required

LEMMA ReadIsModel ==
  ASSUME NEW kind \in Kinds, NEW t, IsText(t), ToDomain(kind, t).ok
  PROVE  /\ IsModel(kind, ToDomain(kind, t)) /\ WholeHz(kind, ToDomain(kind, t))
         /\ ~SecondUpload(ToDomain(kind, t))
<1> DEFINE present == {k \in KeysOf(kind) : Occurs(t, k)}
           known == [k \in present |-> ReadAs(FormOf(kind, k), t[First(t, k)].value)]
           taken == {First(t, k) : k \in present}
           places == DOMAIN t \ taken
           U == ItemsAt(t, places)
           d == Group(known, U)
<1>1. /\ ToDomain(kind, t) = d
      /\ Required[kind] \subseteq present /\ \A k \in present : known[k] # NotRead
      /\ ~Ambiguous(kind, t)
  <2>1. ToDomain(kind, t) # Unread
    BY DEF Unread
  <2> QED BY <2>1 DEF ToDomain
<1>2. /\ Len(t) \in Nat /\ DOMAIN t = 1..Len(t)
      /\ IsSequence(t) /\ \A i \in DOMAIN t : IsSetting(t[i])
      /\ \A i, j \in DOMAIN t : t[i].key = t[j].key /\ t[i].key \in NestedLists => i = j
  BY SequenceIsFunction DEF IsText
<1>3. \A k \in present : First(t, k) \in DOMAIN t /\ t[First(t, k)].key = k
  BY <1>2, FirstOccurs
<1>4. \A k \in present : /\ IsSent(FormOf(kind, k), known[k]) /\ known[k].ty # "disabled"
                         /\ FormOf(kind, k) \in HzForms => WholeValue(known[k])
  <2> TAKE k \in present
  <2> DEFINE s == t[First(t, k)]
  <2>1. IsSetting(s)
    BY <1>2, <1>3
  <2>2. known[k] = ReadAs(FormOf(kind, k), s.value) /\ known[k] # NotRead
    BY <1>1
  <2> HIDE DEF s, known
  <2> QED BY <2>1, <2>2, ValueIsSent
<1>5. DOMAIN known = present /\ known = [k \in DOMAIN known |-> known[k]]
  OBVIOUS
<1>6. d.known = known /\ d.unknown = U
  BY DEF Group
<1> HIDE DEF known
<1>7. /\ DOMAIN U = 1..Cardinality(places) /\ IsSequence(U)
      /\ \A i \in DOMAIN U : \E j \in places : U[i] = t[j]
  <2> DEFINE T == {t[i] : i \in DOMAIN t}
  <2>1. places \in SUBSET (1..Len(t)) /\ \A i \in places : t[i] \in T
    BY <1>2
  <2> HIDE DEF places, T
  <2>2. /\ DOMAIN U = 1..Cardinality(places) /\ U \in Seq(T)
        /\ \A i \in 1..Cardinality(places) : U[i] = t[Nth(places, i)] /\ Nth(places, i) \in places
    <3> DEFINE n == Len(t)
    <3>1. n \in Nat /\ places \in SUBSET (1..n)
      BY <1>2, <2>1
    <3> HIDE DEF n
    <3>2. DOMAIN U = 1..Cardinality(places)
      BY DEF ItemsAt
    <3>3. /\ \A i \in 1..Cardinality(places) : U[i] = t[Nth(places, i)] /\ Nth(places, i) \in places
          /\ U \in Seq(T)
      BY <2>1, <3>1, ItemsAtType
    <3> QED BY <3>2, <3>3
  <2> HIDE DEF U
  <2> QED BY <2>2, IsSequenceOf
<1> HIDE DEF U
<1>8. \A i \in DOMAIN U : IsSetting(U[i]) /\ Occurs(t, U[i].key)
  <2> TAKE i \in DOMAIN U
  <2>1. PICK j \in places : U[i] = t[j]
    BY <1>7
  <2> QED BY <1>2, <2>1 DEF Occurs
<1>9. \A i \in DOMAIN U : U[i].key \in KeysOf(kind) => U[i].key \in present \ NestedLists
  <2> TAKE i \in DOMAIN U
  <2> HAVE U[i].key \in KeysOf(kind)
  <2>1. PICK j \in places : U[i] = t[j]
    BY <1>7
  <2>2. U[i].key \in present
    BY <1>8
  <2>3. First(t, U[i].key) \in taken /\ j \notin taken /\ j \in DOMAIN t
    BY <2>1, <2>2
  <2>4. U[i].key \notin NestedLists
    BY <1>2, <1>3, <2>1, <2>2, <2>3
  <2> QED BY <2>2, <2>4
<1>10. kind \in {"multichannel", "scan"} =>
         \A i \in DOMAIN U : U[i].key \notin {"freq", "freqs"} \ KeysOf(kind)
  <2> SUFFICES ASSUME kind \in {"multichannel", "scan"}, NEW i \in DOMAIN U,
                      U[i].key \in {"freq", "freqs"}, U[i].key \notin KeysOf(kind)
               PROVE  FALSE
    OBVIOUS
  <2>1. Occurs(t, U[i].key)
    BY <1>8
  <2>2. CASE kind = "multichannel"
    <3>1. "freq" \in present
      BY <1>1, <2>2, RequiredFrequency
    <3> QED BY <1>1, <2>1, <2>2, <3>1 DEF Ambiguous
  <2>3. CASE kind = "scan"
    <3>1. "freqs" \in present
      BY <1>1, <2>3, RequiredFrequency
    <3> QED BY <1>1, <2>1, <2>3, <3>1 DEF Ambiguous
  <2> QED BY <2>2, <2>3
<1>11. d = Group([k \in DOMAIN d.known |-> d.known[k]], d.unknown)
  BY <1>5, <1>6
<1>12. DOMAIN d.known = present /\ present \subseteq KeysOf(kind)
  BY <1>5, <1>6
<1> HIDE DEF d, present
<1>13. IsModel(kind, d)
  BY <1>1, <1>4, <1>6, <1>7, <1>8, <1>9, <1>10, <1>11, <1>12 DEF IsModel
<1>14. WholeHz(kind, d)
  BY <1>4, <1>6, <1>12 DEF WholeHz
<1>15. ~SecondUpload(d)
  BY <1>4, <1>6, <1>12 DEF SecondUpload
<1> QED BY <1>1, <1>13, <1>14, <1>15

\* A model and what comes back of it have the same text.
LEMMA SameText ==
  ASSUME NEW kind \in Kinds, NEW d
  PROVE  FromDomain(kind, Returned(kind, d)) = FromDomain(kind, d)
<1> DEFINE order == Order[kind]
           there == Kept(kind, d)
           e == Returned(kind, d)
           written(m) == {i \in DOMAIN order :
                            order[i] \in DOMAIN m.known /\ ~LeftOut(order[i], m.known[order[i]])}
           nested(m) == {i \in written(m) : order[i] \in NestedLists}
<1>1. e.known = [k \in there |-> d.known[k]] /\ e.unknown = d.unknown
  BY ReturnedIsKept DEF Group
<1>2. DOMAIN e.known = there /\ \A k \in there : e.known[k] = d.known[k]
  BY <1>1
<1> HIDE DEF e
<1>3. \A i \in written(d) : order[i] \in there
  <2>1. \A i \in DOMAIN order : order[i] \in WrittenKeys(kind)
    BY OrderAssumption
  <2> QED BY <2>1, PanelOnlyIsNoKey DEF Kept
<1>4. written(e) = written(d)
  <2>1. \A i \in DOMAIN order : i \in written(e) <=> i \in written(d)
    BY <1>2, <1>3 DEF Kept
  <2> QED BY <2>1
<1>5. ASSUME NEW places \in SUBSET written(d)
      PROVE  Settings(kind, e, places) = Settings(kind, d, places)
  <2>1. \A i \in places : order[i] \in there
    BY <1>3
  <2> HIDE DEF written, there
  <2> DEFINE set(m) == [i \in places |-> Put(kind, m, order[i])]
  <2>2. \A i \in places : Put(kind, e, order[i]) = Put(kind, d, order[i])
    BY <1>2, <2>1 DEF Put
  <2>3. set(e) = set(d)
    BY <2>2
  <2>4. Settings(kind, e, places) = ItemsAt(set(e), places) /\ Settings(kind, d, places) = ItemsAt(set(d), places)
    BY DEF Settings, Put
  <2> HIDE DEF set
  <2> QED BY <2>3, <2>4
<1>6. written(e) \ nested(e) = written(d) \ nested(d) /\ nested(e) = nested(d)
  BY <1>4
<1>7. \A m : FromDomain(kind, m) =
               Settings(kind, m, written(m) \ nested(m)) \o m.unknown \o Settings(kind, m, nested(m))
  BY DEF FromDomain
<1>8. written(d) \ nested(d) \in SUBSET written(d) /\ nested(d) \in SUBSET written(d)
  OBVIOUS
<1> HIDE DEF written, nested
<1>9. FromDomain(kind, e) = FromDomain(kind, d)
  BY <1>1, <1>5, <1>6, <1>7, <1>8
<1> QED BY <1>9 DEF e

-----------------------------------------------------------------------------
(***************************************************************************)
(* Saving a config unchanged keeps what every setting means, and a second   *)
(* save changes nothing: for every text that the parser can have read and   *)
(* any order of writing.                                                    *)
(***************************************************************************)
THEOREM SavingKeepsMeaning == ConfInit => SaveKeepsMeaning
<1> SUFFICES ASSUME ConfInit, input.what = "text"
             PROVE  LET d == ToDomain(input.kind, input.text)  s == Saved(input.kind, input.text)
                    IN  d.ok => ToDomain(input.kind, s) = Returned(input.kind, d) /\ Saved(input.kind, s) = s
  BY DEF SaveKeepsMeaning
<1>1. PICK kind \in Kinds : \E t \in Texts[kind] : input = [what |-> "text", kind |-> kind, text |-> t]
  <2>1. \A kind, d : [what |-> "model", kind |-> kind, model |-> d].what # "text"
    OBVIOUS
  <2> QED BY <2>1 DEF ConfInit
<1>2. PICK t \in Texts[kind] : input = [what |-> "text", kind |-> kind, text |-> t]
  BY <1>1
<1>3. input.kind = kind /\ input.text = t /\ IsText(t)
  BY <1>2, InputsAssumption
<1> DEFINE d == ToDomain(kind, t)  s == FromDomain(kind, d)
<1> SUFFICES ASSUME d.ok PROVE ToDomain(kind, s) = Returned(kind, d) /\ Saved(kind, s) = s
  BY <1>3 DEF Saved
<1>4. IsModel(kind, d) /\ WholeHz(kind, d) /\ ~SecondUpload(d)
  BY <1>3, ReadIsModel
<1> HIDE DEF d
<1>5. ToDomain(kind, s) = Returned(kind, d)
  BY <1>4, ModelReadBack
<1>6. Saved(kind, s) = s
  BY <1>5, SameText DEF Saved
<1> QED BY <1>5, <1>6

(***************************************************************************)
(* A config that the whole-number check accepts is read back from its text  *)
(* as it was sent, for every group that the editor can send, but for what   *)
(* SavedIsReadBack names: an empty list of remote inputs, an upload that is *)
(* switched off, and the switch of one that is not.                         *)
(***************************************************************************)
THEOREM SavedReadsBack == ConfInit => SavedIsReadBack
<1> SUFFICES ASSUME ConfInit, input.what = "model", WholeNumbers(input.kind, input.model),
                    ~SecondUpload(input.model)
             PROVE  ToDomain(input.kind, FromDomain(input.kind, input.model))
                      = Returned(input.kind, input.model)
  BY DEF SavedIsReadBack
<1>1. PICK kind \in Kinds :
        \E d \in Models[kind] : input = [what |-> "model", kind |-> kind, model |-> d]
  <2>1. \A kind, t : [what |-> "text", kind |-> kind, text |-> t].what # "model"
    OBVIOUS
  <2> QED BY <2>1 DEF ConfInit
<1>2. PICK d \in Models[kind] : input = [what |-> "model", kind |-> kind, model |-> d]
  BY <1>1
<1>3. input.kind = kind /\ input.model = d /\ IsModel(kind, d) /\ WholeNumbers(kind, d)
      /\ ~SecondUpload(d)
  BY <1>2, InputsAssumption
<1>4. WholeHz(kind, d)
  <2> SUFFICES ASSUME NEW k \in DOMAIN d.known \cap KeysOf(kind), FormOf(kind, k) \in HzForms
               PROVE  WholeValue(d.known[k])
    BY DEF WholeHz
  <2>1. k \in WholeKeys[kind] \ {"correction"}
    BY FormAndWriter
  <2> QED BY <1>3, <2>1 DEF WholeNumbers, WholeValue
<1>5. ToDomain(kind, FromDomain(kind, d)) = Returned(kind, d)
  BY <1>3, <1>4, ModelReadBack
<1> QED BY <1>3, <1>5
=============================================================================
