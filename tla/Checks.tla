--------------------------------- MODULE Checks ---------------------------------
(***************************************************************************)
(* The validator (crates/airband-validate): which errors and warnings a     *)
(* config gets, as the sets of their codes.  Paths and wording are left     *)
(* out, so a code stands for all its places.                                *)
(*                                                                          *)
(* A group is a function from the settings it has to their values; what is  *)
(* a list per scanned frequency is in `lists`.  Frequencies are in kHz,     *)
(* times, tones and ratios in tenths; a string is a token.                  *)
(***************************************************************************)
EXTENDS Integers, Sequences, SequencesExt, FiniteSetsExt, Functions, TLC

VARIABLES
  config,   \* what is validated
  build     \* the features of the installed rtl_airband

checkVars == <<config, build>>

Has(g, k) == k \in DOMAIN g
Or(g, k, d) == IF k \in DOMAIN g THEN g[k] ELSE d
On(g, k) == Or(g, k, FALSE)
Off(g) == On(g, "disable")
Abs(v) == IF v < 0 THEN -v ELSE v
AnyOf(g, keys) == keys \cap DOMAIN g # {}
If(bad, code) == IF bad THEN {code} ELSE {}
Empty == 0

DefaultSampleRate == 2560
DefaultFft == 512
IsScanDevice(d) == Or(d.set, "mode", "multichannel") = "scan"
SampleRate(d) == Or(d.set, "sample_rate", DefaultSampleRate)

Channels(c) == UNION {ToSet(d.channels) : d \in ToSet(c.devices)}
Mixers(c) == ToSet(c.mixers)
ChannelOutputs(c) == UNION {ToSet(ch.outputs) : ch \in Channels(c)}
MixerOutputs(c) == UNION {ToSet(m.outputs) : m \in Mixers(c)}
Outputs(c) == ChannelOutputs(c) \cup MixerOutputs(c)
ScanOutputs(c) == UNION {UNION {ToSet(ch.outputs) : ch \in ToSet(d.channels)} :
                           d \in {x \in ToSet(c.devices) : IsScanDevice(x)}}
OfType(outputs, ty) == {o \in outputs : o.type = ty}

\* A setting that is one value or a list: its values.
Vals(ch, k) ==
  IF Has(ch.set, k) THEN {ch.set[k]} ELSE IF Has(ch.lists, k) THEN ToSet(ch.lists[k]) ELSE {}
-----------------------------------------------------------------------------
(* checks/devices *)

FrequencyWindow(c) ==
  If(\E d \in ToSet(c.devices) : \E ch \in ToSet(d.channels) :
       /\ Has(d.set, "centerfreq") /\ ~IsScanDevice(d) /\ Has(ch.set, "freq")
       /\ 20 * Abs(ch.set["freq"] - d.set["centerfreq"]) >= 9 * SampleRate(d),
     "frequency-out-of-window")

CeilDiv(a, b) == -((-a) \div b)
ComputeBin(freq, center, rate, fft) == CeilDiv((freq + rate - center) * fft - rate, rate) % fft

Bin(c, d, ch) ==
  ComputeBin(ch.set["freq"], d.set["centerfreq"], SampleRate(d), Or(c.set, "fft_size", DefaultFft))

\* mutant: held against the channel before it only
NeighbourCollides(bins, freqs, j) ==
  j - 1 \in DOMAIN bins /\ bins[j - 1] = bins[j] /\ freqs[j - 1] # freqs[j]

\* The j-th channel is the first of its frequency in a bin that others have.
Collides(bins, freqs, j) ==
  LET before == {i \in DOMAIN bins : i < j /\ bins[i] = bins[j]}
  IN  before # {} /\ \A i \in before : freqs[i] # freqs[j]

BinCollisions(c) ==
  If(\E d \in ToSet(c.devices) :
       /\ Has(d.set, "centerfreq") /\ ~IsScanDevice(d)
       /\ LET tuned == {j \in DOMAIN d.channels : Has(d.channels[j].set, "freq")}
              bins == [j \in tuned |-> Bin(c, d, d.channels[j])]
              freqs == [j \in tuned |-> d.channels[j].set["freq"]]
          IN  \E j \in tuned : Collides(bins, freqs, j),
     "fft-bin-collision")

ScanMode(c) ==
  LET Is(ch) == ch.scan
      Shape(d) == {ch \in ToSet(d.channels) : Is(ch)}
      scans == {ch \in Channels(c) : ch.scan}
      Short(ch) == \E k \in DOMAIN ch.lists \ {"freqs"} : Len(ch.lists[k]) < Len(ch.lists["freqs"])
      Long(ch) == \E k \in DOMAIN ch.lists \ {"freqs"} : Len(ch.lists[k]) > Len(ch.lists["freqs"])
  IN  (UNION {IF IsScanDevice(d)
                THEN If(Len(d.channels) # 1, "scan-mode-single-channel")
                       \cup If(Shape(d) # ToSet(d.channels), "scan-mode-channel-shape-mismatch")
                ELSE If(Shape(d) # {}, "scan-mode-channel-shape-mismatch") : d \in ToSet(c.devices)})
        \cup If(\E ch \in scans : ch.lists["freqs"] = <<>>, "scan-freqs-empty")
        \cup If(\E ch \in scans : Short(ch), "scan-list-too-short")
        \cup If(\E ch \in scans : Long(ch), "scan-list-too-long")

RequiredSettings(d) ==
  LET g == d.set  ty == g["type"]
  IN  If(ty \notin {"rtlsdr", "mirisdr", "soapysdr"}, "device-type-unsupported")
        \cup If(ty # "soapysdr" /\ ~Has(g, "gain"), "device-gain-required")
        \cup If(ty = "soapysdr" /\ ~Has(g, "device_string"), "device-string-required")
        \cup If(~IsScanDevice(d) /\ ~Has(g, "centerfreq"), "device-centerfreq-required")
        \cup If(ty \in {"rtlsdr", "mirisdr"} /\ ~AnyOf(g, {"serial", "index"}),
                "device-serial-or-index-required")

MaxUsbBuffer == 16777216

DeviceNumbers(d) ==
  LET g == d.set  ty == g["type"]  rate == SampleRate(d)
  IN  If(rate <= 16, "device-sample-rate-too-low")
        \cup If(ty = "rtlsdr" /\ rate \in 301..900, "device-sample-rate-unsupported")
        \cup If(ty = "rtlsdr" /\ Or(g, "buffers", 1) <= 0, "device-buffers-invalid")
        \cup If(/\ ty = "rtlsdr" /\ Has(g, "buffer_size")
                /\ ~(g["buffer_size"] \in 1..MaxUsbBuffer /\ g["buffer_size"] % 512 = 0),
                "device-buffer-size-invalid")
        \cup If(ty = "mirisdr" /\ Or(g, "num_buffers", 1) <= 0, "device-num-buffers-invalid")
        \cup If(Or(g, "reserve_channels", 0) < 0, "device-reserve-channels-negative")
        \cup If(IsScanDevice(d) /\ Or(g, "reserve_channels", 0) # 0,
                "device-reserve-channels-scan-unsupported")
        \cup If(ty = "rtlsdr" /\ Or(g, "bandwidth", 0) < 0, "device-bandwidth-negative")

NoActive(items) == \A x \in ToSet(items) : Off(x.set)
InUse(items) == {x \in ToSet(items) : ~Off(x.set)}

DisableCascade(c) ==
  If(NoActive(c.devices), "no-active-devices")
    \cup If(\E d \in InUse(c.devices) : NoActive(d.channels), "no-active-channels")
    \cup If(\E d \in InUse(c.devices) : \E ch \in InUse(d.channels) : NoActive(ch.outputs),
            "no-active-outputs")
    \cup If(\E m \in InUse(c.mixers) : NoActive(m.outputs), "no-active-mixer-outputs")
-----------------------------------------------------------------------------
(* checks/channels *)

Tones ==
  {670, 693, 719, 744, 770, 797, 825, 854, 885, 915, 948, 974, 1000, 1035, 1072, 1109, 1148,
   1188, 1230, 1273, 1318, 1365, 1413, 1462, 1500, 1514, 1567, 1598, 1622, 1655, 1679, 1713,
   1738, 1773, 1799, 1835, 1862, 1899, 1928, 1966, 1995, 2035, 2065, 2107, 2187, 2257, 2291,
   2336, 2418, 2503, 2541}

CtcssTones(c) ==
  LET Near(v) == v > 0 /\ v \notin Tones /\ \E t \in Tones : Abs(t - v) <= 20
  IN  \* in a list 0 stands for no tone
      If(\E ch \in Channels(c) :
           Or(ch.set, "ctcss", 1) <= 0 \/ \E v \in ToSet(Or(ch.lists, "ctcss", <<>>)) : v < 0,
         "ctcss-non-positive")
        \cup If(\E ch \in Channels(c) : \E v \in Vals(ch, "ctcss") : Near(v),
                "ctcss-near-standard-tone")

FilterCutoffs(c) ==
  If(\E x \in Channels(c) \cup Mixers(c) :
       {"lowpass", "highpass"} \subseteq DOMAIN x.set /\ x.set["lowpass"] < x.set["highpass"],
     "lowpass-below-highpass")

Modulation(c) ==
  If(\E ch \in Channels(c) :
       ~((Vals(ch, "modulation") \cup ToSet(Or(ch.lists, "modulations", <<>>))) \subseteq {"nfm", "am"}),
     "modulation-unrecognized")

ScalarOrList(c, k, fine, code) == If(\E ch \in Channels(c) : ~(Vals(ch, k) \subseteq fine), code)

ChannelValues(c) ==
  LET Set(ch, k) == Has(ch.set, k) \/ Has(ch.lists, k)
      positive == Nat \ {0}
  IN  ScalarOrList(c, "ampfactor", Nat, "ampfactor-negative")
        \cup ScalarOrList(c, "squelch_threshold", Int \ positive, "squelch-threshold-positive")
        \cup ScalarOrList(c, "squelch_snr_threshold", Nat \cup {-10}, "squelch-snr-threshold-invalid")
        \cup ScalarOrList(c, "notch_q", positive, "notch-q-non-positive")
        \cup If(\E ch \in Channels(c) : Set(ch, "squelch_threshold") /\ Set(ch, "squelch_snr_threshold"),
                "squelch-threshold-and-snr-threshold-both-set")

EnabledDisableRedundant(c) ==
  If(\E x \in Channels(c) \cup Mixers(c) : Off(x.set) /\ ~Or(x.set, "enabled", TRUE),
     "enabled-false-with-disable")
-----------------------------------------------------------------------------
(* checks/outputs *)

RdioScanner(c) ==
  LET used == {o \in OfType(Outputs(c), "file") : o.rdio # <<>> /\ ~Off(o.rdio[1])}
  IN  If(\E o \in used : ~On(o.set, "split_on_transmission"),
         "rdio-scanner-requires-split-on-transmission")
        \cup If(used \cap ScanOutputs(c) # {}, "rdio-scanner-not-supported-on-scan-mode")
        \cup If(\E o \in used : Or(o.rdio[1], "timeout_ms", 1) <= 0, "rdio-scanner-invalid-timeout")
        \cup If(\E o \in used : Or(o.rdio[1], "max_retries", 0) < 0, "rdio-scanner-invalid-max-retries")
        \cup If(Or(c.set, "rdio_scanner_queue_depth", 1) <= 0, "rdio-scanner-invalid-queue-depth")

OutputValues(c) ==
  LET file == OfType(Outputs(c), "file")
  IN  If(\E o \in OfType(ScanOutputs(c), "icecast") : On(o.set, "send_tx_tags"),
         "send-tx-tags-not-supported-on-scan-mode")
        \cup If(\E o \in file : On(o.set, "continuous") /\ On(o.set, "split_on_transmission"),
                "file-output-continuous-and-split-on-transmission")
        \cup If(\E o \in OfType(Outputs(c), "udp_stream") : Or(o.set, "sample_rate", 1) <= 0,
                "udp-stream-sample-rate-non-positive")
        \cup If(\E o \in file : Or(o.set, "post_write_script", Empty) # Empty,
                "post-write-script-runs-arbitrary-command")
        \cup If(\E o \in OfType(Outputs(c), "mixer_remote") : o.set["stream_id"] < 0,
                "mixer-remote-output-stream-id-negative")
-----------------------------------------------------------------------------
(* checks/mixers *)

Routed(c) == {o.set["name"] : o \in OfType(ChannelOutputs(c), "mixer")}
Inputs(c) == FlattenSeq([i \in DOMAIN c.mixers |-> c.mixers[i].remote_inputs])
Balanced(g) == Or(g, "balance", 0) \in -10..10

MixerRouting(c) ==
  If(~(Routed(c) \subseteq {m.name : m \in Mixers(c)}), "mixer-reference-not-found")
    \cup If(\E m \in InUse(c.mixers) : m.name \notin Routed(c) /\ ~NoActive(m.outputs), "mixer-unused")

MixerNestedOutputs(c) ==
  LET own == MixerOutputs(c)
  IN  If(OfType(own, "rawfile") # {}, "mixer-output-rawfile-not-allowed")
        \cup If(\E o \in OfType(own, "file") \cup OfType(own, "rawfile") : On(o.set, "split_on_transmission"),
                "mixer-output-split-on-transmission-not-allowed")
        \cup If(\E o \in OfType(own, "pulse") : ~Has(o.set, "stream_name"),
                "mixer-output-pulse-stream-name-required")

MixerValues(c) ==
  LET inputs == Inputs(c)
  IN  If(\E o \in OfType(ChannelOutputs(c), "mixer") : ~Balanced(o.set),
         "mixer-output-balance-out-of-range")
        \cup If(\E m \in Mixers(c) : Or(m.set, "reserve_inputs", 0) < 0, "mixer-reserve-inputs-negative")
        \cup If(\E r \in ToSet(inputs) : r["listen_path"] = Empty, "mixer-remote-input-listen-path-empty")
        \cup If(\E r \in ToSet(inputs) : r["stream_id"] < 0, "mixer-remote-input-stream-id-negative")
        \cup If(\E r \in ToSet(inputs) : ~Balanced(r), "mixer-remote-input-balance-out-of-range")
        \* of all mixers together
        \cup If(\E i, j \in DOMAIN inputs : i < j /\ inputs[i]["listen_path"] = inputs[j]["listen_path"]
                                              /\ inputs[i]["stream_id"] = inputs[j]["stream_id"],
                "mixer-remote-input-duplicate-stream-id")
-----------------------------------------------------------------------------
(* checks/globals *)

Globals(c) ==
  If(Has(c.set, "fft_size") /\ c.set["fft_size"] \notin {2^n : n \in 8..13}, "fft-size-invalid")
    \cup If(Or(c.set, "shout_metadata_delay", 0) \notin 0..32, "shout-metadata-delay-out-of-range")
    \cup If(Has(c.set, "stats_http_address") # Has(c.set, "stats_http_port"),
            "stats-http-address-and-port-must-be-set-together")
    \cup If(Or(c.set, "stats_http_port", 1) \notin 1..65535, "stats-http-port-out-of-range")
    \cup If(Or(c.set, "control_socket_path", 1) = Empty, "control-socket-path-empty")
    \cup If(Or(c.set, "stats_update_interval", 1) <= 0, "stats-update-interval-non-positive")
-----------------------------------------------------------------------------
(* checks/fork_v6 *)

SplitTimes == {"split_min_file_time", "split_max_file_time", "split_max_idle_time"}
SplitDefaults ==
  [split_min_file_time |-> 10, split_max_file_time |-> 36000, split_max_idle_time |-> 5,
   split_tx_drop_shorter_than |-> 0]
SplitGlobals(c) == [k \in DOMAIN SplitDefaults |-> Or(c.set, k, SplitDefaults[k])]
SplitOf(c, o) == [k \in DOMAIN SplitDefaults |-> Or(o.set, k, SplitGlobals(c)[k])]

ValidSplitTimes(t) ==
  /\ t.split_min_file_time >= 10 /\ t.split_max_file_time > t.split_min_file_time
  /\ t.split_max_idle_time > 0
ValidSplitDrop(t) ==
  t.split_tx_drop_shorter_than >= 0 /\ t.split_tx_drop_shorter_than < t.split_max_file_time

DropKeys == {"split_tx_drop_shorter_than", "split_max_file_time"}

\* mutant: an output's maximum is not held against the drop it takes from the globals
DropChecked(o) == Has(o.set, "split_tx_drop_shorter_than")

\* An output's drop is checked if it sets either of the two times it is about.
DropOverridden(o) == AnyOf(o.set, DropKeys)

SplitFileSettings(c) ==
  LET Files(outputs) == OfType(outputs, "file") \cup OfType(outputs, "rawfile")
      extra == SplitTimes \cup {"split_tx_drop_shorter_than", "split_include_transmission_start"}
  IN  If(\/ AnyOf(c.set, SplitTimes) /\ ~ValidSplitTimes(SplitGlobals(c))
         \/ \E o \in Files(ChannelOutputs(c)) : AnyOf(o.set, SplitTimes) /\ ~ValidSplitTimes(SplitOf(c, o)),
         "split-file-times-invalid")
        \cup If(\/ Has(c.set, "split_tx_drop_shorter_than") /\ ~ValidSplitDrop(SplitGlobals(c))
                \/ \E o \in Files(ChannelOutputs(c)) : DropOverridden(o) /\ ~ValidSplitDrop(SplitOf(c, o)),
                "split-tx-drop-invalid")
        \cup If(\E o \in Files(MixerOutputs(c)) : AnyOf(o.set, extra),
                "mixer-output-split-settings-not-allowed")
        \cup If(\E o \in Files(ChannelOutputs(c)) :
                  ~On(o.set, "split_on_transmission") /\ AnyOf(o.set, extra),
                "split-settings-ignored-without-split-on-transmission")

PpmRanges ==
  [auto_ppm_interval |-> 5..86400, auto_ppm_max_ppm |-> 1..100, auto_ppm_max_step |-> 1..100,
   auto_ppm_min_voters |-> 1..32, auto_ppm_deadband_hz |-> 0..1000]

\* mutant: places of disabled channels are not counted
ActiveVoters(d) == Cardinality(InUse(d.channels)) + Max({0, Or(d.set, "reserve_channels", 0)})

\* Disabled channels have a place, too; a negative reserve counts as none.
VoterCapacity(d) == Len(d.channels) + Max({0, Or(d.set, "reserve_channels", 0)})

MinVoters(d) ==
  LET voters == Or(d.set, "auto_ppm_min_voters", 1)
  IN  IF ~Has(d.set, "auto_ppm_min_voters") \/ Off(d.set) \/ voters \notin PpmRanges.auto_ppm_min_voters
        THEN {}
      ELSE IF IsScanDevice(d) THEN If(voters > 1, "auto-ppm-min-voters-scan")
      ELSE If(voters > VoterCapacity(d), "auto-ppm-min-voters-over-capacity")

MaxPpm(d) == Or(d.set, "auto_ppm_max_ppm", 100)

AutoPpm(d) ==
  LET set == DOMAIN PpmRanges \cap DOMAIN d.set
  IN  IF ~Has(d.set, "auto_ppm") THEN If(set # {}, "auto-ppm-settings-ignored")
      ELSE MinVoters(d)
             \cup If(d.set["type"] # "rtlsdr", "auto-ppm-driver-unsupported")
             \cup If(\E k \in set : d.set[k] \notin PpmRanges[k], "auto-ppm-param-out-of-range")
             \cup If(MaxPpm(d) >= 1 /\ Abs(Or(d.set, "correction", 0)) > MaxPpm(d),
                     "auto-ppm-correction-outside-limit")

\* Every group keeps the settings the panel does not know.
UnknownSettings(c) ==
  LET groups == {c.set} \cup {d.set : d \in ToSet(c.devices)} \cup {m.set : m \in Mixers(c)}
                  \cup ToSet(Inputs(c)) \cup {o.set : o \in Outputs(c)}
                  \cup UNION {ToSet(o.rdio) : o \in OfType(Outputs(c), "file")}
  IN  If(\E ch \in Channels(c) : Has(ch.set, "squelch"), "squelch-deprecated")
        \cup If((\E g \in groups : AnyOf(g, {"not_known", "squelch"}))
                  \/ \E ch \in Channels(c) : Has(ch.set, "not_known"), "unknown-setting-preserved")
-----------------------------------------------------------------------------
(* validate_config: what all these find; the whole-number check is ConfText's *)

WarningCodes ==
  {"frequency-out-of-window", "scan-list-too-long", "ctcss-non-positive", "ctcss-near-standard-tone",
   "enabled-false-with-disable", "post-write-script-runs-arbitrary-command",
   "split-settings-ignored-without-split-on-transmission", "auto-ppm-settings-ignored",
   "squelch-deprecated", "unknown-setting-preserved"}

Issues(c) ==
  FrequencyWindow(c) \cup BinCollisions(c) \cup ScanMode(c) \cup DisableCascade(c)
    \cup (UNION {RequiredSettings(d) \cup DeviceNumbers(d) \cup AutoPpm(d) : d \in ToSet(c.devices)})
    \cup CtcssTones(c) \cup FilterCutoffs(c) \cup Modulation(c) \cup ChannelValues(c)
    \cup EnabledDisableRedundant(c) \cup RdioScanner(c) \cup OutputValues(c) \cup MixerRouting(c)
    \cup MixerNestedOutputs(c) \cup MixerValues(c) \cup Globals(c) \cup SplitFileSettings(c)
    \cup UnknownSettings(c)

Errors(c) == Issues(c) \ WarningCodes
-----------------------------------------------------------------------------
(* checks/fork_features: what the installed rtl_airband lacks *)

Needs(g, feature, keys) == {<<feature, k>> : k \in keys \cap DOMAIN g}

Each(items, feature, keys) == UNION {Needs(x.set, feature, keys) : x \in items}

\* A disabled file or channel is told of, too.
NeededFeatures(c) ==
  LET files == OfType(Outputs(c), "file")
  IN  Needs(c.set, "control_socket", {"control_socket_path"})
        \cup Needs(c.set, "stats_http", {"stats_http_address", "stats_http_port"})
        \cup Needs(c.set, "rdio_scanner", {"rdio_scanner_queue_depth"})
        \cup Each(ToSet(c.devices), "auto_ppm", {"auto_ppm"})
        \cup Each(ToSet(c.devices), "auto_ppm_voting", {"auto_ppm_min_voters", "auto_ppm_deadband_hz"})
        \cup Each(ToSet(c.devices), "usb_chunk_sizing", {"buffer_size"})
        \cup Each(ToSet(c.devices), "reserve", {"reserve_channels"})
        \cup Each(Mixers(c), "reserve", {"reserve_inputs"})
        \cup Each({x \in Channels(c) \cup Mixers(c) : ~Or(x.set, "enabled", TRUE)},
                  "control_socket", {"enabled"})
        \cup Each(files, "post_write_script", {"post_write_script", "min_rx_seconds"})
        \cup Each(OfType(Outputs(c), "icecast"), "send_tx_tags", {"send_tx_tags"})
        \cup Each(OfType(Outputs(c), "udp_stream"), "fork", {"bit_depth"})
        \cup If(\E o \in files : o.rdio # <<>>, <<"rdio_scanner", "rdio_scanner">>)
        \cup If(Inputs(c) # <<>>, <<"mixer_remote", "remote_inputs">>)

FeatureWarnings(c, features) == {n \in NeededFeatures(c) : n[1] \notin features}

\* What it will not start with.
FeatureErrors(c, features) ==
  If(/\ "mixer_remote" \notin features
     /\ \E o \in OfType(Outputs(c), "mixer_remote") : ~Off(o.set),
     "needs-fork-feature")
    \cup If("fork" \in features /\ \E d \in InUse(c.devices) :
                d.set["type"] \in {"mirisdr", "soapysdr"} \ features,
            "device-driver-not-built")
-----------------------------------------------------------------------------
(* What rtl_airband will not start with, by the hints, and no check finds *)

ActiveOutputs(c) ==
  UNION {UNION {InUse(ch.outputs) : ch \in InUse(d.channels)} : d \in InUse(c.devices)}

\* The mixers that get audio from a channel, or would if they were in use.
Fed(c) == {o.set["name"] : o \in OfType(ActiveOutputs(c), "mixer")}
MixersInUse(c) == {m.name : m \in InUse(c.mixers)}

\* An output into a mixer that is disabled, a mixer with no inputs.
Unstartable(c) ==
  {<<"output", n>> : n \in Fed(c) \ MixersInUse(c)}
    \cup {<<"mixer", n>> : n \in MixersInUse(c) \ Fed(c)}
-----------------------------------------------------------------------------
(* Inputs *)

Maybe(k, vs) == {<<>>} \cup {k :> v : v \in vs}
Combine(F, G) == {f @@ g : f \in F, g \in G}

Output(ty, g) == [type |-> ty, set |-> g, rdio |-> <<>>]
Plain == Output("pulse", "stream_name" :> 1)
At(freq, outputs) == [scan |-> FALSE, set |-> "freq" :> freq, lists |-> <<>>, outputs |-> outputs]
Scan(freqs, outputs) == [scan |-> TRUE, set |-> <<>>, lists |-> "freqs" :> freqs, outputs |-> outputs]
Dongle(g, channels) ==
  [set |-> g @@ ("type" :> "rtlsdr") @@ ("gain" :> 1) @@ ("index" :> 0) @@ ("centerfreq" :> 100000)
             @@ ("device_string" :> 1),
   channels |-> channels]
OfDevices(g, devices) == [set |-> g, devices |-> devices, mixers |-> <<>>]

SplitGroups ==
  Combine(Maybe("split_min_file_time", {5, 20}),
       Combine(Maybe("split_max_file_time", {15, 40}),
            Combine(Maybe("split_max_idle_time", {0}), Maybe("split_tx_drop_shorter_than", {17, 50}))))
SplitConfigs ==
  {OfDevices(g, <<Dongle(<<>>, <<At(100000, <<Output("file", h)>>)>>)>>) : g, h \in SplitGroups}

BinConfigs ==
  {OfDevices(g, <<Dongle(<<>>, [i \in 1..3 |-> At(100000 + f[i], <<Plain>>)])>>) :
     g \in Maybe("fft_size", {1024}),
     f \in [1..3 -> {-1280, -1279, 0, 1, 2, 3, 6, 1280, 1283}]}

Mixer(g, outputs) == [name |-> 1, set |-> g, outputs |-> outputs, remote_inputs |-> <<>>]
DisableConfigs ==
  {[set |-> <<>>, mixers |-> ms,
    devices |-> <<Dongle(d, IF Has(d, "mode") THEN <<Scan(<<100001>>, <<o, Plain>>)>>
                            ELSE <<At(100001, <<o, Plain>>), At(100100, <<Plain>>)>>),
                  Dongle("type" :> "soapysdr", <<At(100000, <<Plain>>)>>)>>] :
     o \in {Output("file", <<>>), Output("mixer", "name" :> 1), Output("mixer_remote", "stream_id" :> 1)},
     ms \in {<<>>} \cup {<<Mixer(g, <<Plain>>)>> : g \in Maybe("disable", {TRUE})},
     d \in Combine(Maybe("type", {"mirisdr"}), Combine(Maybe("mode", {"scan"}),
            Combine(Maybe("auto_ppm", {TRUE}), Combine(Maybe("auto_ppm_min_voters", {2, 3}),
                 Maybe("reserve_channels", {1})))))}

FeatureSets == {{}, {"fork"}, {"fork", "mixer_remote", "soapysdr"}}

Disabled(g) == [k \in DOMAIN g \cup {"disable"} |-> IF k = "disable" THEN TRUE ELSE g[k]]

\* The configs with one more thing of c disabled.
Disabling(c) ==
  {[c EXCEPT !.devices[i].set = Disabled(@)] : i \in DOMAIN c.devices}
    \cup {[c EXCEPT !.mixers[i].set = Disabled(@)] : i \in DOMAIN c.mixers}
    \cup (UNION {{[c EXCEPT !.devices[i].channels[j].set = Disabled(@)] :
                    j \in DOMAIN c.devices[i].channels} : i \in DOMAIN c.devices})
    \cup (UNION {UNION {{[c EXCEPT !.devices[i].channels[j].outputs[k].set = Disabled(@)] :
                           k \in DOMAIN c.devices[i].channels[j].outputs} :
                          j \in DOMAIN c.devices[i].channels} : i \in DOMAIN c.devices})
-----------------------------------------------------------------------------
\* A config is validated; nothing of it is kept.
CheckInit(configs, builds) == config \in configs /\ build \in builds
-----------------------------------------------------------------------------
(* Properties *)

\* The split times that each output of an accepted config ends up with, its own, the
\* config's or the default, fit together.
SplitTimesFit ==
  \A o \in OfType(ChannelOutputs(config), "file") :
    Errors(config) = {} => ValidSplitTimes(SplitOf(config, o)) /\ ValidSplitDrop(SplitOf(config, o))

\* The channels of a device that is not scanning are on different bins unless they are
\* on the same frequency.
OneFrequencyPerBin ==
  \A d \in {x \in ToSet(config.devices) : ~IsScanDevice(x)} :
    Errors(config) = {} => \A x, y \in ToSet(d.channels) :
      Bin(config, d, x) = Bin(config, d, y) => x.set["freq"] = y.set["freq"]

\* What the validator passes over: a mixer is disabled that outputs still route into,
\* or the last that routed into a mixer is.
DisablesFedMixer(c, e) == Fed(e) \cap (MixersInUse(c) \ MixersInUse(e)) # {}
DisablesLastFeeder(c, e) == MixersInUse(e) \cap (Fed(c) \ Fed(e)) # {}

\* Of a config with a device, a channel, an output or a mixer disabled the validator
\* says nothing new, but for there being too little left, and it asks no more of the
\* installed build.  Nor is there anything new that rtl_airband will not start with,
\* except in the two cases named, where it will not (hints.rs:231 and 344, mixers.rs:40
\* and hints.rs:349) and the validator's silence is no promise.
DisablingIsSafe ==
  \A e \in Disabling(config) :
    /\ FeatureWarnings(e, build) \subseteq FeatureWarnings(config, build)
    /\ Errors(e) \cup FeatureErrors(e, build) \subseteq
         Errors(config) \cup FeatureErrors(config, build)
           \cup {"no-active-devices", "no-active-channels", "no-active-outputs", "no-active-mixer-outputs"}
    /\ ~DisablesFedMixer(config, e) /\ ~DisablesLastFeeder(config, e) =>
         Unstartable(e) \subseteq Unstartable(config)
=============================================================================
