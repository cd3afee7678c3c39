-------------------------------- MODULE ConfText --------------------------------
(***************************************************************************)
(* The config model and its text (airband-config/src/mapper.rs, with the    *)
(* literals of ast.rs and parser.rs): for every kind of group which         *)
(* settings are read and how, which are written and how, what becomes of    *)
(* the settings the panel does not know, and which numbers the validator's  *)
(* whole-number check (airband-validate/src/checks/whole_numbers.rs) lets   *)
(* through.  Groups are taken one at a time: a nested group is a token.     *)
(*                                                                          *)
(* Numbers are in tenths, so that a fraction is possible; strings are       *)
(* tokens, and the text of a number is the token with that number.  The     *)
(* upload block of a file output that is switched off in the panel is a     *)
(* value of its own, that no text has.                                      *)
(***************************************************************************)
EXTENDS Integers, Sequences, Lists

CONSTANTS
  Order,      \* for each kind: the order in which its settings are written
  Texts,      \* for each kind: groups as they may be written in a config file
  Models      \* for each kind: groups as the editor may send them

VARIABLE
  input       \* one of those; everything else here is a function of it

Scalar(ty, v) == [ty |-> ty, v |-> v]
Num(v) == Scalar("number", v)
List(items) == [ty |-> "list", items |-> items]
Setting(key, value) == [key |-> key, value |-> value]
NotRead == [ty |-> "error"]

Misspelt == 0      \* a string that is no mode and no TLS mode
SoapyType == 1     \* the device type
Whole(v) == v % 10 = 0
-----------------------------------------------------------------------------
(* What the mapper reads: by how it is read, the settings of a kind *)

SplitKeys ==
  {"split_min_file_time", "split_max_file_time", "split_max_idle_time",
   "split_tx_drop_shorter_than"}
FileFlags ==
  {"continuous", "split_on_transmission", "include_freq", "append", "dated_subdirectories",
   "disable", "split_include_transmission_start"}
FileNames == {"type", "directory", "filename_template"}

GlobalReads ==
  [groups |-> {"devices"}, group |-> {"mixers"},
   bool |-> {"multiple_demod_threads", "multiple_output_threads", "localtime",
             "log_scan_activity", "split_include_transmission_start"},
   string |-> {"stats_filepath", "pidfile", "stats_http_address", "control_socket_path"},
   number |-> SplitKeys \cup
     {"fft_size", "shout_metadata_delay", "tau", "stats_http_port",
      "rdio_scanner_queue_depth", "stats_update_interval"}]

DeviceReads ==
  [groups |-> {"channels"}, mode |-> {"mode"}, number_or_string |-> {"gain"},
   string |-> {"type", "serial", "device_string", "antenna"},
   bool |-> {"auto_ppm", "disable"},
   hz |-> {"centerfreq", "sample_rate"},
   number |-> {"index", "correction", "auto_ppm_interval", "auto_ppm_max_ppm",
               "auto_ppm_max_step", "auto_ppm_min_voters", "auto_ppm_deadband_hz",
               "bandwidth", "reserve_channels", "tau", "buffers", "buffer_size",
               "num_buffers", "channel"}]

MultichannelReads ==
  [groups |-> {"outputs"}, hz |-> {"freq", "bandwidth"},
   string |-> {"label", "modulation"}, bool |-> {"disable", "enabled"},
   number |-> {"afc", "ampfactor", "ctcss", "notch", "notch_q", "highpass", "lowpass",
               "tau", "squelch_threshold", "squelch_snr_threshold"}]

ScanReads ==
  [groups |-> {"outputs"}, hz_list |-> {"freqs"}, hz_or_list |-> {"bandwidth"},
   strings |-> {"labels", "modulations"},
   string |-> {"modulation"}, bool |-> {"disable", "enabled"},
   number |-> {"afc", "highpass", "lowpass", "tau"},
   number_or_list |-> {"ampfactor", "ctcss", "notch", "notch_q", "squelch_threshold",
                       "squelch_snr_threshold"}]

MixerReads ==
  [groups |-> {"outputs", "remote_inputs"}, bool |-> {"disable", "enabled"},
   number |-> {"highpass", "lowpass", "reserve_inputs"}]

RemoteInputReads ==
  [string |-> {"listen_path", "label"}, number |-> {"stream_id", "ampfactor", "balance"}]

RdioReads ==
  [string |-> {"server", "api_key", "system_label", "talkgroup_label", "talkgroup_tag",
               "talkgroup_group"},
   bool |-> {"use_tls", "delete_after_upload"},
   number |-> {"port", "talkgroup_id", "system_id", "source_id", "timeout_ms", "max_retries"}]

PulseReads ==
  [string |-> {"type", "server", "sink", "name", "stream_name"},
   bool |-> {"continuous", "disable"}]

FileReads ==
  [string |-> FileNames \cup {"post_write_script"}, bool |-> FileFlags,
   number |-> SplitKeys \cup {"min_rx_seconds"}, upload |-> {"rdio_scanner"}]

RawFileReads == [string |-> FileNames, bool |-> FileFlags, number |-> SplitKeys]

IcecastReads ==
  [string |-> {"type", "server", "mountpoint", "username", "password", "name", "genre",
               "description"},
   number |-> {"port"}, tls |-> {"tls"},
   bool |-> {"send_scan_freq_tags", "send_tx_tags", "disable"}]

UdpStreamReads ==
  [string |-> {"type", "dest_address"}, port_text |-> {"dest_port"},
   bit_depth |-> {"bit_depth"}, number |-> {"sample_rate"},
   bool |-> {"continuous", "disable"}]

MixerOutputReads ==
  [string |-> {"type", "name"}, number |-> {"ampfactor", "balance"}, bool |-> {"disable"}]

MixerRemoteReads ==
  [string |-> {"type", "dest_path"}, number |-> {"stream_id"}, bool |-> {"disable"}]

Reads ==
  [global |-> GlobalReads, device |-> DeviceReads, multichannel |-> MultichannelReads,
   scan |-> ScanReads, mixer_group |-> MixerReads, remote_input |-> RemoteInputReads,
   rdio |-> RdioReads, pulse |-> PulseReads, file |-> FileReads, rawfile |-> RawFileReads,
   icecast |-> IcecastReads, udp_stream |-> UdpStreamReads, mixer |-> MixerOutputReads,
   mixer_remote |-> MixerRemoteReads]

Kinds == DOMAIN Reads

\* A setting that the model has and the text does not: the switch of an upload.
PanelOnly(kind) == IF kind = "rdio" THEN {"disable"} ELSE {}

KeysOf(kind) == UNION {Reads[kind][form] : form \in DOMAIN Reads[kind]}
FormOf(kind, k) == CHOOSE form \in DOMAIN Reads[kind] : k \in Reads[kind][form]

Required ==
  [global |-> {"devices", "multiple_demod_threads", "multiple_output_threads",
               "stats_filepath", "localtime"},
   device |-> {"channels", "type"},
   multichannel |-> {"outputs", "freq"},
   scan |-> {"outputs", "freqs"},
   mixer_group |-> {"outputs"},
   remote_input |-> {"listen_path", "stream_id"},
   rdio |-> {"server", "port", "api_key", "talkgroup_id"},
   pulse |-> {"type"},
   file |-> FileNames,
   rawfile |-> FileNames,
   icecast |-> {"type", "server", "port", "mountpoint", "username", "password"},
   udp_stream |-> {"type", "dest_address", "dest_port"},
   mixer |-> {"type", "name"},
   mixer_remote |-> {"type", "dest_path", "stream_id"}]
-----------------------------------------------------------------------------
(* Reading a group *)

IsNumber(l) == l.ty \in {"int", "int64", "float"}

\* to_hz: a float literal is MHz, an integer one is Hz.
ToHz(l) == IF l.ty = "float" THEN Num(l.v * 1000000) ELSE Num(l.v)

ReadScalar(form, l) ==
  CASE form = "hz" /\ IsNumber(l) -> ToHz(l)
    [] form \in {"number", "number_or_string"} /\ IsNumber(l) -> Num(l.v)
    [] form = "bit_depth" /\ IsNumber(l) /\ l.v \in {80, 160, 320} -> Num(l.v)
    [] form = "port_text" /\ IsNumber(l) -> Scalar("string", l.v)
    [] form \in {"string", "number_or_string", "port_text"} /\ l.ty = "string" -> l
    [] form \in {"mode", "tls"} /\ l.ty = "string" /\ l.v # Misspelt -> l
    [] form \in {"bool", "group"} /\ l.ty = form -> l
    [] form = "upload" /\ l.ty = "group" -> l
    [] OTHER -> NotRead

ListOnly == {"hz_list", "strings", "groups"}
ListForms == ListOnly \cup {"hz_or_list", "number_or_list"}

\* How one value is read, or every item of a list.
ItemForm(form) ==
  CASE form \in {"hz_list", "hz_or_list"} -> "hz"
    [] form = "number_or_list" -> "number"
    [] form = "strings" -> "string"
    [] form = "groups" -> "group"
    [] OTHER -> form

ReadAs(form, l) ==
  IF l.ty # "list"
    THEN IF form \in ListOnly THEN NotRead ELSE ReadScalar(ItemForm(form), l)
  ELSE IF \/ form \notin ListForms
          \/ \E i \in DOMAIN l.items : ReadScalar(ItemForm(form), l.items[i]) = NotRead
    THEN NotRead
  ELSE List([i \in DOMAIN l.items |-> ReadScalar(ItemForm(form), l.items[i])])

Occurs(t, k) == \E i \in DOMAIN t : t[i].key = k

\* mutant: the last of that name
LastOfName(t, k) == CHOOSE i \in DOMAIN t : t[i].key = k /\ \A j \in (i + 1)..Len(t) : t[j].key # k

\* Reader::find: the first of that name.
First(t, k) == CHOOSE i \in DOMAIN t : t[i].key = k /\ \A j \in 1..(i - 1) : t[j].key # k

Unread == [ok |-> FALSE]
Group(known, unknown) == [ok |-> TRUE, known |-> known, unknown |-> unknown]

\* to_channel tells the two kinds of channel apart by these.
Ambiguous(kind, t) ==
  kind \in {"multichannel", "scan"} /\ Occurs(t, "freq") /\ Occurs(t, "freqs")

\* The model of a group of the given kind, or Unread.
ToDomain(kind, t) ==
  LET present == {k \in KeysOf(kind) : Occurs(t, k)}
      known == [k \in present |-> ReadAs(FormOf(kind, k), t[First(t, k)].value)]
      taken == {First(t, k) : k \in present}
  IN  IF \/ ~(Required[kind] \subseteq present)
         \/ \E k \in present : known[k] = NotRead
         \/ Ambiguous(kind, t)
        THEN Unread
        ELSE Group(known, ItemsAt(t, DOMAIN t \ taken))
-----------------------------------------------------------------------------
(* What the mapper writes: by how its numbers are written, the settings of a kind *)

GlobalWrites ==
  [plain |-> {"multiple_demod_threads", "multiple_output_threads", "stats_filepath",
              "localtime", "pidfile", "log_scan_activity", "stats_http_address",
              "control_socket_path", "split_include_transmission_start", "devices", "mixers"},
   int |-> {"fft_size", "shout_metadata_delay", "tau", "stats_http_port",
            "rdio_scanner_queue_depth"},
   float |-> SplitKeys \cup {"stats_update_interval"}]

DeviceWrites ==
  [plain |-> {"type", "serial", "auto_ppm", "mode", "disable", "device_string", "antenna",
              "channels"},
   int |-> {"index", "gain", "centerfreq", "sample_rate", "correction",
            "auto_ppm_interval", "auto_ppm_max_ppm", "auto_ppm_max_step",
            "auto_ppm_min_voters", "auto_ppm_deadband_hz", "bandwidth",
            "reserve_channels", "tau", "buffers", "buffer_size", "num_buffers", "channel"},
   float |-> {}]

MultichannelWrites ==
  [plain |-> {"label", "modulation", "disable", "enabled", "outputs"},
   int |-> {"freq", "bandwidth", "afc", "highpass", "lowpass", "tau",
            "squelch_threshold", "squelch_snr_threshold"},
   float |-> {"ampfactor", "ctcss", "notch", "notch_q"}]

ScanWrites ==
  [plain |-> {"labels", "modulation", "modulations", "disable", "enabled", "outputs"},
   int |-> {"freqs", "bandwidth", "afc", "highpass", "lowpass", "tau", "squelch_threshold"},
   float |-> {"ampfactor", "ctcss", "notch", "notch_q", "squelch_snr_threshold"}]

MixerWrites ==
  [plain |-> {"disable", "enabled", "remote_inputs", "outputs"},
   int |-> {"highpass", "lowpass", "reserve_inputs"}, float |-> {}]

RemoteInputWrites ==
  [plain |-> {"listen_path", "label"}, int |-> {"stream_id"}, float |-> {"ampfactor", "balance"}]

RdioWrites ==
  [plain |-> {"server", "api_key", "use_tls", "system_label", "talkgroup_label",
              "talkgroup_tag", "talkgroup_group", "delete_after_upload"},
   int |-> {"port", "talkgroup_id", "system_id", "source_id", "timeout_ms", "max_retries"},
   float |-> {}]

PulseWrites ==
  [plain |-> {"type", "server", "sink", "name", "stream_name", "continuous", "disable"},
   int |-> {}, float |-> {}]

FileWrites ==
  [plain |-> FileNames \cup FileFlags \cup {"post_write_script", "rdio_scanner"},
   int |-> {}, float |-> SplitKeys \cup {"min_rx_seconds"}]

RawFileWrites == [plain |-> FileNames \cup FileFlags, int |-> {}, float |-> SplitKeys]

IcecastWrites ==
  [plain |-> {"type", "server", "mountpoint", "username", "password", "name", "genre",
              "description", "send_scan_freq_tags", "send_tx_tags", "tls", "disable"},
   int |-> {"port"}, float |-> {}]

UdpStreamWrites ==
  [plain |-> {"type", "dest_address", "dest_port", "continuous", "disable"},
   int |-> {"bit_depth", "sample_rate"}, float |-> {}]

MixerOutputWrites ==
  [plain |-> {"type", "name", "disable"}, int |-> {}, float |-> {"ampfactor", "balance"}]

MixerRemoteWrites ==
  [plain |-> {"type", "dest_path", "disable"}, int |-> {"stream_id"}, float |-> {}]

Writes ==
  [global |-> GlobalWrites, device |-> DeviceWrites, multichannel |-> MultichannelWrites,
   scan |-> ScanWrites, mixer_group |-> MixerWrites, remote_input |-> RemoteInputWrites,
   rdio |-> RdioWrites, pulse |-> PulseWrites, file |-> FileWrites, rawfile |-> RawFileWrites,
   icecast |-> IcecastWrites, udp_stream |-> UdpStreamWrites, mixer |-> MixerOutputWrites,
   mixer_remote |-> MixerRemoteWrites]

WriterOf(kind, k) == CHOOSE writer \in {"plain", "int", "float"} : k \in Writes[kind][writer]
WrittenKeys(kind) == UNION {Writes[kind][writer] : writer \in {"plain", "int", "float"}}

\* Every setting of a kind that is written has its place.
ASSUME OrderAssumption ==
  \A kind \in Kinds :
    /\ Order[kind] \in Seq(WrittenKeys(kind))
    /\ WrittenKeys(kind) = {Order[kind][i] : i \in DOMAIN Order[kind]}
    /\ \A i, j \in DOMAIN Order[kind] : Order[kind][i] = Order[kind][j] => i = j

\* The literal that a number is written as: an integer writer's fraction becomes a
\* float, a float writer's whole number keeps a decimal point.
NumberText(writer, v) == Scalar(IF writer = "float" \/ ~Whole(v) THEN "float" ELSE "int", v)
ScalarText(writer, x) == IF x.ty = "number" THEN NumberText(writer, x.v) ELSE x

Text(writer, x) ==
  IF x.ty = "list" THEN List([i \in DOMAIN x.items |-> ScalarText(writer, x.items[i])])
  ELSE ScalarText(writer, x)

\* Written after what the panel does not know.
NestedLists == {"devices", "mixers", "channels", "outputs", "remote_inputs"}

Settings(kind, d, places) ==
  LET set == [i \in places |->
                LET k == Order[kind][i] IN Setting(k, Text(WriterOf(kind, k), d.known[k]))]
  IN  ItemsAt(set, places)

\* Not written: an empty list of remote inputs, an upload that is switched off.
LeftOut(k, x) == \/ k = "remote_inputs" /\ x.items = <<>>
                 \/ x.ty = "disabled"

\* The settings of a model: the known ones, the unknown ones as they were, and the
\* nested lists.
FromDomain(kind, d) ==
  LET written == {i \in DOMAIN Order[kind] :
                    LET k == Order[kind][i] IN k \in DOMAIN d.known /\ ~LeftOut(k, d.known[k])}
      nested == {i \in written : Order[kind][i] \in NestedLists}
  IN  Settings(kind, d, written \ nested) \o d.unknown \o Settings(kind, d, nested)

Saved(kind, t) == FromDomain(kind, ToDomain(kind, t))
-----------------------------------------------------------------------------
(* checks/whole_numbers *)

WholeKeys ==
  [global |-> {"fft_size", "shout_metadata_delay", "tau", "stats_http_port",
               "rdio_scanner_queue_depth"},
   device |-> {"index", "centerfreq", "sample_rate", "correction", "auto_ppm_interval",
               "auto_ppm_max_ppm", "auto_ppm_max_step", "auto_ppm_min_voters",
               "auto_ppm_deadband_hz", "bandwidth", "reserve_channels", "tau", "buffers",
               "buffer_size", "num_buffers", "channel"},
   multichannel |-> {"freq", "bandwidth", "afc", "highpass", "lowpass", "tau",
                     "squelch_threshold"},
   scan |-> {"freqs", "bandwidth", "afc", "highpass", "lowpass", "tau", "squelch_threshold"},
   mixer_group |-> {"highpass", "lowpass", "reserve_inputs"},
   remote_input |-> {"stream_id"},
   rdio |-> {"port", "system_id", "talkgroup_id", "source_id", "timeout_ms", "max_retries"},
   pulse |-> {}, file |-> {}, rawfile |-> {}, mixer |-> {},
   icecast |-> {"port"}, udp_stream |-> {"bit_depth", "sample_rate"},
   mixer_remote |-> {"stream_id"}]

\* mutant: the items of a list are not looked at
ScalarsOnly(kind, d) ==
  \A k \in WholeKeys[kind] \cap DOMAIN d.known :
    \/ k = "correction" /\ d.known["type"].v = SoapyType
    \/ d.known[k].ty = "list" \/ Whole(d.known[k].v)

\* whole_numbers finds nothing to object to.
WholeNumbers(kind, d) ==
  \A k \in WholeKeys[kind] \cap DOMAIN d.known :
    \/ k = "correction" /\ d.known["type"].v = SoapyType
    \/ IF d.known[k].ty = "list" THEN \A i \in DOMAIN d.known[k].items : Whole(d.known[k].items[i].v)
       ELSE Whole(d.known[k].v)
-----------------------------------------------------------------------------
(* The inputs *)

IsSequence(items) == items \in Seq({items[i] : i \in DOMAIN items})

\* parse_number: an integer has no fraction.
IsLiteralScalar(l) ==
  /\ l = Scalar(l.ty, l.v) /\ l.v \in Int
  /\ l.ty \in {"int", "int64", "float", "string", "bool", "group"}
  /\ l.ty \in {"int", "int64"} => Whole(l.v)

IsSetting(s) ==
  /\ s = Setting(s.key, s.value)
  /\ IF s.value.ty # "list" THEN IsLiteralScalar(s.value)
     ELSE /\ s.value = List(s.value.items) /\ IsSequence(s.value.items)
          /\ \A i \in DOMAIN s.value.items : IsLiteralScalar(s.value.items[i])

\* A list of groups is there once; of anything else a second one is not known.
IsText(t) ==
  /\ IsSequence(t) /\ \A i \in DOMAIN t : IsSetting(t[i])
  /\ \A i, j \in DOMAIN t : t[i].key = t[j].key /\ t[i].key \in NestedLists => i = j

IsSentScalar(form, x) ==
  /\ x = Scalar(x.ty, x.v) /\ x.v \in Int
  /\ \/ form \in {"hz", "number", "number_or_string"} /\ x.ty = "number"
     \/ form = "bit_depth" /\ x.ty = "number" /\ x.v \in {80, 160, 320}
     \/ form \in {"string", "number_or_string", "port_text"} /\ x.ty = "string"
     \/ form \in {"mode", "tls"} /\ x.ty = "string" /\ x.v # Misspelt
     \/ form \in {"bool", "group"} /\ x.ty = form
     \/ form = "upload" /\ x.ty \in {"group", "disabled"}

IsSent(form, x) ==
  IF x.ty # "list" THEN form \notin ListOnly /\ IsSentScalar(ItemForm(form), x)
  ELSE /\ form \in ListForms /\ x = List(x.items) /\ IsSequence(x.items)
       /\ \A i \in DOMAIN x.items : IsSentScalar(ItemForm(form), x.items[i])

\* The settings that the panel does not know come from a text: of its own ones only a
\* second one, and not the one that makes a channel of the other kind.  An upload
\* whose switch is set is not written at all: that is in the file output's model.
IsModel(kind, d) ==
  /\ d = Group([k \in DOMAIN d.known |-> d.known[k]], d.unknown)
  /\ Required[kind] \subseteq DOMAIN d.known /\ DOMAIN d.known \subseteq KeysOf(kind) \cup PanelOnly(kind)
  /\ \A k \in DOMAIN d.known :
       IF k \in KeysOf(kind) THEN IsSent(FormOf(kind, k), d.known[k])
       ELSE d.known[k] = Scalar("bool", 0)
  /\ IsSequence(d.unknown) /\ \A i \in DOMAIN d.unknown : IsSetting(d.unknown[i])
  /\ \A i \in DOMAIN d.unknown :
       LET k == d.unknown[i].key
       IN  /\ k \in KeysOf(kind) => k \in DOMAIN d.known \ NestedLists
           /\ kind \in {"multichannel", "scan"} => k \notin {"freq", "freqs"} \ KeysOf(kind)

ASSUME InputsAssumption ==
  \A kind \in Kinds :
    /\ \A t \in Texts[kind] : IsText(t)
    /\ \A d \in Models[kind] : IsModel(kind, d)

NoInput == [what |-> "none"]
ConfInit ==
  \E kind \in Kinds :
    \/ \E t \in Texts[kind] : input = [what |-> "text", kind |-> kind, text |-> t]
    \/ \E d \in Models[kind] : input = [what |-> "model", kind |-> kind, model |-> d]
-----------------------------------------------------------------------------
(* Properties *)

\* A model as it comes back: an empty list of remote inputs is none, and of an
\* upload neither the switch is in the text nor, when that is set, anything.
Returned(kind, d) ==
  LET empty == {k \in DOMAIN d.known : k = "remote_inputs" /\ d.known[k].items = <<>>}
      off == {k \in DOMAIN d.known : d.known[k].ty = "disabled"}
      there == DOMAIN d.known \ (empty \cup off \cup PanelOnly(kind))
  IN  Group([k \in there |-> d.known[k]], d.unknown)

\* Saving a config unchanged keeps what every setting means, first of its name or
\* not known to the panel: nothing but an empty list of remote inputs is dropped,
\* nothing taken for MHz instead of Hz or moved behind another setting of its name;
\* and a second save changes nothing.
SaveKeepsMeaning ==
  input.what = "text" =>
    LET d == ToDomain(input.kind, input.text)  s == Saved(input.kind, input.text)
    IN  d.ok => ToDomain(input.kind, s) = Returned(input.kind, d) /\ Saved(input.kind, s) = s

\* A second upload block is all that the text has when the first one is switched off.
SecondUpload(d) ==
  \E k \in DOMAIN d.known, i \in DOMAIN d.unknown :
    d.known[k].ty = "disabled" /\ d.unknown[i].key = k

\* A config that the whole-number check accepts is read back from its text as it was
\* sent, but for what is panel-only: the block of an upload that is switched off is
\* gone with all its settings (domain.rs:373-375), and so is the switch of one that
\* is on; and but for an empty list of remote inputs.  Nothing is said of a file
\* output with two upload blocks the first of which is switched off.
SavedIsReadBack ==
  input.what = "model" /\ WholeNumbers(input.kind, input.model) /\ ~SecondUpload(input.model) =>
    ToDomain(input.kind, FromDomain(input.kind, input.model)) = Returned(input.kind, input.model)
=============================================================================
