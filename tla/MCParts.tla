------------------------------- MODULE MCParts -------------------------------
(***************************************************************************)
(* The parts that share no state with the instance handlers or with each    *)
(* other, each on its own from its own initial states: `part` says which    *)
(* one a behaviour is about.                                                *)
(***************************************************************************)
EXTENDS StatsBaseline, UnitWatch, Journal, WsFeed, HardwareRates, RateLimiter,
        LivePlan, Checks, ConfText, SequencesExt, TLC

VARIABLE
  part

-----------------------------------------------------------------------------
(* LivePlan's Edits: a base with the settings of one focus put in *)

Options(k, ls) == {<<>>} \cup {k :> l : l \in ls}
Both(F, G) == {f @@ g : f \in F, g \in G}
Of(d, cs) == [set |-> d, channels |-> cs]
Channel(f, order) == [set |-> f, order |-> order]
OneChannel == <<Channel("freq" :> Int10(7), 1)>>
Socket == "control_socket_path" :> Str(1)
Config(set, devices, mixers) == [set |-> set, devices |-> devices, mixers |-> mixers]
OneDevice(D) == {Config(Socket, <<Of(d, OneChannel)>>, <<>>) : d \in D}
Drivers(ds) == {"type" :> Str(d) : d \in ds}
Modes == {"mode" :> Str(m) : m \in {0, 1}}
Values == {Int10(1), Int10(2), Float(10), Str(3)}

Spellings == {Channel("freq" :> l, 1) : l \in {Float(14), Int10(7)}}
ChannelGroups ==
  {Channel(("freq" :> Int10(7)) @@ more, 1) :
     more \in {<<>>, "ampfactor" :> Float(13),
              ("ampfactor" :> Float(14)) @@ ("enabled" :> Flag(FALSE)), "disable" :> Flag(TRUE)}}

Ports == {Channel(("freq" :> Int10(7)) @@ ("dest_port" :> l), order) :
            l \in {Int10(4), Str(4), Int10(5)}, order \in {1, 2}}

MixerGroups ==
  {[name |-> m, set |-> g] : m \in {1, 2},
     g \in Both(Options("enabled", {Flag(FALSE)}),
                Both(Options("remote_inputs", {Int10(1)}), Options("highpass", {Int10(1)})))}

Configs ==
  [none |-> {Config(<<>>, <<>>, <<>>)},
   frequency |-> OneDevice(Both(Modes, Options("centerfreq",
                   {Int10(7), Int10(9), Float(13), Float(14), Float(15), Str(1)}))),
   rate |-> OneDevice(Both(Drivers({1, 2}), Both(Modes, Options("sample_rate",
                   {Int10(5), Int10(6), Float(10), Str(1)})))),
   gain |-> OneDevice(Both(Drivers({1, 2, 3}), Options("gain", Values \cup {Float(15)}))),
   bandwidth |-> OneDevice(Both(Drivers({1, 2, 3}), Options("bandwidth", Values))),
   correction |-> OneDevice(Both(Drivers({1, 2, 3}), Options("correction", Values))),
   ppm |-> OneDevice(Both(Options("auto_ppm", {Flag(TRUE), Flag(FALSE)}),
                   Both(Options("correction", {Int10(1), Int10(2)}),
                        Options("auto_ppm_interval", {Int10(30), Float(200)})))),
   channels |->
     {Config(Socket, <<Of(d, cs)>>, <<>>) :
        d \in Options("reserve_channels", {Int10(1)}), cs \in SeqOf(ChannelGroups, 2)},
   spellings |-> {Config(Socket, <<Of(<<>>, cs)>>, <<>>) : cs \in SeqOf(Spellings, 2)},
   scan |->
     {Config(Socket, <<Of("mode" :> Str(m), <<c>>)>>, <<>>) : m \in {0, 1}, c \in ChannelGroups},
   ports |-> {Config(Socket, <<Of(<<>>, <<c>>)>>, <<>>) : c \in Ports},
   devices |->
     {Config(Socket, <<Of(d @@ ("serial" :> Str(1)), OneChannel),
                       Of(e @@ ("serial" :> Str(2)), OneChannel)>>, <<>>) :
        d, e \in Both(Options("disable", {Flag(TRUE)}), Options("antenna", {Str(1)}))},
   mixers |-> {Config(Socket, <<>>, ms) : ms \in {<<>>} \cup {<<m>> : m \in MixerGroups}},
   global |->
     {Config(g, <<Of(<<>>, <<c>>)>>, <<>>) :
        c \in {p \in Ports : p.order = 1}, g \in Both(Options("control_socket_path", {Str(Blank), Str(1)}),
                                Options("tau", {Int10(1), Int10(2)}))}]
-----------------------------------------------------------------------------
(* ConfText's Texts: a group with its required settings, one setting more or in     *)
(* place of one of those, and after it a second of the same name or one the panel   *)
(* does not know                                                                   *)

\* One after another.
SomeOrder(keys) == LET Put(k, ks) == Append(ks, k) IN FoldSet(Put, <<>>, keys)
WriteOrder == [kind \in Kinds |-> SomeOrder(WrittenKeys(kind))]

Whatever(form) ==
  CASE form = "string" -> Scalar("string", 2)
    [] form = "bool" -> Scalar("bool", 1)
    [] form \in {"hz", "number", "port_text"} -> Scalar("int", 10)
    [] form = "hz_list" -> List(<<Scalar("int", 10)>>)
    [] form = "groups" -> List(<<Scalar("group", 1)>>)

ScalarLiterals ==
  {Scalar("int", n) : n \in {-10, 10, 80}} \cup {Scalar("int64", 20)}
    \cup {Scalar("float", n) : n \in {-15, 10, 25}}
    \cup {Scalar("string", n) : n \in {Misspelt, SoapyType}}
    \cup {Scalar("bool", 0), Scalar("group", 1)}
ListLiterals == {List(<<>>)} \cup {List(<<l, l>>) : l \in ScalarLiterals}

NotKnown == Setting("not_known", Scalar("float", 25))
Bases ==
  [kind \in Kinds |->
     LET Put(q, t) == Append(t, Setting(q, Whatever(FormOf(kind, q))))
     IN  [k \in KeysOf(kind) |-> FoldSet(Put, <<>>, Required[kind] \ {k})]]
Followers(k) ==
  {<<>>, <<NotKnown>>} \cup (IF k \in NestedLists THEN {} ELSE {<<Setting(k, Scalar("int", 20))>>})

ConfigTexts ==
  [kind \in Kinds |->
     UNION {{Bases[kind][k] \o <<Setting(k, l)>> \o more :
               l \in ScalarLiterals \cup ListLiterals, more \in Followers(k)} :
              k \in KeysOf(kind)}]

(* ConfText's Models: the required settings and one setting, with such a follower *)

Sent(form) ==
  LET numbers == {Num(n) : n \in {-15, 10, 25, 80}}
      many(s) == {List(<<>>)} \cup {List(<<x, y>>) : x, y \in s}
  IN  CASE form \in {"hz", "number"} -> numbers
        [] form = "bit_depth" -> {Num(80)}
        [] form \in {"string", "port_text"} -> {Scalar("string", 2)}
        [] form \in {"mode", "tls"} -> {Scalar("string", 1)}
        [] form \in {"bool", "group"} -> {Scalar(form, 1)}
        [] form = "upload" -> {Scalar("group", 1), Scalar("disabled", 1)}
        [] form = "number_or_string" -> numbers \cup {Scalar("string", 2)}
        [] form \in {"number_or_list", "hz_or_list"} -> numbers \cup many(numbers)
        [] form = "hz_list" -> many(numbers)
        [] form = "strings" -> many({Scalar("string", 2)})
        [] form = "groups" -> {List(<<>>), List(<<Scalar("group", 1)>>)}

BaseModels ==
  [kind \in Kinds |->
     [k \in Required[kind] |-> LET form == FormOf(kind, k) IN ReadAs(form, Whatever(form))]]
ConfigModels ==
  [kind \in Kinds |->
     UNION {{Group((k :> x) @@ BaseModels[kind], more) :
               x \in IF k \in PanelOnly(kind) THEN {Scalar("bool", 0)} ELSE Sent(FormOf(kind, k)),
               more \in Followers(k)} :
              k \in KeysOf(kind) \cup PanelOnly(kind)}]

-----------------------------------------------------------------------------
\* A constant is evaluated at every use, what it is the name of only once.
MCEdits == Configs
MCOrder == WriteOrder
MCTexts == ConfigTexts
MCModels == ConfigModels

vars == <<part, input, statsVars, unitVars, journalVars, feedVars, hardwareVars, limiterVars,
          planVars, checkVars>>

Init ==
  /\ part \in {"stats", "unit", "journal", "feed", "hardware", "limiter", "plan", "checks", "config"}
  /\ IF part = "config" THEN ConfInit ELSE input = NoInput
  /\ StatsInit /\ UnitInit /\ JournalInit /\ FeedInit /\ HardwareInit /\ LimiterInit
  /\ PlanInit(IF part = "plan" THEN DOMAIN Edits ELSE {"none"})
  /\ IF part = "checks"
       THEN \/ CheckInit(SplitConfigs \cup BinConfigs, {{}})
            \/ CheckInit(DisableConfigs, FeatureSets)
       ELSE CheckInit({OfDevices(<<>>, <<>>)}, {{}})
  /\ part # "limiter" => subject = CHOOSE k \in LimitKeys : TRUE

notStats == <<unitVars, journalVars, feedVars, hardwareVars, limiterVars, planVars, checkVars>>
notUnit == <<statsVars, journalVars, feedVars, hardwareVars, limiterVars, planVars, checkVars>>
notJournal == <<statsVars, unitVars, feedVars, hardwareVars, limiterVars, planVars, checkVars>>
notFeed == <<statsVars, unitVars, journalVars, hardwareVars, limiterVars, planVars, checkVars>>
notHardware == <<statsVars, unitVars, journalVars, feedVars, limiterVars, planVars, checkVars>>
notLimiter == <<statsVars, unitVars, journalVars, feedVars, hardwareVars, planVars, checkVars>>
notPlan == <<statsVars, unitVars, journalVars, feedVars, hardwareVars, limiterVars, checkVars>>

Next ==
  /\ \/ part = "stats" /\ StatsNext /\ UNCHANGED notStats
     \/ part = "unit" /\ UnitNext /\ UNCHANGED notUnit
     \/ part = "journal" /\ JournalNext /\ UNCHANGED notJournal
     \/ part = "feed" /\ FeedNext /\ UNCHANGED notFeed
     \/ part = "hardware" /\ HardwareNext /\ UNCHANGED notHardware
     \/ part = "limiter" /\ LimiterNext /\ UNCHANGED notLimiter
     \/ part = "plan" /\ PlanNext /\ UNCHANGED notPlan
  /\ UNCHANGED <<part, input>>
-----------------------------------------------------------------------------
(* Fairness, of the part the behaviour is about *)

\* The unit watcher polls on an interval.
UnitFairness == WF_unitVars(part = "unit" /\ Read) /\ WF_unitVars(part = "unit" /\ Judge)

\* Rescans come on an interval, and sleeps end.
JournalFairness ==
  /\ WF_journalVars(part = "journal" /\ Rescan)
  /\ \A n \in Names : WF_journalVars(part = "journal" /\ Wake(n))

\* The health watcher ticks on an interval and a client's socket takes what it
\* is sent.
FeedFairness ==
  /\ WF_feedVars(part = "feed" /\ Tick)
  /\ WF_feedVars(part = "feed" /\ Publish)
  /\ \A c \in Clients : WF_feedVars(part = "feed" /\ ClientStep(c))

Spec == Init /\ [][Next]_vars /\ UnitFairness /\ JournalFairness /\ FeedFairness
=============================================================================
