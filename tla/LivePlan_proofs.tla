------------------------------ MODULE LivePlan_proofs ------------------------------
(***************************************************************************)
(* Theorems about LivePlan: for every set of configs that edits go between, *)
(* however long, and whatever their settings.                               *)
(***************************************************************************)
EXTENDS LivePlan, Lists_proofs

-----------------------------------------------------------------------------
(***************************************************************************)
(* Groups of settings.                                                      *)
(***************************************************************************)

\* What did not change is found alike, but for the two spellings of a port.
LEMMA Unchanged ==
  ASSUME NEW g, NEW h, NEW W, ChangedKeys(g, h, W) = {}, NEW k, k \notin W
  PROVE  /\ SameSetting(k, Find(g, k), Find(h, k))
         /\ k # "dest_port" => Find(g, k) = Find(h, k)
<1>1. CASE k \in DOMAIN g \cup DOMAIN h
  <2>1. SameSetting(k, Find(g, k), Find(h, k))
    BY <1>1 DEF ChangedKeys
  <2> QED BY <2>1 DEF SameSetting
<1>2. CASE k \notin DOMAIN g \cup DOMAIN h
  <2>1. Find(g, k) = Find(h, k)
    BY <1>2 DEF Find
  <2> QED BY <2>1 DEF SameSetting
<1> QED BY <1>1, <1>2

\* A setting that is there is not the literal of one that is not.
LEMMA Present ==
  ASSUME NEW g, IsGroup(g), NEW k
  PROVE  /\ k \in DOMAIN g => Find(g, k) = g[k] /\ g[k].ty # "absent"
         /\ k \notin DOMAIN g => Find(g, k) = NotSet /\ Find(g, k).ty = "absent"
BY DEF IsGroup, IsLiteral, Find, NotSet, Lit

\* What is found alike is the same literal.
LEMMA FoundAlike ==
  ASSUME NEW g, IsGroup(g), NEW h, IsGroup(h), NEW k, Find(g, k) = Find(h, k)
  PROVE  Find(g, k).ty # "absent" => g[k] = h[k]
BY Present

\* What did not change means the same.
LEMMA UnchangedMeans ==
  ASSUME NEW g, IsGroup(g), NEW h, IsGroup(h), NEW W, NEW V, ChangedKeys(g, h, W) = {}, W \subseteq V
  PROVE  MeantGroup(g, V) = MeantGroup(h, V)
<1>1. ASSUME NEW k, k \notin V
      PROVE  /\ k \in DOMAIN g <=> k \in DOMAIN h
             /\ k \in DOMAIN g => Meant(k, g[k]) = Meant(k, h[k])
  <2>1. SameSetting(k, Find(g, k), Find(h, k)) /\ (k # "dest_port" => Find(g, k) = Find(h, k))
    BY <1>1, Unchanged
  <2>2. k \in DOMAIN g <=> k \in DOMAIN h
    BY <2>1, Present DEF SameSetting
  <2>3. ASSUME k \in DOMAIN g
        PROVE  Meant(k, g[k]) = Meant(k, h[k])
    <3>1. SameSetting(k, g[k], h[k]) /\ (k # "dest_port" => g[k] = h[k])
      BY <2>1, <2>2, <2>3, Present
    <3>2. g[k].v = h[k].v
      BY <3>1 DEF SameSetting
    <3> QED BY <3>1, <3>2 DEF Meant
  <2> QED BY <2>2, <2>3
<1>2. DOMAIN g \ V = DOMAIN h \ V
  BY <1>1
<1>3. \A k \in DOMAIN g \ V : Meant(k, g[k]) = Meant(k, h[k])
  BY <1>1
<1> HIDE DEF Meant
<1> QED BY <1>2, <1>3 DEF MeantGroup

-----------------------------------------------------------------------------
(***************************************************************************)
(* Lists, and what is active in them.                                       *)
(***************************************************************************)

Disabled(x) == FlagOr(x.set, "disable", FALSE)

Places(items) == {i \in DOMAIN items : ~FlagOr(items[i].set, "disable", FALSE)}

LEMMA ListType ==
  ASSUME NEW items, IsList(items)
  PROVE  Len(items) \in Nat /\ DOMAIN items = 1..Len(items)
BY LenProperties DEF IsList

\* What is active are items of the list.
LEMMA ActiveType ==
  ASSUME NEW items, AreItems(items)
  PROVE  /\ AreItems(Active(items))
         /\ Len(Active(items)) \in Nat /\ DOMAIN Active(items) = 1..Len(Active(items))
         /\ \A j \in DOMAIN Active(items) : \E i \in DOMAIN items : Active(items)[j] = items[i]
<1>1. Len(items) \in Nat /\ DOMAIN items = 1..Len(items)
  BY ListType DEF AreItems
<1>2. Places(items) \in SUBSET (1..Len(items))
  BY <1>1 DEF Places
<1>3. Active(items) = ItemsAt(items, Places(items))
  BY DEF Active, Places
<1> DEFINE S == Places(items)
<1>4. /\ Cardinality(S) \in Nat
      /\ Len(ItemsAt(items, S)) = Cardinality(S)
      /\ DOMAIN ItemsAt(items, S) = 1..Cardinality(S)
      /\ \A k \in 1..Cardinality(S) : ItemsAt(items, S)[k] = items[Nth(S, k)] /\ Nth(S, k) \in S
  BY <1>1, <1>2, ItemsAtType
<1> HIDE DEF S
<1>5. \A j \in DOMAIN Active(items) : \E i \in DOMAIN items : Active(items)[j] = items[i]
  BY <1>1, <1>2, <1>3, <1>4 DEF S
<1>6. Len(Active(items)) \in Nat /\ DOMAIN Active(items) = 1..Len(Active(items))
  BY <1>3, <1>4 DEF S
<1>7. IsList(Active(items))
  <2>1. Active(items) = [k \in 1..Cardinality(S) |-> items[Nth(S, k)]]
    BY <1>3 DEF S, ItemsAt
  <2> DEFINE T == {Active(items)[j] : j \in DOMAIN Active(items)}
  <2>2. \A j \in 1..Cardinality(S) : Active(items)[j] \in T
    BY <1>3, <1>4 DEF S
  <2>3. [k \in 1..Cardinality(S) |-> items[Nth(S, k)]] \in Seq(T)
    <3>1. \A k \in 1..Cardinality(S) : items[Nth(S, k)] \in T
      BY <1>3, <1>4, <2>2 DEF S
    <3> HIDE DEF T
    <3> QED BY <1>4, <3>1, IsASeq
  <2> QED BY <2>1, <2>3 DEF IsList
<1>8. \A j \in DOMAIN Active(items) : IsGroup(Active(items)[j].set)
  BY <1>5 DEF AreItems
<1> QED BY <1>5, <1>6, <1>7, <1>8 DEF AreItems

\* If two lists agree on what is disabled, what is active in one is what is active in the
\* other, place by place.
LEMMA ActiveAlike ==
  ASSUME NEW a, AreItems(a), NEW b, AreItems(b), Len(a) = Len(b),
         \A i \in DOMAIN a : Disabled(a[i]) = Disabled(b[i])
  PROVE  /\ DOMAIN Active(a) = DOMAIN Active(b) /\ Len(Active(a)) = Len(Active(b))
         /\ \A j \in DOMAIN Active(a) :
              \E i \in DOMAIN a : Active(a)[j] = a[i] /\ Active(b)[j] = b[i]
<1>1. /\ Len(a) \in Nat /\ DOMAIN a = 1..Len(a)
      /\ DOMAIN b = 1..Len(a)
  BY ListType DEF AreItems
<1>2. Places(a) = Places(b) /\ Places(a) \in SUBSET (1..Len(a))
  BY <1>1 DEF Places, Disabled
<1>3. Active(a) = ItemsAt(a, Places(a)) /\ Active(b) = ItemsAt(b, Places(a))
  BY <1>2 DEF Active, Places
<1> DEFINE S == Places(a)
<1> DEFINE n == Len(a)
<1>4. n \in Nat /\ S \in SUBSET (1..n)
  BY <1>1, <1>2
<1> HIDE DEF S, n
<1>5. \A list : /\ Len(ItemsAt(list, S)) = Cardinality(S)
               /\ DOMAIN ItemsAt(list, S) = 1..Cardinality(S)
               /\ \A k \in 1..Cardinality(S) : ItemsAt(list, S)[k] = list[Nth(S, k)] /\ Nth(S, k) \in S
  BY <1>4, ItemsAtType
<1>6. /\ Len(Active(a)) = Cardinality(S) /\ DOMAIN Active(a) = 1..Cardinality(S)
      /\ Len(Active(b)) = Cardinality(S) /\ DOMAIN Active(b) = 1..Cardinality(S)
      /\ \A k \in 1..Cardinality(S) :
           Active(a)[k] = a[Nth(S, k)] /\ Active(b)[k] = b[Nth(S, k)] /\ Nth(S, k) \in S
  BY <1>3, <1>5 DEF S
<1>7. S \subseteq DOMAIN a
  BY <1>1, <1>4 DEF n
<1> QED BY <1>6, <1>7

-----------------------------------------------------------------------------
(***************************************************************************)
(* Plans.                                                                   *)
(***************************************************************************)

LEMMA TogetherIs ==
  ASSUME NEW plans
  PROVE  /\ Together(plans).restart = {} <=> \A p \in plans : p.restart = {}
         /\ Together(plans).live = {} <=> \A p \in plans : p.live = {}
BY DEF Together, Plan

LEMMA IfIs ==
  ASSUME NEW change \in BOOLEAN, NEW what
  PROVE  /\ LiveIf(change, what).restart = {} /\ RestartIf(change, what).live = {}
         /\ LiveIf(change, what).live = {} <=> ~change
         /\ RestartIf(change, what).restart = {} <=> ~change
BY DEF LiveIf, RestartIf, Plan

LEMMA NothingIs == Nothing.restart = {} /\ Nothing.live = {}
BY DEF Nothing, Plan

\* The channels that two lists have in common.
LEMMA CommonIs ==
  ASSUME NEW a, NEW n, Len(a) \in Nat, Len(n) \in Nat
  PROVE  /\ Common(a, n) \in 0..Len(a) /\ Common(a, n) <= Len(n)
         /\ \A i \in 1..Common(a, n) : Signature(a[i]) = Signature(n[i])
<1> DEFINE alike == {j \in 0..Len(a) : j <= Len(n) /\ \A i \in 1..j : Signature(a[i]) = Signature(n[i])}
<1>1. 0 \in alike
  OBVIOUS
<1>2. \E m \in alike : \A k \in alike : m >= k
  <2>1. alike \in SUBSET (0..Len(a)) /\ alike # {}
    BY <1>1
  <2> HIDE DEF alike
  <2> QED BY <2>1, Greatest
<1>3. Common(a, n) = Max(alike)
  BY DEF Common
<1>4. Max(alike) \in alike
  <2> HIDE DEF alike
  <2> QED BY <1>2 DEF Max
<1> QED BY <1>3, <1>4

-----------------------------------------------------------------------------
(***************************************************************************)
(* What a device runs with, setting by setting: after a plan that asks for  *)
(* no restart, reload_diff leaves what the new config says.                 *)
(***************************************************************************)

LEMMA Numeric ==
  ASSUME NEW g, NEW k
  PROVE  /\ ~IsNumeric(NotSet) /\ NotSet.ty = "absent"
         /\ IsNumeric(Find(g, k)) => Find(g, k) = g[k]
BY DEF IsNumeric, NotSet, Lit, Find

LEMMA Flags ==
  ASSUME NEW g, IsGroup(g), NEW k, NEW b \in BOOLEAN
  PROVE  FlagOr(g, k, b) \in BOOLEAN
BY DEF IsGroup, IsLiteral, FlagOr, Find, NotSet, Lit

Tuned(g) == Meant("centerfreq", IF IsScan(g) THEN NotSet ELSE Find(g, "centerfreq"))

LEMMA FrequencyReloaded ==
  ASSUME NEW a, NEW n, NEW cf, IsScan(a) = IsScan(n), Meant("centerfreq", cf) = Tuned(a),
         PlanFrequency(a, n).restart = {}
  PROVE  Meant("centerfreq", IF ~IsScan(n) /\ IsNumeric(Find(n, "centerfreq"))
                               THEN n["centerfreq"] ELSE cf) = Tuned(n)
<1> DEFINE old == Find(a, "centerfreq")  new == Find(n, "centerfreq")
<1>1. CASE IsScan(n)
  BY <1>1 DEF Tuned
<1>2. CASE ~IsScan(n) /\ IsNumeric(new)
  <2>1. n["centerfreq"] = new
    BY <1>2, Numeric
  <2> QED BY <1>2, <2>1 DEF Tuned
<1>3. CASE ~IsScan(n) /\ ~IsNumeric(new)
  <2>1. RestartIf(new # NotSet \/ old # NotSet, "centerfreq").restart = {}
    BY <1>3 DEF PlanFrequency
  <2>2. new = NotSet /\ old = NotSet
    BY <2>1, IfIs
  <2> QED BY <1>3, <2>2 DEF Tuned
<1> QED BY <1>1, <1>2, <1>3

LEMMA FrequencyUnchanged ==
  ASSUME NEW a, NEW n, IsScan(a) = IsScan(n), PlanFrequency(a, n).restart = {},
         PlanFrequency(a, n).live = {}
  PROVE  Tuned(a) = Tuned(n)
<1> DEFINE old == Find(a, "centerfreq")  new == Find(n, "centerfreq")
<1>1. CASE IsScan(n)
  BY <1>1 DEF Tuned
<1>2. CASE ~IsScan(n) /\ IsNumeric(new)
  <2> DEFINE change == ~IsNumeric(old) \/ AnynumToInt(new) # AnynumToInt(old)
  <2>1. LiveIf(change, "centerfreq").live = {}
    BY <1>2 DEF PlanFrequency
  <2>2. ~change
    <3> HIDE DEF change
    <3>1. (change) \in BOOLEAN
      BY DEF change
    <3> QED BY <2>1, <3>1, IfIs
  <2> QED BY <1>2, <2>2 DEF Tuned, Meant
<1>3. CASE ~IsScan(n) /\ ~IsNumeric(new)
  <2>1. RestartIf(new # NotSet \/ old # NotSet, "centerfreq").restart = {}
    BY <1>3 DEF PlanFrequency
  <2>2. new = NotSet /\ old = NotSet
    BY <2>1, IfIs
  <2> QED BY <1>3, <2>2 DEF Tuned
<1> QED BY <1>1, <1>2, <1>3

LEMMA RateReloaded ==
  ASSUME NEW a, NEW n, PlanRate(a, n).restart = {}
  PROVE  /\ (IF ~IsScan(n) /\ Driver(n) # SoapySdr /\ IsNumeric(Find(n, "sample_rate"))
               THEN RateOf(n) ELSE RateOf(a)) = RateOf(n)
         /\ PlanRate(a, n).live = {} => RateOf(a) = RateOf(n)
<1> DEFINE new == Find(n, "sample_rate")
<1>1. CASE ~IsNumeric(new)
  <2>1. RestartIf(new # NotSet \/ RateOf(a) # DefaultRate, "sample_rate").restart = {}
    BY <1>1 DEF PlanRate
  <2>2. RateOf(a) = DefaultRate
    BY <2>1, IfIs
  <2>3. RateOf(n) = DefaultRate
    BY <1>1 DEF RateOf
  <2> QED BY <2>2, <2>3
<1>2. CASE IsNumeric(new)
  <2>1. RestartIf(TRUE, "sample_rate").restart # {} /\ LiveIf(TRUE, "sample_rate").live # {}
    BY IfIs
  <2>2. RateOf(n) = AnynumToInt(new)
    BY <1>2 DEF RateOf
  <2>3. RateOf(a) = RateOf(n) \/ ~(IsScan(n) \/ Driver(n) = SoapySdr)
    BY <1>2, <2>1, <2>2 DEF PlanRate
  <2>4. PlanRate(a, n).live = {} => RateOf(a) = RateOf(n)
    BY <1>2, <2>1, <2>2 DEF PlanRate
  <2> QED BY <1>2, <2>3, <2>4
<1> QED BY <1>1, <1>2

\* Of a written config the value of these settings is what it says, in whole numbers.
Plain(g) == \A k \in {"bandwidth", "correction"} : Find(g, k).ty # "float"

LEMMA ReappliedIs ==
  ASSUME NEW a, NEW n, Plain(n.set), NEW d, d.driver = Driver(n.set),
         NEW key \in {"gain", "bandwidth", "correction"}, d[key] = Find(a.set, key),
         PlanReapplied(a.set, n.set, key).restart = {}
  PROVE  Reapplied(d, n, key) = Find(n.set, key)
<1> DEFINE l == Find(n.set, key)
<1>1. CASE LiveSetterSupported(d.driver, key) /\ IsNumeric(l)
  <2>1. key = "gain" \/ l.ty = "int"
    BY <1>1 DEF Plain, IsNumeric
  <2> QED BY <1>1, <2>1 DEF Reapplied
<1>2. CASE ~(LiveSetterSupported(d.driver, key) /\ IsNumeric(l))
  <2>1. Reapplied(d, n, key) = Find(a.set, key)
    BY <1>2 DEF Reapplied
  <2>2. RestartIf(TRUE, key).restart # {}
    BY IfIs
  <2>3. ~(LiveSetterSupported(d.driver, key) /\ ReadAsMeant(key, l))
    BY <1>2 DEF ReadAsMeant, IsNumeric
  <2> QED BY <2>1, <2>2, <2>3 DEF PlanReapplied
<1> QED BY <1>1, <1>2

LEMMA ReappliedUnchanged ==
  ASSUME NEW a, NEW n, NEW key, PlanReapplied(a, n, key).restart = {}, PlanReapplied(a, n, key).live = {}
  PROVE  Find(a, key) = Find(n, key)
<1>1. RestartIf(TRUE, key).restart # {} /\ LiveIf(TRUE, key).live # {}
  BY IfIs
<1> QED BY <1>1 DEF PlanReapplied

Params(g) == [k \in DOMAIN PpmParams |-> NumberOr(g, k, PpmParams[k])]

LEMMA AutoPpmReloaded ==
  ASSUME NEW s, NEW a, IsGroup(a), NEW n, IsGroup(n), PlanAutoPpm(s, a, n).restart = {}
  PROVE  /\ Find(s, "auto_ppm") = NotSet => ~FlagOr(n, "auto_ppm", FALSE)
         /\ Find(s, "auto_ppm") # NotSet => Params(s) = Params(n)
<1> DEFINE was == FlagOr(a, "auto_ppm", FALSE)
           now == FlagOr(n, "auto_ppm", FALSE)
           added == Find(a, "auto_ppm") = NotSet /\ Find(n, "auto_ppm") # NotSet
           params == \E k \in DOMAIN PpmParams :
                       NumberOr(s, k, PpmParams[k]) # NumberOr(n, k, PpmParams[k])
           back == LiveIf(was /\ ~now /\ Find(a, "correction") = Find(n, "correction")
                                /\ IsNumeric(Find(n, "correction")), "correction")
<1>1. was \in BOOLEAN /\ now \in BOOLEAN
  BY Flags
<1>2. CASE Find(s, "auto_ppm") = NotSet
  <2>1. RestartIf(now \/ added, "auto_ppm").restart = {}
    BY <1>2 DEF PlanAutoPpm
  <2>2. (now \/ added) \in BOOLEAN
    BY <1>1
  <2> HIDE DEF was, now, added
  <2>3. ~(now \/ added)
    BY <2>1, <2>2, IfIs
  <2> QED BY <1>2, <2>3 DEF now
<1>3. CASE Find(s, "auto_ppm") # NotSet
  <2> DEFINE plans == {RestartIf(params, "auto_ppm parameters"), LiveIf(was # now, "auto_ppm"), back}
  <2>1. PlanAutoPpm(s, a, n) = Together(plans)
    BY <1>3 DEF PlanAutoPpm
  <2>2. RestartIf(params, "auto_ppm parameters").restart = {}
    <3> HIDE DEF params, back
    <3>1. \A p \in plans : p.restart = {}
      <4> HIDE DEF plans
      <4> QED BY <2>1, TogetherIs
    <3> QED BY <3>1
  <2>3. ~params
    <3>1. (params) \in BOOLEAN
      OBVIOUS
    <3> HIDE DEF params
    <3> QED BY <2>2, <3>1, IfIs
  <2>4. Params(s) = Params(n)
    <3>1. \A k \in DOMAIN PpmParams : NumberOr(s, k, PpmParams[k]) = NumberOr(n, k, PpmParams[k])
      BY <2>3
    <3> QED BY <3>1 DEF Params
  <2> QED BY <1>3, <2>4
<1> QED BY <1>2, <1>3

LEMMA AutoPpmUnchanged ==
  ASSUME NEW s, NEW a, IsGroup(a), NEW n, IsGroup(n), Find(s, "auto_ppm") # NotSet,
         PlanAutoPpm(s, a, n).live = {}
  PROVE  FlagOr(a, "auto_ppm", FALSE) = FlagOr(n, "auto_ppm", FALSE)
<1> DEFINE was == FlagOr(a, "auto_ppm", FALSE)
           now == FlagOr(n, "auto_ppm", FALSE)
           params == \E k \in DOMAIN PpmParams :
                       NumberOr(s, k, PpmParams[k]) # NumberOr(n, k, PpmParams[k])
           back == LiveIf(was /\ ~now /\ Find(a, "correction") = Find(n, "correction")
                                /\ IsNumeric(Find(n, "correction")), "correction")
           plans == {RestartIf(params, "auto_ppm parameters"), LiveIf(was # now, "auto_ppm"), back}
<1>1. PlanAutoPpm(s, a, n) = Together(plans)
  BY DEF PlanAutoPpm
<1> HIDE DEF params, back, was, now
<1>2. \A p \in plans : p.live = {}
  <2> HIDE DEF plans
  <2> QED BY <1>1, TogetherIs
<1>3. LiveIf(was # now, "auto_ppm").live = {}
  BY <1>2
<1>4. was = now
  BY <1>3, IfIs
<1> QED BY <1>4 DEF was, now

-----------------------------------------------------------------------------
(***************************************************************************)
(* Channels.                                                                *)
(***************************************************************************)

LEMMA RoomType ==
  ASSUME NEW s, IsGroup(s.set), AreItems(s.channels)
  PROVE  Room(s) \in Int
<1>1. NumberOr(s.set, "reserve_channels", 0) \in Int
  <2> DEFINE l == Find(s.set, "reserve_channels")
  <2>1. l.ty \in {"int", "float"} => l.v \in Int
    BY DEF Find, NotSet, Lit, IsGroup, IsLiteral
  <2>2. NumberOr(s.set, "reserve_channels", 0) =
          CASE l.ty = "int" -> 10 * l.v [] l.ty = "float" -> l.v [] OTHER -> 0
    BY DEF NumberOr
  <2> HIDE DEF l
  <2> QED BY <2>1, <2>2
<1>2. Len(Active(s.channels)) \in Nat
  BY ActiveType
<1> QED BY <1>1, <1>2 DEF Room

\* A list whose front is kept and whose rest is taken from another is the other.
LEMMA KeptThen ==
  ASSUME NEW T, NEW front \in Seq(T), NEW list \in Seq(T), Len(front) <= Len(list),
         \A j \in 1..Len(front) : front[j] = list[j]
  PROVE  front \o SubSeq(list, Len(front) + 1, Len(list)) = list
<1> DEFINE m == Len(front)  n == Len(list)  rest == SubSeq(list, m + 1, n)
<1>1. m \in Nat /\ n \in Nat /\ m <= n
  OBVIOUS
<1>2. /\ rest \in Seq(T) /\ Len(rest) = n - m
      /\ \A i \in 1..(n - m) : rest[i] = list[m + i]
  <2>1. \A i \in (m + 1)..n : list[i] \in T
    <3>1. \A i \in (m + 1)..n : i \in 1..n
      BY <1>1
    <3> QED BY <3>1, ElementOfSeq
  <2>2. m + 1 \in Int /\ n \in Int
    BY <1>1
  <2>3. /\ rest \in Seq(T) /\ Len(rest) = IF m + 1 <= n THEN n - (m + 1) + 1 ELSE 0
        /\ \A i \in 1..(n - (m + 1) + 1) : rest[i] = list[(m + 1) + i - 1]
    BY <2>1, <2>2, SubSeqProperties
  <2> HIDE DEF m, n, rest
  <2>4. n - (m + 1) + 1 = n - m /\ \A i \in Int : (m + 1) + i - 1 = m + i
    BY <1>1
  <2> QED BY <1>1, <2>3, <2>4
<1>3. /\ front \o rest \in Seq(T) /\ Len(front \o rest) = m + Len(rest)
      /\ \A i \in 1..(m + Len(rest)) : (front \o rest)[i] = IF i <= m THEN front[i] ELSE rest[i - m]
  BY <1>2, ConcatProperties
<1> HIDE DEF rest
<1>4. \A i \in 1..n : (front \o rest)[i] = list[i]
  <2> TAKE i \in 1..n
  <2>1. CASE i <= m
    BY <1>1, <1>2, <1>3, <2>1
  <2>2. CASE ~(i <= m)
    <3>1. i - m \in 1..(n - m) /\ m + (i - m) = i
      BY <1>1, <2>2
    <3> QED BY <1>1, <1>2, <1>3, <2>2, <3>1
  <2> QED BY <2>1, <2>2
<1>5. Len(front \o rest) = n
  BY <1>1, <1>2, <1>3
<1> QED BY <1>3, <1>4, <1>5, SeqEqual DEF rest

\* What a plan of the channels that asks for no restart, or for nothing, says of them.
Enabled(c) == FlagOr(c.set, "enabled", TRUE)

CommonChannels(a, n) == Common(Active(a.channels), Active(n.channels))

LEMMA ChannelsPlanned ==
  ASSUME NEW s, NEW a, NEW n, IsGroup(s.set), AreItems(s.channels), AreItems(a.channels),
         AreItems(n.channels), PlanChannels(s, a, n).restart = {}
  PROVE  /\ \A j \in 1..CommonChannels(a, n) :
              ChangedKeys(Active(a.channels)[j].set, Active(n.channels)[j].set, {"enabled"}) = {}
         /\ IsScan(n.set) => /\ CommonChannels(a, n) = Len(Active(a.channels))
                             /\ CommonChannels(a, n) = Len(Active(n.channels))
         /\ CommonChannels(a, n) < Len(Active(n.channels)) => Len(Active(n.channels)) <= Room(s)
<1> DEFINE old == Active(a.channels)  new == Active(n.channels)  common == CommonChannels(a, n)
<1>1. /\ Len(old) \in Nat /\ Len(new) \in Nat
  BY ActiveType
<1>2. common \in 0..Len(old) /\ common <= Len(new)
  BY <1>1, CommonIs DEF CommonChannels
<1>3. Room(s) \in Int
  BY RoomType
<1> DEFINE diverges == common < Len(old) \/ common < Len(new)
           toAdd == Len(new) - common
           toggled == \E j \in 1..common :
                        FlagOr(old[j].set, "enabled", TRUE) # FlagOr(new[j].set, "enabled", TRUE)
           fits == toAdd > 0 => toAdd <= Room(s) - common
           scan == IsScan(n.set) = TRUE
           one == UnseenEdit(old, new, common)
           two == diverges /\ (scan \/ ~fits)
           three == diverges /\ ~scan /\ (common < Len(old) \/ fits)
           plans == {RestartIf(one, "channel"), RestartIf(two, "channels"),
                     LiveIf(three, "channels"), LiveIf(toggled, "enabled")}
<1>4. one \in BOOLEAN /\ two \in BOOLEAN /\ three \in BOOLEAN /\ toggled \in BOOLEAN
  BY DEF UnseenEdit
<1>5. PlanChannels(s, a, n) = Together(plans)
  BY DEF PlanChannels, ChannelRoom, IsScan, CommonChannels
<1> HIDE DEF old, new, common, one, two, three, toggled, plans
<1>6. RestartIf(one, "channel").restart = {} /\ RestartIf(two, "channels").restart = {}
  <2>1. \A p \in plans : p.restart = {}
    BY <1>5, TogetherIs
  <2> QED BY <2>1 DEF plans
<1>7. ~one /\ ~two
  BY <1>4, <1>6, IfIs
<1>8. \A j \in 1..common : ChangedKeys(old[j].set, new[j].set, {"enabled"}) = {}
  BY <1>7 DEF one, UnseenEdit
<1>9. scan => common = Len(old) /\ common = Len(new)
  BY <1>1, <1>2, <1>7 DEF two
<1>10. common < Len(new) => Len(new) <= Room(s)
  BY <1>1, <1>2, <1>3, <1>7 DEF two
<1> QED BY <1>8, <1>9, <1>10 DEF old, new, common

LEMMA ChannelsUnchanged ==
  ASSUME NEW s, NEW a, NEW n, IsGroup(s.set), AreItems(s.channels), AreItems(a.channels),
         AreItems(n.channels), PlanChannels(s, a, n).restart = {}, PlanChannels(s, a, n).live = {}
  PROVE  /\ CommonChannels(a, n) = Len(Active(a.channels))
         /\ CommonChannels(a, n) = Len(Active(n.channels))
         /\ \A j \in 1..CommonChannels(a, n) :
              Enabled(Active(a.channels)[j]) = Enabled(Active(n.channels)[j])
<1> DEFINE old == Active(a.channels)  new == Active(n.channels)  common == CommonChannels(a, n)
<1>1. /\ Len(old) \in Nat /\ Len(new) \in Nat /\ Room(s) \in Int
  BY ActiveType, RoomType
<1>2. common \in 0..Len(old) /\ common <= Len(new)
  BY <1>1, CommonIs DEF CommonChannels
<1>3. /\ IsScan(n.set) => common = Len(old) /\ common = Len(new)
      /\ common < Len(new) => Len(new) <= Room(s)
  BY ChannelsPlanned
<1> DEFINE diverges == common < Len(old) \/ common < Len(new)
           toAdd == Len(new) - common
           toggled == \E j \in 1..common :
                        FlagOr(old[j].set, "enabled", TRUE) # FlagOr(new[j].set, "enabled", TRUE)
           fits == toAdd > 0 => toAdd <= Room(s) - common
           scan == IsScan(n.set) = TRUE
           one == UnseenEdit(old, new, common)
           two == diverges /\ (scan \/ ~fits)
           three == diverges /\ ~scan /\ (common < Len(old) \/ fits)
           plans == {RestartIf(one, "channel"), RestartIf(two, "channels"),
                     LiveIf(three, "channels"), LiveIf(toggled, "enabled")}
<1>4. three \in BOOLEAN /\ toggled \in BOOLEAN
  OBVIOUS
<1>5. PlanChannels(s, a, n) = Together(plans)
  BY DEF PlanChannels, ChannelRoom, IsScan, CommonChannels
<1> HIDE DEF old, new, common, one, two, three, toggled, plans
<1>6. LiveIf(three, "channels").live = {} /\ LiveIf(toggled, "enabled").live = {}
  <2>1. \A p \in plans : p.live = {}
    BY <1>5, TogetherIs
  <2> QED BY <2>1 DEF plans
<1>7. ~three /\ ~toggled
  BY <1>4, <1>6, IfIs
<1>8. common = Len(old) /\ common = Len(new)
  <2>1. scan => common = Len(old) /\ common = Len(new)
    BY <1>3 DEF IsScan
  <2> QED BY <1>1, <1>2, <1>3, <1>7, <2>1 DEF three
<1>9. \A j \in 1..common : Enabled(old[j]) = Enabled(new[j])
  BY <1>7 DEF toggled, Enabled
<1> QED BY <1>8, <1>9 DEF old, new, common

\* A channel that shows the same signature and no other change does the same.
LEMMA ChannelAlike ==
  ASSUME NEW c, IsGroup(c.set), NEW d, IsGroup(d.set), Signature(c) = Signature(d),
         ChangedKeys(c.set, d.set, {"enabled"}) = {}
  PROVE  /\ FreshChannel(c).does = FreshChannel(d).does
         /\ [FreshChannel(c) EXCEPT !.enabled = FreshChannel(d).enabled] = FreshChannel(d)
<1>1. MeantGroup(c.set, {"enabled"}) = MeantGroup(d.set, {"enabled"})
  BY UnchangedMeans
<1>2. FreshChannel(c) =
        [does |-> MeantGroup(d.set, {"enabled"}), signature |-> Signature(d),
         enabled |-> FlagOr(c.set, "enabled", TRUE)]
  BY <1>1 DEF FreshChannel
<1>3. FreshChannel(d) =
        [does |-> MeantGroup(d.set, {"enabled"}), signature |-> Signature(d),
         enabled |-> FlagOr(d.set, "enabled", TRUE)]
  BY DEF FreshChannel
<1>4. ASSUME NEW x, NEW does, NEW signature, NEW e, NEW f,
             x = [does |-> does, signature |-> signature, enabled |-> e]
      PROVE  [x EXCEPT !.enabled = f] = [does |-> does, signature |-> signature, enabled |-> f]
  BY <1>4
<1>5. FreshChannel(d).enabled = FlagOr(d.set, "enabled", TRUE)
  BY <1>3
<1>6. FreshChannel(c).does = FreshChannel(d).does
  BY <1>2, <1>3
<1>7. [FreshChannel(c) EXCEPT !.enabled = FreshChannel(d).enabled] =
        [does |-> MeantGroup(d.set, {"enabled"}), signature |-> Signature(d),
         enabled |-> FreshChannel(d).enabled]
  <2> DEFINE x == FreshChannel(c)  f == FreshChannel(d).enabled
  <2>1. x = [does |-> MeantGroup(d.set, {"enabled"}), signature |-> Signature(d),
             enabled |-> FlagOr(c.set, "enabled", TRUE)]
    BY <1>2
  <2> HIDE DEF x, f
  <2>2. [x EXCEPT !.enabled = f] = [does |-> MeantGroup(d.set, {"enabled"}), signature |-> Signature(d),
             enabled |-> f]
    BY <2>1
  <2> QED BY <2>2 DEF x, f
<1> QED BY <1>3, <1>5, <1>6, <1>7

LEMMA ChannelsReloaded ==
  ASSUME NEW s, NEW a, NEW n, IsGroup(s.set), AreItems(s.channels), AreItems(a.channels),
         AreItems(n.channels), PlanChannels(s, a, n).restart = {},
         NEW d, d.channels = FreshChannels(Active(a.channels)), d.scan = IsScan(n.set),
         d.room = Room(s)
  PROVE  ReloadChannels(d, n) = FreshChannels(Active(n.channels))
<1> DEFINE was == Active(a.channels)  will == Active(n.channels)
           old == FreshChannels(was)  new == FreshChannels(will)
           common == CommonChannels(a, n)
           kept == [j \in 1..common |-> [old[j] EXCEPT !.enabled = new[j].enabled]]
           T == {new[j] : j \in DOMAIN new}
<1>1. /\ Len(was) \in Nat /\ DOMAIN was = 1..Len(was) /\ Len(will) \in Nat /\ DOMAIN will = 1..Len(will)
      /\ \A j \in 1..Len(was) : IsGroup(was[j].set)
      /\ \A j \in 1..Len(will) : IsGroup(will[j].set)
  BY ActiveType DEF AreItems
<1> HIDE DEF was, will
<1>2. /\ Len(old) = Len(was) /\ DOMAIN old = 1..Len(was) /\ Len(new) = Len(will) /\ DOMAIN new = 1..Len(will)
      /\ \A j \in 1..Len(was) : old[j] = FreshChannel(was[j])
      /\ \A j \in 1..Len(will) : new[j] = FreshChannel(will[j])
      /\ new \in Seq(T)
  <2>1. /\ old = [j \in 1..Len(was) |-> FreshChannel(was[j])]
        /\ new = [j \in 1..Len(will) |-> FreshChannel(will[j])]
    BY <1>1 DEF FreshChannels
  <2>2. new \in Seq(T)
    <3>1. \A j \in 1..Len(will) : FreshChannel(will[j]) \in T
      BY <2>1
    <3> HIDE DEF T, new
    <3>2. [j \in 1..Len(will) |-> FreshChannel(will[j])] \in Seq(T)
      BY <1>1, <3>1, IsASeq
    <3> QED BY <2>1, <3>2
  <2> HIDE DEF T, new, old
  <2> QED BY <1>1, <2>1, <2>2
<1> HIDE DEF old, new, T
<1>3. /\ common \in 0..Len(was) /\ common <= Len(will)
      /\ \A i \in 1..common : Signature(was[i]) = Signature(will[i])
  BY <1>1, CommonIs DEF CommonChannels, was, will
<1>4. /\ \A j \in 1..common : ChangedKeys(was[j].set, will[j].set, {"enabled"}) = {}
      /\ IsScan(n.set) => common = Len(was) /\ common = Len(will)
      /\ common < Len(will) => Len(will) <= Room(s)
  <2>1. was = Active(a.channels) /\ will = Active(n.channels)
    BY DEF was, will
  <2>2. \A j \in 1..CommonChannels(a, n) :
          ChangedKeys(Active(a.channels)[j].set, Active(n.channels)[j].set, {"enabled"}) = {}
    BY ChannelsPlanned
  <2>3. IsScan(n.set) => /\ CommonChannels(a, n) = Len(Active(a.channels))
                         /\ CommonChannels(a, n) = Len(Active(n.channels))
    BY ChannelsPlanned
  <2>4. CommonChannels(a, n) < Len(Active(n.channels)) => Len(Active(n.channels)) <= Room(s)
    BY ChannelsPlanned
  <2> QED BY <2>1, <2>2, <2>3, <2>4
<1>5. Max({j \in 0..Len(old) : j <= Len(new) /\ \A i \in 1..j : old[i].signature = new[i].signature})
        = common
  <2>1. \A i \in 1..Len(was) : i <= Len(will) => old[i].signature = Signature(was[i])
                                              /\ new[i].signature = Signature(will[i])
    <3>1. \A c : FreshChannel(c).signature = Signature(c)
      BY DEF FreshChannel
    <3> QED BY <1>1, <1>2, <3>1
  <2>2. \A j \in 0..Len(was) : \A i \in 1..j : j <= Len(will) => i \in 1..Len(was) /\ i <= Len(will)
    BY <1>1
  <2>3. {j \in 0..Len(old) : j <= Len(new) /\ \A i \in 1..j : old[i].signature = new[i].signature}
          = {j \in 0..Len(was) : j <= Len(will) /\ \A i \in 1..j : Signature(was[i]) = Signature(will[i])}
    BY <1>2, <2>1, <2>2
  <2> QED BY <2>3 DEF Common, CommonChannels, was, will
<1> HIDE DEF common
<1>6. \A j \in 1..common : kept[j] = new[j]
  <2> TAKE j \in 1..common
  <2>1. j \in 1..Len(was) /\ j \in 1..Len(will)
    BY <1>1, <1>3
  <2>2. [FreshChannel(was[j]) EXCEPT !.enabled = FreshChannel(will[j]).enabled] = FreshChannel(will[j])
    BY <1>1, <1>3, <1>4, <2>1, ChannelAlike
  <2> QED BY <1>2, <2>1, <2>2
<1>7. kept \in Seq(T) /\ Len(kept) = common
  <2>1. \A j \in 1..common : kept[j] \in T
    <3>1. \A j \in 1..common : j \in DOMAIN new
      BY <1>1, <1>2, <1>3
    <3> QED BY <1>6, <3>1 DEF T
  <2>2. kept = [j \in 1..common |-> kept[j]] /\ common \in Nat
    BY <1>1, <1>3
  <2> HIDE DEF kept
  <2>3. [j \in 1..common |-> kept[j]] \in Seq(T)
    BY <2>1, <2>2, IsASeq
  <2>4. Len([j \in 1..common |-> kept[j]]) = common
    BY <2>2
  <2> QED BY <2>2, <2>3, <2>4
<1>8. ReloadChannels(d, n) = IF d.scan THEN kept \o SubSeq(old, common + 1, Len(old))
                             ELSE IF Len(new) > d.room THEN kept
                             ELSE kept \o SubSeq(new, common + 1, Len(new))
  BY <1>5 DEF ReloadChannels, old, new, was, will
<1> HIDE DEF kept
<1>9. common = Len(new) => kept = new
  <2> HAVE common = Len(new)
  <2> QED BY <1>2, <1>6, <1>7, SeqEqual
<1>10. CASE d.scan
  <2>1. common = Len(old) /\ common = Len(new) /\ kept = new
    BY <1>2, <1>4, <1>9, <1>10
  <2>2. SubSeq(old, common + 1, Len(old)) = <<>>
    BY <1>1, <1>2, <1>3, <2>1, SubSeqEmpty
  <2>3. kept \o <<>> = kept
    BY <1>7, ConcatEmptySeq
  <2> QED BY <1>8, <1>10, <2>1, <2>2, <2>3 DEF new, will
<1>11. CASE ~d.scan /\ Len(new) > d.room
  <2>1. common = Len(new)
    <3>1. Room(s) \in Int
      BY RoomType
    <3>2. ~(Len(will) <= Room(s))
      BY <1>1, <1>2, <1>11, <3>1
    <3>3. ~(common < Len(will))
      BY <1>4, <3>2
    <3>4. common \in Nat /\ common <= Len(will)
      BY <1>1, <1>3
    <3>5. Len(will) \in Nat /\ Len(new) = Len(will)
      BY <1>1, <1>2
    <3> QED BY ONLY <3>3, <3>4, <3>5
  <2> QED BY <1>8, <1>9, <1>11, <2>1 DEF new, will
<1>12. CASE ~d.scan /\ ~(Len(new) > d.room)
  <2>1. kept \o SubSeq(new, Len(kept) + 1, Len(new)) = new
    BY <1>1, <1>2, <1>3, <1>6, <1>7, KeptThen
  <2> QED BY <1>7, <1>8, <1>12, <2>1 DEF new, will
<1> QED BY <1>10, <1>11, <1>12

-----------------------------------------------------------------------------
(***************************************************************************)
(* A device.                                                                *)
(***************************************************************************)

\* What a process started with s does with a device that now runs a: the reserves are those
\* of the start, a centre frequency may be spelled as it was at any reload since.
DeviceOf(s, a, centerfreq) ==
  [driver |-> Driver(a.set), scan |-> IsScan(a.set),
   channels |-> FreshChannels(Active(a.channels)), centerfreq |-> centerfreq,
   rate |-> RateOf(a.set), gain |-> Find(a.set, "gain"), bandwidth |-> Find(a.set, "bandwidth"),
   correction |-> Find(a.set, "correction"), ppm |-> FlagOr(a.set, "auto_ppm", FALSE),
   other |-> MeantGroup(a.set, DeviceLiveKeys \cup {"reserve_channels"}),
   room |-> Room(s), ppmReady |-> Find(s.set, "auto_ppm") # NotSet, params |-> Params(s.set)]

\* auto_ppm is on only where it was there at the start, and with the parameters of the start.
PpmRuns(s, a) ==
  /\ Find(s, "auto_ppm") = NotSet => ~FlagOr(a, "auto_ppm", FALSE)
  /\ Find(s, "auto_ppm") # NotSet => Params(s) = Params(a)

DeviceRuns(s, a, d) ==
  /\ d = DeviceOf(s, a, d.centerfreq)
  /\ Meant("centerfreq", d.centerfreq) = Tuned(a.set)
  /\ PpmRuns(s.set, a.set)

IsDevice(d) == IsGroup(d.set) /\ AreItems(d.channels)

LEMMA FreshDeviceIs ==
  ASSUME NEW a
  PROVE  FreshDevice(a) = DeviceOf(a, a, IF IsScan(a.set) THEN NotSet ELSE Find(a.set, "centerfreq"))
BY DEF FreshDevice, DeviceOf, Params

LEMMA DeviceFields ==
  ASSUME NEW s, NEW a, NEW cf, NEW d, d = DeviceOf(s, a, cf)
  PROVE  /\ d.driver = Driver(a.set) /\ d.scan = IsScan(a.set)
         /\ d.channels = FreshChannels(Active(a.channels)) /\ d.centerfreq = cf
         /\ d.rate = RateOf(a.set) /\ d["gain"] = Find(a.set, "gain")
         /\ d["bandwidth"] = Find(a.set, "bandwidth") /\ d["correction"] = Find(a.set, "correction")
         /\ d.ppm = FlagOr(a.set, "auto_ppm", FALSE)
         /\ d.other = MeantGroup(a.set, DeviceLiveKeys \cup {"reserve_channels"})
         /\ d.room = Room(s) /\ d.ppmReady = (Find(s.set, "auto_ppm") # NotSet)
         /\ d.params = Params(s.set)
BY DEF DeviceOf

\* What a plan of a device that asks for no restart says of it.
LEMMA DevicePlanned ==
  ASSUME NEW s, NEW a, NEW n, PlanDevice(s, a, n).restart = {}
  PROVE  /\ Driver(a.set) = Driver(n.set) /\ IsScan(a.set) = IsScan(n.set)
         /\ PlanChannels(s, a, n).restart = {} /\ PlanFrequency(a.set, n.set).restart = {}
         /\ PlanRate(a.set, n.set).restart = {} /\ PlanAutoPpm(s.set, a.set, n.set).restart = {}
         /\ ChangedKeys(a.set, n.set, DeviceLiveKeys) = {}
         /\ \A k \in {"gain", "bandwidth", "correction"} : PlanReapplied(a.set, n.set, k).restart = {}
         /\ PlanDevice(s, a, n).live = {} =>
              /\ PlanChannels(s, a, n).live = {} /\ PlanFrequency(a.set, n.set).live = {}
              /\ PlanRate(a.set, n.set).live = {} /\ PlanAutoPpm(s.set, a.set, n.set).live = {}
              /\ \A k \in {"gain", "bandwidth", "correction"} : PlanReapplied(a.set, n.set, k).live = {}
<1> DEFINE other == ChangedKeys(a.set, n.set, DeviceLiveKeys) # {}
           plans == {PlanChannels(s, a, n), PlanFrequency(a.set, n.set), PlanRate(a.set, n.set),
                     PlanAutoPpm(s.set, a.set, n.set), RestartIf(other, "device")}
                    \cup {PlanReapplied(a.set, n.set, k) : k \in {"gain", "bandwidth", "correction"}}
<1>1. RestartIf(TRUE, "type").restart # {} /\ RestartIf(TRUE, "mode").restart # {}
  BY IfIs
<1>2. Driver(a.set) = Driver(n.set) /\ IsScan(a.set) = IsScan(n.set)
  BY <1>1 DEF PlanDevice
<1>3. PlanDevice(s, a, n) = Together(plans)
  BY <1>2 DEF PlanDevice
<1> HIDE DEF plans
<1>4. \A p \in plans : p.restart = {}
  BY <1>3, TogetherIs
<1>5. PlanDevice(s, a, n).live = {} => \A p \in plans : p.live = {}
  BY <1>3, TogetherIs
<1> USE DEF plans
<1>6. RestartIf(other, "device").restart = {}
  BY <1>4
<1>7. ~other
  BY <1>6, IfIs
<1> QED BY <1>2, <1>4, <1>5, <1>7

LEMMA DeviceReloaded ==
  ASSUME NEW s, NEW a, NEW n, IsDevice(s), IsDevice(a), IsDevice(n), Plain(n.set),
         PlanDevice(s, a, n).restart = {}, NEW d, DeviceRuns(s, a, d)
  PROVE  DeviceRuns(s, n, ReloadDevice(d, n))
<1> DEFINE cf == d.centerfreq
           to == IF ~IsScan(n.set) /\ IsNumeric(Find(n.set, "centerfreq"))
                   THEN n.set["centerfreq"] ELSE cf
<1>1. d = DeviceOf(s, a, cf)
  BY DEF DeviceRuns
<1> HIDE DEF cf
<1>2. /\ d.driver = Driver(a.set) /\ d.scan = IsScan(a.set)
      /\ d.channels = FreshChannels(Active(a.channels)) /\ d.centerfreq = cf
      /\ d.rate = RateOf(a.set) /\ d["gain"] = Find(a.set, "gain")
      /\ d["bandwidth"] = Find(a.set, "bandwidth") /\ d["correction"] = Find(a.set, "correction")
      /\ d.ppm = FlagOr(a.set, "auto_ppm", FALSE)
      /\ d.other = MeantGroup(a.set, DeviceLiveKeys \cup {"reserve_channels"})
      /\ d.room = Room(s) /\ d.ppmReady = (Find(s.set, "auto_ppm") # NotSet)
      /\ d.params = Params(s.set)
  BY <1>1 DEF DeviceOf
<1>3. /\ Driver(a.set) = Driver(n.set) /\ IsScan(a.set) = IsScan(n.set)
      /\ PlanChannels(s, a, n).restart = {} /\ PlanFrequency(a.set, n.set).restart = {}
      /\ PlanRate(a.set, n.set).restart = {} /\ PlanAutoPpm(s.set, a.set, n.set).restart = {}
      /\ ChangedKeys(a.set, n.set, DeviceLiveKeys) = {}
      /\ \A k \in {"gain", "bandwidth", "correction"} : PlanReapplied(a.set, n.set, k).restart = {}
  BY DevicePlanned
<1>4. ReloadChannels(d, n) = FreshChannels(Active(n.channels))
  BY <1>2, <1>3, ChannelsReloaded DEF IsDevice
<1>5. Meant("centerfreq", to) = Tuned(n.set)
  BY <1>2, <1>3, FrequencyReloaded DEF DeviceRuns
<1>6. (IF ~d.scan /\ d.driver # SoapySdr /\ IsNumeric(Find(n.set, "sample_rate"))
         THEN RateOf(n.set) ELSE d.rate) = RateOf(n.set)
  BY <1>2, <1>3, RateReloaded
<1>7. \A k \in {"gain", "bandwidth", "correction"} : Reapplied(d, n, k) = Find(n.set, k)
  <2> TAKE key \in {"gain", "bandwidth", "correction"}
  <2>1. d[key] = Find(a.set, key) /\ d.driver = Driver(n.set)
        /\ PlanReapplied(a.set, n.set, key).restart = {}
    BY <1>2, <1>3
  <2> QED BY <2>1, ReappliedIs
<1>8. PpmRuns(s.set, n.set)
  BY <1>3, AutoPpmReloaded DEF PpmRuns, IsDevice
<1>9. (IF d.ppmReady THEN FlagOr(n.set, "auto_ppm", FALSE) ELSE d.ppm) = FlagOr(n.set, "auto_ppm", FALSE)
  <2>1. FlagOr(n.set, "auto_ppm", FALSE) \in BOOLEAN /\ FlagOr(a.set, "auto_ppm", FALSE) \in BOOLEAN
    BY Flags DEF IsDevice
  <2> QED BY <1>2, <1>8, <2>1 DEF PpmRuns, DeviceRuns
<1>10. MeantGroup(a.set, DeviceLiveKeys \cup {"reserve_channels"})
         = MeantGroup(n.set, DeviceLiveKeys \cup {"reserve_channels"})
  BY <1>3, UnchangedMeans DEF IsDevice
<1>11. ReloadDevice(d, n) = DeviceOf(s, n, to)
  <2> DEFINE channels == FreshChannels(Active(n.channels))  rate == RateOf(n.set)
             gain == Find(n.set, "gain")  bandwidth == Find(n.set, "bandwidth")
             correction == Find(n.set, "correction")  ppm == FlagOr(n.set, "auto_ppm", FALSE)
             then == [d EXCEPT !.channels = channels, !.centerfreq = to, !.rate = rate, !.gain = gain,
                               !.bandwidth = bandwidth, !.correction = correction, !.ppm = ppm]
  <2>1. ReloadDevice(d, n) = then
    BY <1>2, <1>3, <1>4, <1>6, <1>7, <1>9 DEF ReloadDevice
  <2>2. then = [driver |-> d.driver, scan |-> d.scan, channels |-> channels, centerfreq |-> to,
                rate |-> rate, gain |-> gain, bandwidth |-> bandwidth, correction |-> correction,
                ppm |-> ppm, other |-> d.other, room |-> d.room, ppmReady |-> d.ppmReady,
                params |-> d.params]
    <3>1. /\ DOMAIN d = {"driver", "scan", "channels", "centerfreq", "rate", "gain", "bandwidth",
                         "correction", "ppm", "other", "room", "ppmReady", "params"}
          /\ d = [k \in DOMAIN d |-> d[k]]
      BY <1>1 DEF DeviceOf
    <3> HIDE DEF channels, rate, gain, bandwidth, correction, ppm, to
    <3>2. DOMAIN then = DOMAIN d /\ then = [k \in DOMAIN d |-> then[k]]
      OBVIOUS
    <3>3. then.channels = channels /\ then.centerfreq = to /\ then.rate = rate /\ then.gain = gain
      BY <3>1
    <3>4. then.bandwidth = bandwidth /\ then.correction = correction /\ then.ppm = ppm
      BY <3>1
    <3>5. then.driver = d.driver /\ then.scan = d.scan /\ then.other = d.other
      BY <3>1
    <3>6. then.room = d.room /\ then.ppmReady = d.ppmReady /\ then.params = d.params
      BY <3>1
    <3> HIDE DEF then
    <3> QED BY <3>1, <3>2, <3>3, <3>4, <3>5, <3>6
  <2> HIDE DEF then, to
  <2> QED BY <1>2, <1>3, <1>10, <2>1, <2>2 DEF DeviceOf
<1>12. ReloadDevice(d, n).centerfreq = to
  <2> HIDE DEF to
  <2> QED BY <1>11 DEF DeviceOf
<1> HIDE DEF to
<1> QED BY <1>5, <1>8, <1>11, <1>12 DEF DeviceRuns

\* What one hears of a device that runs a.
ChannelsHeard(cs) ==
  [j \in DOMAIN cs |-> <<MeantGroup(cs[j].set, {"enabled"}), FlagOr(cs[j].set, "enabled", TRUE)>>]
DeviceHeard(a) ==
  [driver |-> Driver(a.set), scan |-> IsScan(a.set), rate |-> RateOf(a.set),
   gain |-> Find(a.set, "gain"), channels |-> ChannelsHeard(Active(a.channels)),
   centerfreq |-> Tuned(a.set), bandwidth |-> Find(a.set, "bandwidth"),
   correction |-> Find(a.set, "correction"),
   other |-> MeantGroup(a.set, DeviceLiveKeys \cup {"reserve_channels"}),
   ppm |-> FlagOr(a.set, "auto_ppm", FALSE),
   params |-> IF FlagOr(a.set, "auto_ppm", FALSE) THEN Params(a.set) ELSE NotSet]

LEMMA ChannelsAreHeard ==
  ASSUME NEW cs
  PROVE  LET fresh == FreshChannels(cs)
         IN  [j \in DOMAIN fresh |-> <<fresh[j].does, fresh[j].enabled>>] = ChannelsHeard(cs)
<1> DEFINE fresh == FreshChannels(cs)
<1>1. DOMAIN fresh = DOMAIN cs /\ \A j \in DOMAIN cs : fresh[j] = FreshChannel(cs[j])
  BY DEF FreshChannels
<1>2. \A c : /\ FreshChannel(c).does = MeantGroup(c.set, {"enabled"})
             /\ FreshChannel(c).enabled = FlagOr(c.set, "enabled", TRUE)
  BY DEF FreshChannel
<1>3. \A j \in DOMAIN cs : <<fresh[j].does, fresh[j].enabled>>
                             = <<MeantGroup(cs[j].set, {"enabled"}), FlagOr(cs[j].set, "enabled", TRUE)>>
  BY <1>1, <1>2
<1> HIDE DEF fresh
<1>4. [j \in DOMAIN fresh |-> <<fresh[j].does, fresh[j].enabled>>] = ChannelsHeard(cs)
  BY <1>1, <1>3 DEF ChannelsHeard
<1> QED BY <1>4 DEF fresh

LEMMA DeviceIsHeard ==
  ASSUME NEW s, NEW a, IsGroup(a.set), NEW d, DeviceRuns(s, a, d)
  PROVE  HeardDevice(d) = DeviceHeard(a)
<1>1. /\ d.driver = Driver(a.set) /\ d.scan = IsScan(a.set)
      /\ d.channels = FreshChannels(Active(a.channels))
      /\ d.rate = RateOf(a.set) /\ d.gain = Find(a.set, "gain")
      /\ d.bandwidth = Find(a.set, "bandwidth") /\ d.correction = Find(a.set, "correction")
      /\ d.ppm = FlagOr(a.set, "auto_ppm", FALSE)
      /\ d.other = MeantGroup(a.set, DeviceLiveKeys \cup {"reserve_channels"})
      /\ d.params = Params(s.set)
  <2> DEFINE cf == d.centerfreq
  <2>1. d = DeviceOf(s, a, cf)
    BY DEF DeviceRuns
  <2> HIDE DEF cf
  <2> QED BY <2>1 DEF DeviceOf
<1>2. [j \in DOMAIN d.channels |-> <<d.channels[j].does, d.channels[j].enabled>>]
        = ChannelsHeard(Active(a.channels))
  BY <1>1, ChannelsAreHeard
<1>3. (IF d.ppm THEN d.params ELSE NotSet)
        = (IF FlagOr(a.set, "auto_ppm", FALSE) THEN Params(a.set) ELSE NotSet)
  <2>1. FlagOr(a.set, "auto_ppm", FALSE) \in BOOLEAN
    BY Flags
  <2>2. FlagOr(a.set, "auto_ppm", FALSE) => Params(s.set) = Params(a.set)
    BY DEF DeviceRuns, PpmRuns
  <2> QED BY <1>1, <2>1, <2>2
<1>4. Meant("centerfreq", d.centerfreq) = Tuned(a.set)
  BY DEF DeviceRuns
<1> QED BY <1>1, <1>2, <1>3, <1>4 DEF HeardDevice, DeviceHeard

LEMMA FreshDeviceRuns ==
  ASSUME NEW a
  PROVE  DeviceRuns(a, a, FreshDevice(a))
<1> DEFINE cf == IF IsScan(a.set) THEN NotSet ELSE Find(a.set, "centerfreq")
<1>1. FreshDevice(a) = DeviceOf(a, a, cf)
  BY FreshDeviceIs
<1>2. Meant("centerfreq", cf) = Tuned(a.set)
  BY DEF Tuned
<1> HIDE DEF cf
<1>3. FreshDevice(a).centerfreq = cf
  BY <1>1 DEF DeviceOf
<1>4. PpmRuns(a.set, a.set)
  BY DEF PpmRuns, FlagOr, NotSet, Lit
<1> QED BY <1>1, <1>2, <1>3, <1>4 DEF DeviceRuns

\* What the plan calls no change of a device is not heard.
LEMMA DeviceUnchanged ==
  ASSUME NEW s, NEW a, NEW n, IsDevice(s), IsDevice(a), IsDevice(n), PpmRuns(s.set, a.set),
         PlanDevice(s, a, n).restart = {}, PlanDevice(s, a, n).live = {}
  PROVE  DeviceHeard(a) = DeviceHeard(n)
<1>1. /\ Driver(a.set) = Driver(n.set) /\ IsScan(a.set) = IsScan(n.set)
      /\ PlanChannels(s, a, n).restart = {} /\ PlanFrequency(a.set, n.set).restart = {}
      /\ PlanRate(a.set, n.set).restart = {} /\ PlanAutoPpm(s.set, a.set, n.set).restart = {}
      /\ ChangedKeys(a.set, n.set, DeviceLiveKeys) = {}
      /\ \A k \in {"gain", "bandwidth", "correction"} : PlanReapplied(a.set, n.set, k).restart = {}
      /\ PlanChannels(s, a, n).live = {} /\ PlanFrequency(a.set, n.set).live = {}
      /\ PlanRate(a.set, n.set).live = {} /\ PlanAutoPpm(s.set, a.set, n.set).live = {}
      /\ \A k \in {"gain", "bandwidth", "correction"} : PlanReapplied(a.set, n.set, k).live = {}
  <2>1. /\ Driver(a.set) = Driver(n.set) /\ IsScan(a.set) = IsScan(n.set)
        /\ PlanChannels(s, a, n).restart = {} /\ PlanFrequency(a.set, n.set).restart = {}
        /\ PlanRate(a.set, n.set).restart = {} /\ PlanAutoPpm(s.set, a.set, n.set).restart = {}
        /\ ChangedKeys(a.set, n.set, DeviceLiveKeys) = {}
        /\ \A k \in {"gain", "bandwidth", "correction"} : PlanReapplied(a.set, n.set, k).restart = {}
    BY DevicePlanned
  <2>2. /\ PlanChannels(s, a, n).live = {} /\ PlanFrequency(a.set, n.set).live = {}
        /\ PlanRate(a.set, n.set).live = {} /\ PlanAutoPpm(s.set, a.set, n.set).live = {}
        /\ \A k \in {"gain", "bandwidth", "correction"} : PlanReapplied(a.set, n.set, k).live = {}
    BY DevicePlanned
  <2> QED BY <2>1, <2>2
<1>2. Tuned(a.set) = Tuned(n.set) /\ RateOf(a.set) = RateOf(n.set)
  BY <1>1, FrequencyUnchanged, RateReloaded
<1>3. \A k \in {"gain", "bandwidth", "correction"} : Find(a.set, k) = Find(n.set, k)
  BY <1>1, ReappliedUnchanged
<1>4. MeantGroup(a.set, DeviceLiveKeys \cup {"reserve_channels"})
        = MeantGroup(n.set, DeviceLiveKeys \cup {"reserve_channels"})
  BY <1>1, UnchangedMeans DEF IsDevice
<1>5. /\ FlagOr(a.set, "auto_ppm", FALSE) = FlagOr(n.set, "auto_ppm", FALSE)
      /\ FlagOr(n.set, "auto_ppm", FALSE) => Params(a.set) = Params(n.set)
  <2>1. /\ FlagOr(n.set, "auto_ppm", FALSE) \in BOOLEAN
        /\ FlagOr(a.set, "auto_ppm", FALSE) \in BOOLEAN
    BY Flags DEF IsDevice
  <2>2. CASE Find(s.set, "auto_ppm") = NotSet
    <3>1. ~FlagOr(n.set, "auto_ppm", FALSE)
      BY <1>1, <2>2, AutoPpmReloaded DEF IsDevice
    <3> QED BY <2>1, <2>2, <3>1 DEF PpmRuns
  <2>3. CASE Find(s.set, "auto_ppm") # NotSet
    <3>1. Params(s.set) = Params(n.set)
      BY <1>1, <2>3, AutoPpmReloaded DEF IsDevice
    <3>2. FlagOr(a.set, "auto_ppm", FALSE) = FlagOr(n.set, "auto_ppm", FALSE)
      BY <1>1, <2>3, AutoPpmUnchanged DEF IsDevice
    <3> QED BY <2>3, <3>1, <3>2 DEF PpmRuns
  <2> QED BY <2>2, <2>3
<1>6. ChannelsHeard(Active(a.channels)) = ChannelsHeard(Active(n.channels))
  <2> DEFINE old == Active(a.channels)  new == Active(n.channels)
  <2>1. /\ DOMAIN old = 1..Len(old) /\ DOMAIN new = 1..Len(new)
        /\ \A j \in DOMAIN old : IsGroup(old[j].set)
        /\ \A j \in DOMAIN new : IsGroup(new[j].set)
    BY ActiveType DEF IsDevice, AreItems
  <2>2. CommonChannels(a, n) = Len(old) /\ CommonChannels(a, n) = Len(new)
    BY <1>1, ChannelsUnchanged DEF IsDevice
  <2>3. \A j \in 1..CommonChannels(a, n) :
          ChangedKeys(old[j].set, new[j].set, {"enabled"}) = {}
    BY <1>1, ChannelsPlanned DEF IsDevice
  <2>4. \A j \in 1..CommonChannels(a, n) :
          Enabled(old[j]) = Enabled(new[j])
    BY <1>1, ChannelsUnchanged DEF IsDevice
  <2> HIDE DEF old, new
  <2>5. \A j \in DOMAIN old :
          MeantGroup(old[j].set, {"enabled"}) = MeantGroup(new[j].set, {"enabled"})
    <3> TAKE j \in DOMAIN old
    <3>1. IsGroup(old[j].set) /\ IsGroup(new[j].set)
          /\ ChangedKeys(old[j].set, new[j].set, {"enabled"}) = {}
      BY <2>1, <2>2, <2>3
    <3> QED BY <3>1, UnchangedMeans
  <2>6. ChannelsHeard(old) = ChannelsHeard(new)
    BY <2>1, <2>2, <2>4, <2>5 DEF ChannelsHeard, Enabled
  <2> QED BY <2>6 DEF old, new
<1> QED BY <1>1, <1>2, <1>3, <1>4, <1>5, <1>6 DEF DeviceHeard

\* Groups that agree on every setting: what is active in one list is so in the other.
LEMMA SameGroupsActive ==
  ASSUME NEW a, AreItems(a), NEW n, AreItems(n), SameGroups(a, n)
  PROVE  /\ DOMAIN Active(a) = DOMAIN Active(n)
         /\ \A j \in DOMAIN Active(a) :
              \E i \in DOMAIN a : Active(a)[j] = a[i] /\ Active(n)[j] = n[i]
<1>1. ASSUME NEW i \in DOMAIN a
      PROVE  Disabled(a[i]) = Disabled(n[i])
  <2>1. Find(a[i].set, "disable") = Find(n[i].set, "disable")
    <3>1. ChangedKeys(a[i].set, n[i].set, {}) = {}
      BY <1>1 DEF SameGroups
    <3> QED BY <3>1, Unchanged
  <2>2. IsGroup(a[i].set) /\ IsGroup(n[i].set)
    <3>1. DOMAIN a = DOMAIN n
      BY ListType DEF SameGroups, AreItems
    <3> QED BY <1>1, <3>1 DEF AreItems
  <2>3. Find(a[i].set, "disable").ty # "absent" => a[i].set["disable"] = n[i].set["disable"]
    BY <2>1, <2>2, FoundAlike
  <2> QED BY <2>1, <2>3 DEF Disabled, FlagOr
<1> QED BY <1>1, ActiveAlike DEF SameGroups

LEMMA DeviceSame ==
  ASSUME NEW a, NEW n, IsDevice(a), IsDevice(n), ChangedKeys(a.set, n.set, {}) = {},
         SameGroups(a.channels, n.channels)
  PROVE  DeviceHeard(a) = DeviceHeard(n)
<1>1. \A k : k # "dest_port" => Find(a.set, k) = Find(n.set, k)
  BY Unchanged
<1>2. /\ Driver(a.set) = Driver(n.set) /\ IsScan(a.set) = IsScan(n.set)
      /\ RateOf(a.set) = RateOf(n.set) /\ Tuned(a.set) = Tuned(n.set)
      /\ Find(a.set, "gain") = Find(n.set, "gain")
      /\ Find(a.set, "bandwidth") = Find(n.set, "bandwidth")
      /\ Find(a.set, "correction") = Find(n.set, "correction")
  <2>1. Driver(a.set) = Driver(n.set) /\ IsScan(a.set) = IsScan(n.set)
    <3>1. ASSUME NEW k, k # "dest_port", NEW v
          PROVE  StrOr(a.set, k, v) = StrOr(n.set, k, v)
      BY <1>1, <3>1, FoundAlike DEF IsDevice, StrOr
    <3> QED BY <3>1 DEF Driver, IsScan
  <2>2. RateOf(a.set) = RateOf(n.set)
    BY <1>1 DEF RateOf
  <2>3. Tuned(a.set) = Tuned(n.set)
    BY <1>1, <2>1 DEF Tuned
  <2> QED BY <1>1, <2>1, <2>2, <2>3
<1>3. FlagOr(a.set, "auto_ppm", FALSE) = FlagOr(n.set, "auto_ppm", FALSE)
  <2>1. Find(a.set, "auto_ppm") = Find(n.set, "auto_ppm")
    BY <1>1
  <2>2. Find(a.set, "auto_ppm").ty # "absent" => a.set["auto_ppm"] = n.set["auto_ppm"]
    BY <2>1, FoundAlike DEF IsDevice
  <2> QED BY <2>1, <2>2 DEF FlagOr
<1>4. Params(a.set) = Params(n.set)
  <2>1. \A k \in DOMAIN PpmParams : NumberOr(a.set, k, PpmParams[k]) = NumberOr(n.set, k, PpmParams[k])
    <3>1. \A k \in DOMAIN PpmParams : k # "dest_port"
      BY DEF PpmParams
    <3> QED BY <1>1, <3>1 DEF NumberOr
  <2> QED BY <2>1 DEF Params
<1>5. MeantGroup(a.set, DeviceLiveKeys \cup {"reserve_channels"})
        = MeantGroup(n.set, DeviceLiveKeys \cup {"reserve_channels"})
  BY UnchangedMeans DEF IsDevice
<1>6. ChannelsHeard(Active(a.channels)) = ChannelsHeard(Active(n.channels))
  <2> DEFINE old == Active(a.channels)  new == Active(n.channels)
  <2>1. /\ DOMAIN old = DOMAIN new
        /\ \A j \in DOMAIN old :
             \E i \in DOMAIN a.channels : old[j] = a.channels[i] /\ new[j] = n.channels[i]
    BY SameGroupsActive DEF IsDevice
  <2> HIDE DEF old, new
  <2>2. ASSUME NEW j \in DOMAIN old
        PROVE  /\ MeantGroup(old[j].set, {"enabled"}) = MeantGroup(new[j].set, {"enabled"})
               /\ FlagOr(old[j].set, "enabled", TRUE) = FlagOr(new[j].set, "enabled", TRUE)
    <3>1. PICK i \in DOMAIN a.channels : old[j] = a.channels[i] /\ new[j] = n.channels[i]
      BY <2>1, <2>2
    <3>2. ChangedKeys(old[j].set, new[j].set, {}) = {}
      BY <3>1 DEF SameGroups
    <3>3. IsGroup(old[j].set) /\ IsGroup(new[j].set)
      <4>1. DOMAIN a.channels = DOMAIN n.channels
        BY ListType DEF SameGroups, IsDevice, AreItems
      <4> QED BY <3>1, <4>1 DEF IsDevice, AreItems
    <3>4. Find(old[j].set, "enabled") = Find(new[j].set, "enabled")
      BY <3>2, Unchanged
    <3>5. Find(old[j].set, "enabled").ty # "absent" => old[j].set["enabled"] = new[j].set["enabled"]
      BY <3>3, <3>4, FoundAlike
    <3>6. FlagOr(old[j].set, "enabled", TRUE) = FlagOr(new[j].set, "enabled", TRUE)
      BY <3>4, <3>5 DEF FlagOr
    <3>7. MeantGroup(old[j].set, {"enabled"}) = MeantGroup(new[j].set, {"enabled"})
      BY <3>2, <3>3, UnchangedMeans
    <3> QED BY <3>6, <3>7
  <2>3. ChannelsHeard(old) = ChannelsHeard(new)
    BY <2>1, <2>2 DEF ChannelsHeard
  <2> QED BY <2>3 DEF old, new
<1> QED BY <1>2, <1>3, <1>4, <1>5, <1>6 DEF DeviceHeard

-----------------------------------------------------------------------------
(***************************************************************************)
(* Mixers.                                                                  *)
(***************************************************************************)

LEMMA MixerPlanned ==
  ASSUME NEW a, NEW n, IsGroup(a.set), IsGroup(n.set), PlanMixer(a, n).restart = {}
  PROVE  /\ a.name = n.name /\ Find(a.set, "remote_inputs") = Find(n.set, "remote_inputs")
         /\ MeantGroup(a.set, {"enabled", "disable"}) = MeantGroup(n.set, {"enabled", "disable"})
         /\ PlanMixer(a, n).live = {} => FreshMixer(a) = FreshMixer(n)
<1> DEFINE other == ChangedKeys(a.set, n.set, {"enabled", "disable", "remote_inputs"}) # {}
           toggled == FlagOr(a.set, "enabled", TRUE) # FlagOr(n.set, "enabled", TRUE)
           plans == {LiveIf(toggled, "mixer"), RestartIf(other, "mixer setting")}
<1>1. RestartIf(TRUE, "mixer name").restart # {} /\ RestartIf(TRUE, "remote_inputs").restart # {}
  BY IfIs
<1>2. a.name = n.name /\ Find(a.set, "remote_inputs") = Find(n.set, "remote_inputs")
  BY <1>1 DEF PlanMixer
<1>3. PlanMixer(a, n) = Together(plans)
  BY <1>2 DEF PlanMixer
<1> HIDE DEF toggled, other
<1>4. \A p \in plans : p.restart = {}
  <2> HIDE DEF plans
  <2> QED BY <1>3, TogetherIs
<1>5. ~other
  <2>1. RestartIf(other, "mixer setting").restart = {} /\ other \in BOOLEAN
    BY <1>4 DEF other
  <2> QED BY <2>1, IfIs
<1>6. MeantGroup(a.set, {"enabled", "disable"}) = MeantGroup(n.set, {"enabled", "disable"})
  <2>1. ChangedKeys(a.set, n.set, {"enabled", "disable"}) = {}
    <3>1. \A k : k \in ChangedKeys(a.set, n.set, {"enabled", "disable"}) =>
                   k \in ChangedKeys(a.set, n.set, {"enabled", "disable", "remote_inputs"})
      BY <1>2 DEF ChangedKeys, SameSetting
    <3> QED BY <1>5, <3>1 DEF other
  <2> QED BY <2>1, UnchangedMeans
<1>7. ASSUME PlanMixer(a, n).live = {}
      PROVE  FreshMixer(a) = FreshMixer(n)
  <2>1. \A p \in plans : p.live = {}
    <3> HIDE DEF plans
    <3> QED BY <1>3, <1>7, TogetherIs
  <2>2. LiveIf(toggled, "mixer").live = {} /\ toggled \in BOOLEAN
    BY <2>1 DEF toggled
  <2>3. ~toggled
    BY <2>2, IfIs
  <2> QED BY <1>2, <1>6, <2>3 DEF FreshMixer, toggled
<1> QED BY <1>2, <1>6, <1>7

LEMMA MixerReloaded ==
  ASSUME NEW a, NEW n, IsGroup(a.set), IsGroup(n.set), PlanMixer(a, n).restart = {},
         NEW m, m = FreshMixer(a)
  PROVE  /\ m.name = n.name /\ Find(m.other, "remote_inputs") = Find(n.set, "remote_inputs")
         /\ m = [name |-> n.name, enabled |-> Enabled(a), other |-> FreshMixer(n).other]
         /\ FreshMixer(n) = [name |-> n.name, enabled |-> Enabled(n), other |-> FreshMixer(n).other]
<1>1. /\ a.name = n.name /\ Find(a.set, "remote_inputs") = Find(n.set, "remote_inputs")
      /\ MeantGroup(a.set, {"enabled", "disable"}) = MeantGroup(n.set, {"enabled", "disable"})
  BY MixerPlanned
<1>2. m = [name |-> n.name, enabled |-> FlagOr(a.set, "enabled", TRUE),
           other |-> MeantGroup(n.set, {"enabled", "disable"})]
  BY <1>1 DEF FreshMixer
<1>3. Find(MeantGroup(n.set, {"enabled", "disable"}), "remote_inputs") = Find(n.set, "remote_inputs")
  <2>1. \A l : Meant("remote_inputs", l) = l
    BY DEF Meant
  <2> QED BY <2>1 DEF MeantGroup, Find
<1>4. FreshMixer(n).other = MeantGroup(n.set, {"enabled", "disable"})
  BY DEF FreshMixer
<1>5. m.name = n.name /\ m.other = MeantGroup(n.set, {"enabled", "disable"})
  BY <1>2
<1> QED BY <1>2, <1>3, <1>4, <1>5 DEF FreshMixer, Enabled

LEMMA MixerSame ==
  ASSUME NEW a, NEW n, IsGroup(a.set), IsGroup(n.set), a.name = n.name,
         ChangedKeys(a.set, n.set, {}) = {}
  PROVE  FreshMixer(a) = FreshMixer(n)
<1>1. MeantGroup(a.set, {"enabled", "disable"}) = MeantGroup(n.set, {"enabled", "disable"})
  BY UnchangedMeans
<1>2. Find(a.set, "enabled") = Find(n.set, "enabled")
  BY Unchanged
<1>3. FlagOr(a.set, "enabled", TRUE) = FlagOr(n.set, "enabled", TRUE)
  <2>1. Find(a.set, "enabled").ty # "absent" => a.set["enabled"] = n.set["enabled"]
    BY <1>2, FoundAlike
  <2> QED BY <1>2, <2>1 DEF FlagOr
<1> QED BY <1>1, <1>3 DEF FreshMixer

-----------------------------------------------------------------------------
(***************************************************************************)
(* The process.                                                             *)
(***************************************************************************)

ActiveDevice(c, i) == Active(c.devices)[i]
ActiveMixer(c, i) == Active(c.mixers)[i]
Devices(c) == Len(Active(c.devices))
Mixers(c) == Len(Active(c.mixers))

LEMMA ConfigType ==
  ASSUME NEW c, IsConfig(c)
  PROVE  /\ IsGroup(c.set)
         /\ Devices(c) \in Nat /\ DOMAIN Active(c.devices) = 1..Devices(c)
         /\ Mixers(c) \in Nat /\ DOMAIN Active(c.mixers) = 1..Mixers(c)
         /\ \A i \in 1..Devices(c) :
              IsDevice(ActiveDevice(c, i)) /\ \E k \in DOMAIN c.devices : ActiveDevice(c, i) = c.devices[k]
         /\ \A i \in 1..Mixers(c) : IsGroup(ActiveMixer(c, i).set)
<1>1. /\ AreItems(Active(c.devices)) /\ Devices(c) \in Nat /\ DOMAIN Active(c.devices) = 1..Devices(c)
      /\ \A j \in DOMAIN Active(c.devices) : \E k \in DOMAIN c.devices : Active(c.devices)[j] = c.devices[k]
  BY ActiveType DEF IsConfig, Devices
<1>2. /\ AreItems(Active(c.mixers)) /\ Mixers(c) \in Nat /\ DOMAIN Active(c.mixers) = 1..Mixers(c)
  BY ActiveType DEF IsConfig, Mixers
<1> QED BY <1>1, <1>2 DEF IsConfig, AreItems, IsDevice, ActiveDevice, ActiveMixer

\* What a process does that was started with s and has had every change up to a applied.
ProcessRuns(s, a, p) ==
  /\ p = [socket |-> StrOr(s.set, "control_socket_path", Blank), set |-> MeantGroup(a.set, {}),
          devices |-> p.devices, mixers |-> FreshMixers(Active(a.mixers))]
  /\ Devices(s) = Devices(a) /\ Len(p.devices) = Devices(a)
  /\ p.devices = [i \in 1..Devices(a) |-> p.devices[i]]
  /\ \A i \in 1..Devices(a) : DeviceRuns(ActiveDevice(s, i), ActiveDevice(a, i), p.devices[i])

PlanInv ==
  /\ focus \in DOMAIN Edits /\ started \in Edits[focus] /\ applied \in Edits[focus]
  /\ ~tainted => ProcessRuns(started, applied, process)

LEMMA FreshProcessRuns ==
  ASSUME NEW c, IsConfig(c)
  PROVE  ProcessRuns(c, c, FreshProcess(c))
<1> DEFINE ds == FreshDevices(Active(c.devices))
<1>1. /\ Devices(c) \in Nat /\ DOMAIN Active(c.devices) = 1..Devices(c)
  BY ConfigType
<1>2. ds = [i \in 1..Devices(c) |-> FreshDevice(ActiveDevice(c, i))]
  BY <1>1 DEF FreshDevices, ActiveDevice
<1>3. FreshProcess(c) =
        [socket |-> StrOr(c.set, "control_socket_path", Blank), set |-> MeantGroup(c.set, {}),
         devices |-> ds, mixers |-> FreshMixers(Active(c.mixers))]
  BY DEF FreshProcess
<1> HIDE DEF ds
<1>4. Len(ds) = Devices(c) /\ ds = [i \in 1..Devices(c) |-> ds[i]]
  BY <1>1, <1>2
<1>5. \A i \in 1..Devices(c) : DeviceRuns(ActiveDevice(c, i), ActiveDevice(c, i), ds[i])
  BY <1>2, FreshDeviceRuns
<1>6. FreshProcess(c).devices = ds
  BY <1>3
<1> QED BY <1>3, <1>4, <1>5, <1>6 DEF ProcessRuns

\* What one hears of a process that runs a.
ConfigHeard(a) ==
  [set |-> MeantGroup(a.set, {}), mixers |-> FreshMixers(Active(a.mixers)),
   devices |-> [i \in 1..Devices(a) |-> DeviceHeard(ActiveDevice(a, i))]]

LEMMA ProcessIsHeard ==
  ASSUME NEW s, NEW a, IsConfig(a), NEW p, ProcessRuns(s, a, p)
  PROVE  Heard(p) = ConfigHeard(a)
<1>1. p.set = MeantGroup(a.set, {}) /\ p.mixers = FreshMixers(Active(a.mixers))
  <2> DEFINE ds == p.devices
  <2>1. p = [socket |-> StrOr(s.set, "control_socket_path", Blank), set |-> MeantGroup(a.set, {}),
             devices |-> ds, mixers |-> FreshMixers(Active(a.mixers))]
    BY DEF ProcessRuns
  <2> HIDE DEF ds
  <2> QED BY <2>1
<1>2. DOMAIN p.devices = 1..Devices(a)
  BY DEF ProcessRuns
<1>3. \A i \in 1..Devices(a) : HeardDevice(p.devices[i]) = DeviceHeard(ActiveDevice(a, i))
  <2> TAKE i \in 1..Devices(a)
  <2>1. IsGroup(ActiveDevice(a, i).set)
    BY ConfigType DEF IsDevice
  <2>2. DeviceRuns(ActiveDevice(s, i), ActiveDevice(a, i), p.devices[i])
    BY DEF ProcessRuns
  <2> QED BY <2>1, <2>2, DeviceIsHeard
<1>4. [i \in DOMAIN p.devices |-> HeardDevice(p.devices[i])]
        = [i \in 1..Devices(a) |-> DeviceHeard(ActiveDevice(a, i))]
  BY <1>2, <1>3
<1> QED BY <1>1, <1>4 DEF Heard, ConfigHeard

\* What a plan that asks for no restart says of a process with a control socket.
LEMMA ChangePlanned ==
  ASSUME NEW s, NEW a, IsConfig(a), NEW n, IsConfig(n), HasSocket(s),
         PlanChange(s, a, n).restart = {}
  PROVE  /\ ChangedKeys(a.set, n.set, {}) = {}
         /\ Devices(a) = Devices(n) /\ Mixers(a) = Mixers(n)
         /\ \A i \in 1..Devices(a) :
              PlanDevice(ActiveDevice(s, i), ActiveDevice(a, i), ActiveDevice(n, i)).restart = {}
         /\ \A i \in 1..Mixers(a) : PlanMixer(ActiveMixer(a, i), ActiveMixer(n, i)).restart = {}
<1> DEFINE changed == ChangedKeys(a.set, n.set, {}) # {}
           plans == {RestartIf(changed, "global"), PlanDevices(s, a, n), PlanMixers(a, n)}
<1>1. PlanChange(s, a, n) = Together(plans)
  BY DEF PlanChange
<1> HIDE DEF changed
<1>2. \A p \in plans : p.restart = {}
  <2> HIDE DEF plans
  <2> QED BY <1>1, TogetherIs
<1>3. ~changed
  <2>1. RestartIf(changed, "global").restart = {} /\ changed \in BOOLEAN
    BY <1>2 DEF changed
  <2> QED BY <2>1, IfIs
<1>4. /\ DOMAIN Active(a.devices) = 1..Devices(a) /\ DOMAIN Active(a.mixers) = 1..Mixers(a)
  BY ConfigType
<1>5. PlanDevices(s, a, n).restart = {} /\ PlanMixers(a, n).restart = {}
  BY <1>2
<1>6. Devices(a) = Devices(n) /\ Mixers(a) = Mixers(n)
  <2>1. RestartIf(TRUE, "device count").restart # {} /\ RestartIf(TRUE, "mixer count").restart # {}
    BY IfIs
  <2> QED BY <1>5, <2>1 DEF PlanDevices, PlanMixers, Devices, Mixers
<1>7. \A i \in 1..Devices(a) :
        PlanDevice(ActiveDevice(s, i), ActiveDevice(a, i), ActiveDevice(n, i)).restart = {}
  <2> DEFINE ps == {PlanDevice(ActiveDevice(s, i), ActiveDevice(a, i), ActiveDevice(n, i)) :
                      i \in 1..Devices(a)}
  <2>1. PlanDevices(s, a, n) = Together(ps)
    BY <1>4, <1>6 DEF PlanDevices, Devices, ActiveDevice
  <2>2. \A p \in ps : p.restart = {}
    <3> HIDE DEF ps
    <3> QED BY <1>5, <2>1, TogetherIs
  <2> QED BY <2>2
<1>8. \A i \in 1..Mixers(a) : PlanMixer(ActiveMixer(a, i), ActiveMixer(n, i)).restart = {}
  <2> DEFINE ps == {PlanMixer(ActiveMixer(a, i), ActiveMixer(n, i)) : i \in 1..Mixers(a)}
  <2>1. PlanMixers(a, n) = Together(ps)
    BY <1>4, <1>6 DEF PlanMixers, Mixers, ActiveMixer
  <2>2. \A p \in ps : p.restart = {}
    <3> HIDE DEF ps
    <3> QED BY <1>5, <2>1, TogetherIs
  <2> QED BY <2>2
<1> QED BY <1>3, <1>6, <1>7, <1>8 DEF changed

LEMMA NoChangePlanned ==
  ASSUME NEW s, NEW a, IsConfig(a), NEW n, IsConfig(n), HasSocket(s),
         PlanChange(s, a, n).restart = {}, PlanChange(s, a, n).live = {}
  PROVE  /\ \A i \in 1..Devices(a) :
              PlanDevice(ActiveDevice(s, i), ActiveDevice(a, i), ActiveDevice(n, i)).live = {}
         /\ \A i \in 1..Mixers(a) : PlanMixer(ActiveMixer(a, i), ActiveMixer(n, i)).live = {}
<1> DEFINE changed == ChangedKeys(a.set, n.set, {}) # {}
           plans == {RestartIf(changed, "global"), PlanDevices(s, a, n), PlanMixers(a, n)}
<1>1. PlanChange(s, a, n) = Together(plans)
  BY DEF PlanChange
<1> HIDE DEF changed
<1>2. \A p \in plans : p.live = {}
  <2> HIDE DEF plans
  <2> QED BY <1>1, TogetherIs
<1>3. /\ DOMAIN Active(a.devices) = 1..Devices(a) /\ DOMAIN Active(a.mixers) = 1..Mixers(a)
  BY ConfigType
<1>4. PlanDevices(s, a, n).live = {} /\ PlanMixers(a, n).live = {}
  BY <1>2
<1>5. Devices(a) = Devices(n) /\ Mixers(a) = Mixers(n)
  BY ChangePlanned
<1>6. \A i \in 1..Devices(a) :
        PlanDevice(ActiveDevice(s, i), ActiveDevice(a, i), ActiveDevice(n, i)).live = {}
  <2> DEFINE ps == {PlanDevice(ActiveDevice(s, i), ActiveDevice(a, i), ActiveDevice(n, i)) :
                      i \in 1..Devices(a)}
  <2>1. PlanDevices(s, a, n) = Together(ps)
    BY <1>3, <1>5 DEF PlanDevices, Devices, ActiveDevice
  <2>2. \A p \in ps : p.live = {}
    <3> HIDE DEF ps
    <3> QED BY <1>4, <2>1, TogetherIs
  <2> QED BY <2>2
<1>7. \A i \in 1..Mixers(a) : PlanMixer(ActiveMixer(a, i), ActiveMixer(n, i)).live = {}
  <2> DEFINE ps == {PlanMixer(ActiveMixer(a, i), ActiveMixer(n, i)) : i \in 1..Mixers(a)}
  <2>1. PlanMixers(a, n) = Together(ps)
    BY <1>3, <1>5 DEF PlanMixers, Mixers, ActiveMixer
  <2>2. \A p \in ps : p.live = {}
    <3> HIDE DEF ps
    <3> QED BY <1>4, <2>1, TogetherIs
  <2> QED BY <2>2
<1> QED BY <1>6, <1>7

LEMMA WrittenIsPlain ==
  ASSUME NEW c, IsConfig(c), Written(c), NEW i \in 1..Devices(c)
  PROVE  Plain(ActiveDevice(c, i).set)
<1>1. PICK k \in DOMAIN c.devices : ActiveDevice(c, i) = c.devices[k]
  BY ConfigType
<1>2. WrittenGroup(c.devices[k].set)
  BY DEF Written
<1> QED BY <1>1, <1>2 DEF WrittenGroup, Plain, Find, NotSet, Lit

\* After a plan that asks for no restart, reload_diff leaves a process that runs the new
\* config.
LEMMA ProcessReloaded ==
  ASSUME NEW s, IsConfig(s), NEW a, IsConfig(a), NEW n, IsConfig(n), NEW p, ProcessRuns(s, a, p),
         HasSocket(s), Written(n), PlanChange(s, a, n).restart = {}
  PROVE  ProcessRuns(s, n, Reload(p, n))
<1> DEFINE socket == StrOr(s.set, "control_socket_path", Blank)
           set == MeantGroup(a.set, {})
           ds == p.devices
           ms == FreshMixers(Active(a.mixers))
           toDs == [i \in 1..Devices(n) |-> ReloadDevice(ds[i], ActiveDevice(n, i))]
           toMs == FreshMixers(Active(n.mixers))
<1>1. /\ ChangedKeys(a.set, n.set, {}) = {}
      /\ Devices(a) = Devices(n) /\ Mixers(a) = Mixers(n)
      /\ \A i \in 1..Devices(a) :
           PlanDevice(ActiveDevice(s, i), ActiveDevice(a, i), ActiveDevice(n, i)).restart = {}
      /\ \A i \in 1..Mixers(a) : PlanMixer(ActiveMixer(a, i), ActiveMixer(n, i)).restart = {}
  BY ChangePlanned
<1>2. /\ Devices(n) \in Nat /\ DOMAIN Active(n.devices) = 1..Devices(n)
      /\ Mixers(n) \in Nat /\ DOMAIN Active(n.mixers) = 1..Mixers(n)
      /\ DOMAIN Active(a.mixers) = 1..Mixers(n)
  BY <1>1, ConfigType
<1>3. /\ p = [socket |-> socket, set |-> set, devices |-> ds, mixers |-> ms]
      /\ Devices(s) = Devices(n) /\ Len(ds) = Devices(n)
      /\ \A i \in 1..Devices(n) : DeviceRuns(ActiveDevice(s, i), ActiveDevice(a, i), ds[i])
  BY <1>1 DEF ProcessRuns
<1>4. set = MeantGroup(n.set, {})
  BY <1>1, ConfigType, UnchangedMeans
<1>5. \A i \in 1..Devices(n) : DeviceRuns(ActiveDevice(s, i), ActiveDevice(n, i), toDs[i])
  <2> TAKE i \in 1..Devices(n)
  <2>1. IsDevice(ActiveDevice(s, i)) /\ IsDevice(ActiveDevice(a, i)) /\ IsDevice(ActiveDevice(n, i))
    BY <1>1, <1>3, ConfigType
  <2>2. Plain(ActiveDevice(n, i).set)
    BY WrittenIsPlain
  <2>3. DeviceRuns(ActiveDevice(s, i), ActiveDevice(n, i), ReloadDevice(ds[i], ActiveDevice(n, i)))
    BY <1>1, <1>3, <2>1, <2>2, DeviceReloaded
  <2> QED BY <2>3
<1> HIDE DEF ds
<1>6. /\ ms = [i \in 1..Mixers(n) |-> FreshMixer(ActiveMixer(a, i))]
      /\ toMs = [i \in 1..Mixers(n) |-> FreshMixer(ActiveMixer(n, i))]
  BY <1>2 DEF FreshMixers, ActiveMixer
<1>7. /\ Len(ms) = Mixers(n) /\ DOMAIN ms = 1..Mixers(n) /\ Len(Active(n.mixers)) = Mixers(n)
      /\ Len(Active(n.devices)) = Devices(n)
  BY <1>2, <1>6 DEF Mixers, Devices
<1> DEFINE fits == Len(Active(n.mixers)) = Len(ms)
           reMs == [i \in DOMAIN ms |->
                      IF fits /\ ms[i].name = Active(n.mixers)[i].name
                           /\ Find(ms[i].other, "remote_inputs") = Find(Active(n.mixers)[i].set, "remote_inputs")
                        THEN [ms[i] EXCEPT !.enabled = FlagOr(Active(n.mixers)[i].set, "enabled", TRUE)]
                        ELSE ms[i]]
           reDs == IF Len(Active(n.devices)) # Len(ds) THEN ds
                   ELSE [i \in DOMAIN Active(n.devices) |-> ReloadDevice(ds[i], Active(n.devices)[i])]
<1>8. reMs = toMs
  <2>1. ASSUME NEW i \in 1..Mixers(n)
        PROVE  /\ ms[i].name = ActiveMixer(n, i).name
               /\ Find(ms[i].other, "remote_inputs") = Find(ActiveMixer(n, i).set, "remote_inputs")
               /\ [ms[i] EXCEPT !.enabled = FlagOr(ActiveMixer(n, i).set, "enabled", TRUE)]
                    = FreshMixer(ActiveMixer(n, i))
    <3> DEFINE m == ms[i]
    <3>1. m = FreshMixer(ActiveMixer(a, i))
      BY <1>6
    <3>2. IsGroup(ActiveMixer(a, i).set) /\ IsGroup(ActiveMixer(n, i).set)
      BY <1>1, ConfigType
    <3>3. PlanMixer(ActiveMixer(a, i), ActiveMixer(n, i)).restart = {}
      BY <1>1
    <3> DEFINE other == FreshMixer(ActiveMixer(n, i)).other  name == ActiveMixer(n, i).name
               was == Enabled(ActiveMixer(a, i))  on == Enabled(ActiveMixer(n, i))
    <3> HIDE DEF m
    <3>4. /\ m.name = name
          /\ Find(m.other, "remote_inputs") = Find(ActiveMixer(n, i).set, "remote_inputs")
          /\ m = [name |-> name, enabled |-> was, other |-> other]
          /\ FreshMixer(ActiveMixer(n, i)) = [name |-> name, enabled |-> on, other |-> other]
      BY <3>1, <3>2, <3>3, MixerReloaded
    <3>5. [m EXCEPT !.enabled = on] = [name |-> name, enabled |-> on, other |-> other]
      <4> HIDE DEF other, name, was, on
      <4> QED BY <3>4
    <3>6. on = FlagOr(ActiveMixer(n, i).set, "enabled", TRUE)
      BY DEF Enabled
    <3> HIDE DEF on
    <3>7. [m EXCEPT !.enabled = FlagOr(ActiveMixer(n, i).set, "enabled", TRUE)]
            = FreshMixer(ActiveMixer(n, i))
      BY <3>4, <3>5, <3>6
    <3> QED BY <3>4, <3>7 DEF m
  <2> HIDE DEF ms
  <2>2. fits
    BY <1>7
  <2>3. \A i \in 1..Mixers(n) : reMs[i] = FreshMixer(ActiveMixer(n, i))
    BY <1>7, <2>1, <2>2 DEF ActiveMixer
  <2> QED BY <1>6, <1>7, <2>3
<1>9. reDs = toDs
  BY <1>2, <1>3, <1>7 DEF ActiveDevice
<1>10. Reload(p, n) = [p EXCEPT !.devices = reDs, !.mixers = reMs]
  <2>1. p.devices = ds /\ p.mixers = ms
    BY <1>3
  <2> HIDE DEF ms
  <2> QED BY <2>1 DEF Reload
<1> HIDE DEF socket, set, ms, reMs, reDs
<1>11. Reload(p, n) = [socket |-> socket, set |-> set, devices |-> reDs, mixers |-> reMs]
  BY <1>3, <1>10
<1> HIDE DEF toMs, toDs
<1>12. Reload(p, n).devices = toDs
  BY <1>9, <1>11
<1>13. Len(toDs) = Devices(n) /\ toDs = [i \in 1..Devices(n) |-> toDs[i]]
  BY <1>2 DEF toDs
<1> QED BY <1>3, <1>4, <1>5, <1>8, <1>9, <1>11, <1>12, <1>13 DEF ProcessRuns, socket, toMs

-----------------------------------------------------------------------------
(***************************************************************************)
(* The invariant and the theorems.                                          *)
(***************************************************************************)

LEMMA PlanInvInit == PlanInit(DOMAIN Edits) => PlanInv
<1> SUFFICES ASSUME PlanInit(DOMAIN Edits)
             PROVE  PlanInv
  OBVIOUS
<1>1. focus \in DOMAIN Edits /\ started \in Edits[focus] /\ applied = started
      /\ process = FreshProcess(started)
  BY DEF PlanInit
<1>2. IsConfig(started)
  BY <1>1, EditsAssumption
<1> QED BY <1>1, <1>2, FreshProcessRuns DEF PlanInv

LEMMA PlanInvNext == PlanInv /\ [PlanNext]_planVars => PlanInv'
<1> SUFFICES ASSUME PlanInv, [PlanNext]_planVars
             PROVE  PlanInv'
  OBVIOUS
<1>1. CASE UNCHANGED planVars
  BY <1>1 DEF PlanInv, planVars
<1>2. ASSUME NEW next \in Edits[focus], ApplyLive(next)
      PROVE  PlanInv'
  <2>1. /\ focus \in DOMAIN Edits /\ IsConfig(started) /\ IsConfig(applied) /\ IsConfig(next)
        /\ started \in Edits[focus] /\ applied \in Edits[focus]
    BY <1>2, EditsAssumption DEF PlanInv
  <2>2. focus' = focus /\ started' = started
    BY <1>2 DEF ApplyLive
  <2>3. CASE PlanChange(started, applied, next).restart # {}
    BY <1>2, <2>1, <2>2, <2>3 DEF ApplyLive, PlanInv
  <2>4. CASE PlanChange(started, applied, next).restart = {}
    <3>1. applied' = next /\ process' = Reload(process, next) /\ ~tainted
      BY <1>2, <2>4 DEF ApplyLive
    <3>2. ProcessRuns(started, applied, process)
      BY <3>1 DEF PlanInv
    <3>3. HasSocket(started)
      <4> DEFINE mine == StrOr(started.set, "control_socket_path", Blank)
      <4>1. process.socket = mine
        <5> DEFINE ds == process.devices
        <5>1. process = [socket |-> mine, set |-> MeantGroup(applied.set, {}), devices |-> ds,
                         mixers |-> FreshMixers(Active(applied.mixers))]
          BY <3>2 DEF ProcessRuns
        <5> HIDE DEF ds, mine
        <5> QED BY <5>1
      <4>2. HasSocket(next) /\ process.socket = next.set["control_socket_path"].v
        BY <1>2 DEF ApplyLive
      <4>3. StrOr(next.set, "control_socket_path", Blank) = next.set["control_socket_path"].v
        BY <4>2 DEF HasSocket, StrOr, Find, NotSet, Lit
      <4> QED BY <4>1, <4>2, <4>3 DEF HasSocket
    <3>4. Written(next)
      BY <1>2 DEF ApplyLive
    <3>5. ProcessRuns(started, next, Reload(process, next))
      BY <2>1, <2>4, <3>2, <3>3, <3>4, ProcessReloaded
    <3> QED BY <1>2, <2>1, <2>2, <3>1, <3>5 DEF PlanInv
  <2> QED BY <2>3, <2>4
<1> QED BY <1>1, <1>2 DEF PlanNext

\* Every live apply that the plan finds no fault with leaves a process that does what
\* it would do if it were started afresh with the config that counts as applied,
\* however many applies ago it was started and with whatever reserves.
THEOREM LiveRunsWhatWasApplied == PlanSpec => []RunsWhatWasApplied
<1>1. PlanInv => RunsWhatWasApplied
  <2> SUFFICES ASSUME PlanInv, ~tainted
               PROVE  Heard(process) = Heard(FreshProcess(applied))
    BY DEF RunsWhatWasApplied
  <2>1. IsConfig(applied) /\ ProcessRuns(started, applied, process)
    BY EditsAssumption DEF PlanInv
  <2> QED BY <2>1, FreshProcessRuns, ProcessIsHeard
<1> QED BY <1>1, PlanInvInit, PlanInvNext, PTL DEF PlanSpec

\* What the plan calls no change of a config leaves what one hears of it as it was.
LEMMA NothingIsHeard ==
  ASSUME NEW s, IsConfig(s), NEW a, IsConfig(a), NEW n, IsConfig(n), NEW p, ProcessRuns(s, a, p),
         PlanChange(s, a, n).restart = {}, PlanChange(s, a, n).live = {}
  PROVE  ConfigHeard(a) = ConfigHeard(n)
<1>1. CASE HasSocket(s)
  <2>1. /\ ChangedKeys(a.set, n.set, {}) = {}
        /\ Devices(a) = Devices(n) /\ Mixers(a) = Mixers(n)
        /\ \A i \in 1..Devices(a) :
             PlanDevice(ActiveDevice(s, i), ActiveDevice(a, i), ActiveDevice(n, i)).restart = {}
        /\ \A i \in 1..Mixers(a) : PlanMixer(ActiveMixer(a, i), ActiveMixer(n, i)).restart = {}
    BY <1>1, ChangePlanned
  <2>2. /\ \A i \in 1..Devices(a) :
             PlanDevice(ActiveDevice(s, i), ActiveDevice(a, i), ActiveDevice(n, i)).live = {}
        /\ \A i \in 1..Mixers(a) : PlanMixer(ActiveMixer(a, i), ActiveMixer(n, i)).live = {}
    BY <1>1, NoChangePlanned
  <2>3. \A i \in 1..Devices(a) : DeviceHeard(ActiveDevice(a, i)) = DeviceHeard(ActiveDevice(n, i))
    <3> TAKE i \in 1..Devices(a)
    <3>1. PpmRuns(ActiveDevice(s, i).set, ActiveDevice(a, i).set) /\ Devices(s) = Devices(a)
      BY DEF ProcessRuns, DeviceRuns
    <3>2. IsDevice(ActiveDevice(s, i)) /\ IsDevice(ActiveDevice(a, i)) /\ IsDevice(ActiveDevice(n, i))
      BY <2>1, <3>1, ConfigType
    <3> QED BY <2>1, <2>2, <3>1, <3>2, DeviceUnchanged
  <2>4. FreshMixers(Active(a.mixers)) = FreshMixers(Active(n.mixers))
    <3>1. DOMAIN Active(a.mixers) = 1..Mixers(a) /\ DOMAIN Active(n.mixers) = 1..Mixers(a)
      BY <2>1, ConfigType
    <3>2. \A i \in 1..Mixers(a) : FreshMixer(ActiveMixer(a, i)) = FreshMixer(ActiveMixer(n, i))
      <4> TAKE i \in 1..Mixers(a)
      <4>1. IsGroup(ActiveMixer(a, i).set) /\ IsGroup(ActiveMixer(n, i).set)
        BY <2>1, ConfigType
      <4> QED BY <2>1, <2>2, <4>1, MixerPlanned
    <3> QED BY <3>1, <3>2 DEF FreshMixers, ActiveMixer
  <2>5. MeantGroup(a.set, {}) = MeantGroup(n.set, {})
    <3>1. IsGroup(a.set) /\ IsGroup(n.set)
      BY ConfigType
    <3> QED BY <2>1, <3>1, UnchangedMeans
  <2> QED BY <2>1, <2>3, <2>4, <2>5 DEF ConfigHeard
<1>2. CASE ~HasSocket(s)
  <2>1. SameConfig(a, n)
    <3> DEFINE same == SameConfig(a, n)
    <3>1. RestartIf(~same, "no control socket").restart = {} /\ (~same) \in BOOLEAN
      BY <1>2 DEF PlanChange
    <3> HIDE DEF same
    <3>2. ~~same
      BY <3>1, IfIs
    <3> QED BY <3>2 DEF same
  <2>2. /\ ChangedKeys(a.set, n.set, {}) = {}
        /\ SameGroups(a.devices, n.devices) /\ SameGroups(a.mixers, n.mixers)
        /\ \A i \in DOMAIN a.devices : SameGroups(a.devices[i].channels, n.devices[i].channels)
        /\ \A i \in DOMAIN a.mixers : a.mixers[i].name = n.mixers[i].name
    BY <2>1 DEF SameConfig
  <2>3. /\ DOMAIN Active(a.devices) = DOMAIN Active(n.devices)
        /\ \A j \in DOMAIN Active(a.devices) :
             \E i \in DOMAIN a.devices : Active(a.devices)[j] = a.devices[i] /\ Active(n.devices)[j] = n.devices[i]
    BY <2>2, SameGroupsActive DEF IsConfig
  <2>4. /\ DOMAIN Active(a.mixers) = DOMAIN Active(n.mixers)
        /\ \A j \in DOMAIN Active(a.mixers) :
             \E i \in DOMAIN a.mixers : Active(a.mixers)[j] = a.mixers[i] /\ Active(n.mixers)[j] = n.mixers[i]
    BY <2>2, SameGroupsActive DEF IsConfig
  <2>5. /\ DOMAIN Active(a.devices) = 1..Devices(a) /\ DOMAIN Active(n.devices) = 1..Devices(n)
        /\ DOMAIN Active(a.mixers) = 1..Mixers(a) /\ DOMAIN Active(n.mixers) = 1..Mixers(n)
        /\ Devices(a) \in Nat /\ Devices(n) \in Nat /\ Mixers(a) \in Nat /\ Mixers(n) \in Nat
    BY ConfigType
  <2>6. \A j \in 1..Devices(a) : DeviceHeard(ActiveDevice(a, j)) = DeviceHeard(ActiveDevice(n, j))
    <3> TAKE j \in 1..Devices(a)
    <3>1. PICK i \in DOMAIN a.devices :
            ActiveDevice(a, j) = a.devices[i] /\ ActiveDevice(n, j) = n.devices[i]
      BY <2>3, <2>5 DEF ActiveDevice
    <3>2. IsDevice(ActiveDevice(a, j)) /\ IsDevice(ActiveDevice(n, j))
      BY <2>3, <2>5, ConfigType
    <3>3. /\ ChangedKeys(ActiveDevice(a, j).set, ActiveDevice(n, j).set, {}) = {}
          /\ SameGroups(ActiveDevice(a, j).channels, ActiveDevice(n, j).channels)
      BY <2>2, <3>1 DEF SameGroups
    <3> QED BY <3>2, <3>3, DeviceSame
  <2>7. \A j \in 1..Mixers(a) : FreshMixer(ActiveMixer(a, j)) = FreshMixer(ActiveMixer(n, j))
    <3> TAKE j \in 1..Mixers(a)
    <3>1. PICK i \in DOMAIN a.mixers :
            ActiveMixer(a, j) = a.mixers[i] /\ ActiveMixer(n, j) = n.mixers[i]
      BY <2>4, <2>5 DEF ActiveMixer
    <3>2. IsGroup(ActiveMixer(a, j).set) /\ IsGroup(ActiveMixer(n, j).set)
      BY <2>4, <2>5, ConfigType
    <3>3. /\ ChangedKeys(ActiveMixer(a, j).set, ActiveMixer(n, j).set, {}) = {}
          /\ ActiveMixer(a, j).name = ActiveMixer(n, j).name
      BY <2>2, <3>1 DEF SameGroups
    <3> QED BY <3>2, <3>3, MixerSame
  <2>8. Devices(a) = Devices(n)
    <3>1. \A x, y \in Nat : 1..x = 1..y => x = y
      OBVIOUS
    <3> QED BY <2>3, <2>5, <3>1
  <2>9. FreshMixers(Active(a.mixers)) = FreshMixers(Active(n.mixers))
    BY <2>4, <2>5, <2>7 DEF FreshMixers, ActiveMixer
  <2>10. MeantGroup(a.set, {}) = MeantGroup(n.set, {})
    <3>1. IsGroup(a.set) /\ IsGroup(n.set)
      BY ConfigType
    <3> QED BY <2>2, <3>1, UnchangedMeans
  <2> QED BY <2>6, <2>8, <2>9, <2>10 DEF ConfigHeard
<1> QED BY <1>1, <1>2

\* A config that the plan calls no change at all is one the process already does.
THEOREM LiveNoChangeIsNone == PlanSpec => []NoChangeIsNone
<1>1. PlanInv => NoChangeIsNone
  <2> SUFFICES ASSUME PlanInv, ~tainted, NEW next \in Edits[focus],
                      PlanChange(started, applied, next) = Nothing
               PROVE  Heard(process) = Heard(FreshProcess(next))
    BY DEF NoChangeIsNone
  <2>1. /\ IsConfig(started) /\ IsConfig(applied) /\ IsConfig(next)
        /\ ProcessRuns(started, applied, process)
    BY EditsAssumption DEF PlanInv
  <2>2. ConfigHeard(applied) = ConfigHeard(next)
    BY <2>1, NothingIs, NothingIsHeard
  <2>3. Heard(process) = ConfigHeard(applied)
    BY <2>1, ProcessIsHeard
  <2>4. Heard(FreshProcess(next)) = ConfigHeard(next)
    BY <2>1, FreshProcessRuns, ProcessIsHeard
  <2> QED BY <2>2, <2>3, <2>4
<1> QED BY <1>1, PlanInvInit, PlanInvNext, PTL DEF PlanSpec
=============================================================================
