--------------------------- MODULE PipelineProofs ----------------------------
(***************************************************************************)
(* Theorems of Pipeline: the parts of a result agree with one another      *)
(* whichever source each comes from, what the rules set stands, and the    *)
(* cache key holds all that the pipeline reads.                            *)
(*                                                                         *)
(* The lemmas say of each operator which fields it changes and what holds  *)
(* of the new values; the step lemmas say so of the actions.  StageInv     *)
(* says where a call stands and is what every other invariant rests on:    *)
(* DeviceInv, BotInv, VendorInv, TerminalInv and VocabularyInv follow one  *)
(* family of fields each, from stage to stage.  FirstCall and SecondCall   *)
(* follow two calls along the way their inputs determine; HonestInv one    *)
(* that an honest client makes.                                            *)
(***************************************************************************)
EXTENDS Pipeline, SequenceTheorems, TLAPS

\* The fields of a result, and those that a rule alone or nobody changes
\* between the first stage and the last.
ResultFields == {"name", "version", "major", "type", "os", "osVersion", "osRaw", "model",
                 "vendor", "device", "formFactor", "cpu", "engine", "engineVersion",
                 "isBot", "isAI", "bot", "gpu", "category", "platform", "touch",
                 "spoofed", "signalsUsed", "hash"}
IsResult(r) == DOMAIN r = ResultFields

\* q differs from r in these fields only.
Changes(r, q, fields) ==
    /\ IsResult(q)
    /\ \A f \in ResultFields \ fields : q[f] = r[f]

\* A step writes the major of the version, or writes neither.
MajorKept(r, q) ==
    \/ q.major = MajorOf(q.version)
    \/ q.major = r.major /\ q.version = r.version

\* The version and the major that uap-core gave.
UapMajor(ua, r) == r.major = ua.client.major /\ r.version = UapVersion(ua)

\* What inferInfo finds out about bots: an AI agent is a bot, and exactly the
\* bots carry a bot object.
BotsAgree(r) ==
    /\ r.isBot \in BOOLEAN /\ r.isAI \in BOOLEAN
    /\ r.isAI => r.isBot
    /\ r.isBot <=> r.bot # NoBot
    /\ r.bot # NoBot => "name" \in DOMAIN r.bot

-----------------------------------------------------------------------------
FormFactorValues == {"", "watch"} \union (DeviceTypes \ {"wearable"})

\* Where a call stands: what rules have set so far, the category they chose,
\* and what only the last stage fills in.
StageInv ==
    /\ input \in Inputs
    /\ stage \in {"infer", "hints", "signals", "rules", "derive", "done"}
    /\ next \in 1..(Len(Rules) + 1)
    /\ DOMAIN setBy \subseteq Settable
    /\ stage \in {"infer", "hints", "signals"} => DOMAIN setBy = {}
    /\ "category" \in DOMAIN setBy => override = setBy["category"]
    /\ "category" \notin DOMAIN setBy => override = ""
    /\ IsResult(res)
    /\ \/ res.major = MajorOf(res.version)
       \/ stage # "infer" /\ UapMajor(input.ua, res)
    /\ stage \in {"infer", "hints"} => res.device \in DeviceTypes /\ res.formFactor = ""
    /\ stage # "done" => res.category = "" /\ res.spoofed = {}

\* The device: its type, its form factor and how the two agree.
DeviceInv ==
    /\ res.device \in DeviceTypes \union Given("device")
    /\ stage # "done" => res.formFactor \in FormFactorValues
    /\ stage # "done" /\ res.formFactor # "" => input.h.formFactors # {}
    /\ stage = "done" => res.formFactor \in FormFactorValues \union Given("device")
    /\ "device" \notin DOMAIN setBy =>
          \/ (res.formFactor = "" /\ (stage = "done" => res.isBot))
          \/ res.formFactor = FormFactorOfType(res.device)
          \/ (ManyTouchPoints /\ input.h.formFactors # {} /\ res.device = "tablet")

\* The flags are flags; where no rule sets them, the bot object and the type
\* agree with them, and in the end the name and the category do.
BotInv ==
    /\ res.isBot \in BOOLEAN /\ res.isAI \in BOOLEAN
    /\ UntouchedBy(Flags) => BotsAgree(res)
    /\ UntouchedBy(Flags \union {"type"}) => (res.type = "bot" <=> res.isBot)
    /\ stage = "done" /\ UntouchedBy(Flags) =>
          /\ res.isBot => res.bot.name = res.name
          /\ "category" \notin DOMAIN setBy => (res.isBot <=> res.category = "bot")

\* The words of a finished result that no other part speaks of.
VocabularyInv ==
    /\ stage = "done" => res.category \in {override, "bot", "mobile", "desktop"} \union DeviceTypes
    /\ stage = "done" => res.spoofed \subseteq {"platform", "brands", "touchless"}

\* Where the vendor comes from, if no rule touches vendor or model: uap-core or
\* an unmasked iPad; and if uap-core did not know it, the prefixes in the end.
UnmaskedIPad == ManyTouchPoints /\ res.vendor = "Apple" /\ res.model = "iPad"
VendorInv ==
    /\ stage \in {"hints", "signals"} => res.vendor = input.ua.client.vendor
    /\ UntouchedBy({"vendor", "model"}) /\ stage = "rules" =>
          res.vendor = input.ua.client.vendor \/ UnmaskedIPad
    /\ /\ UntouchedBy({"vendor", "model"}) /\ stage \in {"derive", "done"}
       /\ input.ua.client.vendor \in GenericVendors
       /\ res.model # "" /\ PrefixesOf(res.model, input.file.prefixes) # <<>>
       => \/ res.vendor = Head(PrefixesOf(res.model, input.file.prefixes)).vendor
          \/ UnmaskedIPad

\* What the rules set stands in the result as long as they run; after that, but
\* for the gaps; and the category when it is derived.
TerminalInv ==
    /\ stage = "rules" => \A f \in DOMAIN setBy \ {"category"} : res[f] = setBy[f]
    /\ stage \in {"derive", "done"} =>
          \A f \in DOMAIN setBy \ {"category"} : ~Gap(f) => res[f] = setBy[f]
    /\ stage = "done" /\ "category" \in DOMAIN setBy /\ ~Gap("category") =>
          res.category = setBy["category"]

-----------------------------------------------------------------------------
(***************************************************************************)
(* What a call computes, as functions of its input i.  p is a result with  *)
(* the category the rules have chosen so far.                              *)
(***************************************************************************)
BeforeRules(i) ==
    LET r == Hinted(Inferred(i.ua), i.h)
    IN  [res |-> IF i.s = NoSignals THEN r ELSE Signalled(r, i.ua, i.h, i.s), chosen |-> ""]

Ruled(rule, i, p) ==
    IF Matches(rule, p.res, i.ua, i.h)
    THEN [res |-> Corrected(rule, p.res, i.ua),
          chosen |-> IF "category" \in Writes(rule)
                     THEN Value(rule, i.ua, "category") ELSE p.chosen]
    ELSE p

Resolved(i, p) == ResolveVendor(p.res, i.ua, i.file.prefixes)
Finished(i, p) ==
    Derived(Resolved(i, p), i.h, i.s, PlatformOf(Inferred(i.ua).os), p.chosen)

\* The way of the input i through its first n - 1 rules; the last of a whole way.
IsWay(way, i, n) ==
    /\ way[1] = BeforeRules(i)
    /\ \A m \in 1..(n - 1) : way[m + 1] = Ruled(i.file.rules[m], i, way[m])
End(way, i) == way[Len(i.file.rules) + 1]

\* The call in progress stands on this way.
OnWay(way) ==
    /\ stage = "rules" => res = way[next].res /\ override = way[next].chosen
    /\ stage = "derive" => /\ res = Resolved(input, End(way, input))
                           /\ override = End(way, input).chosen
    /\ stage = "done" => /\ res = Finished(input, End(way, input))
                         /\ IsResult(Resolved(input, End(way, input)))

\* What the stages before the rules have computed.
EarlyStages ==
    /\ stage = "hints" => res = Inferred(input.ua)
    /\ stage = "signals" => res = Hinted(Inferred(input.ua), input.h)
    /\ stage # "infer" => uaPlatform = PlatformOf(Inferred(input.ua).os)
    /\ stage \in {"infer", "hints", "signals"} => next = 1

\* The first call goes the way of its input.  The second one goes the same way,
\* if their headers are the same and their blocks differ in nothing that the key
\* masks.
Masked(s) == IF s = NoSignals THEN s ELSE [s EXCEPT !.memory = 0]
FirstInput == [input EXCEPT !.s = prev.s, !.h = prev.h]
SameCall == Masked(prev.s) = Masked(input.s) /\ prev.h = input.h
FirstCall ==
    prev = NoCall /\ stage \in {"rules", "derive", "done"} =>
        \E way : /\ IsWay(way, input, IF stage = "rules" THEN next ELSE Len(Rules) + 1)
                 /\ OnWay(way)
SecondCall ==
    prev # NoCall =>
        /\ prev.s \in Blocks /\ prev.h \in Headers /\ prev.key = Key(FirstInput)
        /\ \E way : /\ IsWay(way, FirstInput, Len(Rules) + 1)
                    /\ prev.res = Finished(FirstInput, End(way, FirstInput))
                    /\ SameCall => OnWay(way)

-----------------------------------------------------------------------------
\* The switch of inferInfo over the device tokens stays in the vocabulary of types.
LEMMA DeviceTypeKnown == ASSUME NEW ua PROVE DeviceTypeOf(ua) \in DeviceTypes
  BY DEF DeviceTypeOf, DeviceTypes

\* browser.type is "bot" for the bots and nothing else.
LEMMA BotType == ASSUME NEW ua, NEW bot \in BOOLEAN
                 PROVE  BrowserTypeOf(ua, bot) = "bot" <=> bot
  BY DEF BrowserTypeOf

\* What inferInfo returns: a whole result, uap-core's version and major or an agent's, a
\* known device type, the vendor uap-core gave, and the fields of the later stages empty.
LEMMA InferredResult ==
    ASSUME NEW ua
    PROVE  /\ IsResult(Inferred(ua))
           /\ \/ Inferred(ua).major = MajorOf(Inferred(ua).version)
              \/ UapMajor(ua, Inferred(ua))
           /\ Inferred(ua).device \in DeviceTypes
           /\ Inferred(ua).formFactor = "" /\ Inferred(ua).category = ""
           /\ Inferred(ua).spoofed = {}
           /\ Inferred(ua).vendor = ua.client.vendor
<1>1. IsResult(Inferred(ua))
  BY DEF Inferred, IsResult, ResultFields
<1>2. \/ Inferred(ua).major = MajorOf(Inferred(ua).version)
      \/ UapMajor(ua, Inferred(ua))
  BY DEF Inferred, UapMajor
<1>3. Inferred(ua).device \in DeviceTypes
  BY DeviceTypeKnown DEF Inferred
<1>4. /\ Inferred(ua).formFactor = "" /\ Inferred(ua).category = ""
      /\ Inferred(ua).spoofed = {} /\ Inferred(ua).vendor = ua.client.vendor
  BY DEF Inferred
<1> QED BY <1>1, <1>2, <1>3, <1>4

\* What inferInfo returns about bots: flags, bot object and browser type agree.
LEMMA InferredBots ==
    ASSUME NEW ua
    PROVE  /\ BotsAgree(Inferred(ua))
           /\ Inferred(ua).type = "bot" <=> Inferred(ua).isBot
<1> DEFINE ai == Identity(ua, AiBots)
           isBot == ai # <<>> \/ IsBot(ua)
<1>1. Inferred(ua).isBot = isBot /\ Inferred(ua).isAI = (ai # <<>>)
  BY DEF Inferred
<1>2. Inferred(ua).type = BrowserTypeOf(ua, isBot)
  BY DEF Inferred
<1>3. isBot => DOMAIN Inferred(ua).bot = {"name", "category", "vendor"}
  BY DEF Inferred
<1>4. ~isBot => Inferred(ua).bot = NoBot
  BY DEF Inferred
<1>5. DOMAIN NoBot = {"none"}
  BY DEF NoBot
<1> QED BY <1>1, <1>2, <1>3, <1>4, <1>5, BotType DEF BotsAgree

\* The platform hints write the operating system and nothing else.
LEMMA HintedOSChanges ==
    ASSUME NEW r, NEW h, IsResult(r)
    PROVE  Changes(r, HintedOS(r, h), {"os", "osVersion", "osRaw"})
  BY DEF HintedOS, Changes, IsResult, ResultFields

\* applyBrandVersion writes the version and the major that belongs to it, whether the
\* brand comes from the full list or from the short one.
LEMMA BrandVersionChanges ==
    ASSUME NEW r, NEW v, NEW full, IsResult(r)
    PROVE  /\ Changes(r, BrandVersion(r, v, full), {"version", "major"})
           /\ MajorKept(r, BrandVersion(r, v, full))
  BY DEF BrandVersion, Changes, IsResult, ResultFields, MajorKept

\* The brand lists write the browser and the engine's version, and keep the major that
\* of the version.
LEMMA HintedBrowserChanges ==
    ASSUME NEW r, NEW h, IsResult(r)
    PROVE  /\ Changes(r, HintedBrowser(r, h), {"name", "version", "major", "engineVersion"})
           /\ MajorKept(r, HintedBrowser(r, h))
<1> DEFINE full == BrandList(h.full) # <<>>
           brands == IF full THEN BrandList(h.full) ELSE BrandList(h.brands)
           match == MatchBrand(brands, r.name)
           winner == IF match # <<>> THEN match ELSE Specific(brands)
           rename == IF match # <<>> THEN Head(match).name \notin GenericBrands ELSE TRUE
           b == BrandVersion(r, Head(winner).version, full)
           named == IF winner = <<>> THEN r
                    ELSE [b EXCEPT !.name = IF rename THEN Head(winner).name ELSE @]
           chromium == VersionedUmbrella(brands)
<1>1. /\ Changes(r, b, {"version", "major"})
      /\ MajorKept(r, b)
  BY BrandVersionChanges
<1>2. HintedBrowser(r, h) = IF r.engine = "Blink" /\ full /\ chromium # <<>>
                            THEN [named EXCEPT !.engineVersion = Head(chromium).version]
                            ELSE named
  BY DEF HintedBrowser
<1> HIDE DEF full, brands, match, winner, rename, b, chromium
<1>3. /\ Changes(r, named, {"name", "version", "major"})
      /\ MajorKept(r, named)
  BY <1>1 DEF Changes, IsResult, ResultFields, MajorKept
<1> HIDE DEF named
<1> QED BY <1>2, <1>3 DEF Changes, IsResult, ResultFields, MajorKept

\* A form factor that the hints name is one of those in the switch, and a hinted one.
LEMMA FormFactorNamedKnown ==
    ASSUME NEW h, NEW ff \in FormFactorNamed(h)
    PROVE  /\ ff \in h.formFactors
           /\ ff \in {"watch", "xr", "automotive", "tablet", "eink", "mobile", "desktop"}
  BY DEF FormFactorNamed, FormFactors

\* The device hints keep to the vocabulary of types, and a form factor they set is
\* that of the type they set.
LEMMA HintedDeviceChanges ==
    ASSUME NEW r, NEW h, IsResult(r), r.device \in DeviceTypes, r.formFactor = ""
    PROVE  LET q == HintedDevice(r, h)
           IN  /\ Changes(r, q, {"model", "cpu", "device", "formFactor"})
               /\ q.device \in DeviceTypes
               /\ \/ q.formFactor = ""
                  \/ /\ h.formFactors # {}
                     /\ q.formFactor \in {"watch"} \union (DeviceTypes \ {"wearable"})
                     /\ q.formFactor = FormFactorOfType(q.device)
<1> DEFINE arch == Clean(h.arch)
           bits == Clean(h.bitness)
           hint == FormFactorNamed(h) \ {"eink"}
           d == [r EXCEPT !.model = IF Clean(h.model) # "" THEN Clean(h.model) ELSE @,
                          !.cpu.arch = IF arch # "" THEN NormalizeArch(arch, bits, @) ELSE @,
                          !.cpu.bitness = IF bits # "" THEN bits ELSE @,
                          !.device = IF h.mobile = "?1" THEN "mobile" ELSE @]
           ff == CHOOSE f \in hint : TRUE
<1>1. HintedDevice(r, h) = IF hint = {} THEN d ELSE SetFormFactor(d, h, ff)
  BY DEF HintedDevice
<1>2. /\ Changes(r, d, {"model", "cpu", "device"})
      /\ d.device \in DeviceTypes /\ d.formFactor = ""
  BY DEF Changes, IsResult, ResultFields, DeviceTypes
<1>3. hint # {} => /\ ff \in h.formFactors
                   /\ ff \in {"watch", "xr", "automotive", "tablet", "mobile", "desktop"}
  BY FormFactorNamedKnown
<1> HIDE DEF hint, d, ff
<1>4. CASE hint = {}
  BY <1>1, <1>2, <1>4 DEF Changes
<1>5. CASE hint # {}
  <2> DEFINE q == SetFormFactor(d, h, ff)
  <2>1. Changes(d, q, {"device", "formFactor"})
    BY <1>2 DEF SetFormFactor, Changes, IsResult, ResultFields
  <2>2. q.formFactor = ff /\ q.device = TypeOfFormFactor(ff)
    BY <1>2 DEF SetFormFactor, Changes, IsResult, ResultFields
  <2> HIDE DEF q
  <2>3. /\ TypeOfFormFactor(ff) \in DeviceTypes
        /\ ff \in {"watch"} \union (DeviceTypes \ {"wearable"})
        /\ ff = FormFactorOfType(TypeOfFormFactor(ff))
    BY <1>3, <1>5 DEF TypeOfFormFactor, FormFactorOfType, DeviceTypes
  <2>4. Changes(r, q, {"model", "cpu", "device", "formFactor"})
    BY <1>2, <2>1 DEF Changes, IsResult, ResultFields
  <2>5. h.formFactors # {}
    BY <1>3, <1>5
  <2>6. HintedDevice(r, h) = q
    BY <1>1, <1>5 DEF q
  <2> QED BY <2>2, <2>3, <2>4, <2>5, <2>6
<1> QED BY <1>4, <1>5

\* The three parts of applyClientHints together.
LEMMA HintedChanges ==
    ASSUME NEW r, NEW h, IsResult(r), r.device \in DeviceTypes, r.formFactor = ""
    PROVE  LET q == Hinted(r, h)
           IN  /\ Changes(r, q, {"os", "osVersion", "osRaw", "name", "version", "major",
                                 "engineVersion", "model", "cpu", "device", "formFactor"})
               /\ MajorKept(r, q)
               /\ q.device \in DeviceTypes
               /\ \/ q.formFactor = ""
                  \/ /\ h.formFactors # {}
                     /\ q.formFactor \in {"watch"} \union (DeviceTypes \ {"wearable"})
                     /\ q.formFactor = FormFactorOfType(q.device)
<1> DEFINE a == HintedOS(r, h)
           b == HintedBrowser(a, h)
           c == HintedDevice(b, h)
<1>1. /\ Changes(r, a, {"os", "osVersion", "osRaw"})
      /\ a.major = r.major /\ a.version = r.version
      /\ a.device = r.device /\ a.formFactor = ""
  BY HintedOSChanges DEF Changes, ResultFields
<1>2. /\ Changes(a, b, {"name", "version", "major", "engineVersion"})
      /\ MajorKept(a, b) /\ b.device = r.device /\ b.formFactor = ""
  <2>1. IsResult(a)
    BY <1>1 DEF Changes
  <2>2. /\ Changes(a, b, {"name", "version", "major", "engineVersion"})
        /\ MajorKept(a, b)
    BY <1>1, <2>1, HintedBrowserChanges
  <2> QED BY <1>1, <2>2 DEF Changes, ResultFields
<1>3. /\ Changes(b, c, {"model", "cpu", "device", "formFactor"})
      /\ c.device \in DeviceTypes
      /\ \/ c.formFactor = ""
         \/ /\ h.formFactors # {}
            /\ c.formFactor \in {"watch"} \union (DeviceTypes \ {"wearable"})
            /\ c.formFactor = FormFactorOfType(c.device)
  BY <1>2, HintedDeviceChanges DEF Changes
<1>4. Hinted(r, h) = c
  BY DEF Hinted
<1> HIDE DEF a, b, c
<1>5. MajorKept(r, c)
  BY <1>1, <1>2, <1>3 DEF Changes, ResultFields, MajorKept
<1> QED BY <1>1, <1>2, <1>3, <1>4, <1>5 DEF Changes, ResultFields

\* applySignals: only several touch points change the type, to a tablet, or the
\* vendor, to an iPad's.
LEMMA SignalledChanges ==
    ASSUME NEW r, NEW ua, NEW h, NEW s, IsResult(r)
    PROVE  LET q == Signalled(r, ua, h, s)
           IN  /\ Changes(r, q, {"os", "osVersion", "vendor", "model", "device", "gpu", "cpu"})
               /\ q.device = r.device \/ (s.touch > 1 /\ q.device = "tablet")
               /\ \/ q.vendor = r.vendor
                  \/ (s.touch > 1 /\ q.vendor = "Apple" /\ q.model = "iPad")
<1> DEFINE unmask == s.touch > 1 /\ Has(ua, {"macintosh"})
           assist == s.touch > 1 /\ r.device = "desktop" /\ PlatformOf(r.os) = "linux"
           d == IF unmask
                THEN [r EXCEPT !.os = "iPadOS", !.osVersion = <<>>,
                               !.vendor = "Apple", !.model = "iPad", !.device = "tablet"]
                ELSE IF assist THEN [r EXCEPT !.device = "tablet"] ELSE r
           g == [d EXCEPT !.gpu = IF s.renderer # "" \/ s.vendor # ""
                                  THEN [vendor |-> s.vendor, renderer |-> s.renderer] ELSE @]
<1>1. /\ Changes(r, d, {"os", "osVersion", "vendor", "model", "device"})
      /\ d.device = r.device \/ (s.touch > 1 /\ d.device = "tablet")
      /\ d.vendor = r.vendor \/ (s.touch > 1 /\ d.vendor = "Apple" /\ d.model = "iPad")
  BY DEF Changes, IsResult, ResultFields
<1>2. Signalled(r, ua, h, s) = IF ProvesAppleSilicon(g, h, s)
                               THEN [g EXCEPT !.cpu = [arch |-> "arm64", bitness |-> "64"]]
                               ELSE g
  BY DEF Signalled
<1> HIDE DEF unmask, assist, d
<1>3. Changes(d, g, {"gpu"})
  BY <1>1 DEF Changes, IsResult, ResultFields
<1> HIDE DEF g
<1> QED BY <1>1, <1>2, <1>3 DEF Changes, IsResult, ResultFields

\* A correction rule writes its own fields and the major of the version, and the
\* category not yet.
LEMMA CorrectedChanges ==
    ASSUME NEW rule, NEW r, NEW ua, IsResult(r), Writes(rule) \subseteq Settable
    PROVE  LET q == Corrected(rule, r, ua)
           IN  /\ Changes(r, q, Writes(rule) \union {"major"})
               /\ \A f \in Writes(rule) \ {"category"} : q[f] = Value(rule, ua, f)
               /\ q.category = r.category
               /\ MajorKept(r, q)
<1> DEFINE w == [f \in DOMAIN r |-> IF f \in Writes(rule) \ {"category"}
                                    THEN Value(rule, ua, f) ELSE r[f]]
<1>1. Corrected(rule, r, ua) = IF "version" \in Writes(rule)
                               THEN [w EXCEPT !.major = MajorOf(w.version)] ELSE w
  BY DEF Corrected
<1>2. /\ DOMAIN w = ResultFields
      /\ \A f \in ResultFields : w[f] = IF f \in Writes(rule) \ {"category"}
                                        THEN Value(rule, ua, f) ELSE r[f]
  BY DEF IsResult
<1>3. "major" \notin Writes(rule) /\ Writes(rule) \subseteq ResultFields
  BY DEF Settable, ResultFields
<1> HIDE DEF w
<1> QED BY <1>1, <1>2, <1>3 DEF Changes, IsResult, ResultFields, MajorKept

\* resolveDeviceVendor keeps a vendor that is known and a model that is specific.
LEMMA ResolveVendorChanges ==
    ASSUME NEW r, NEW ua, NEW prefixes, IsResult(r)
    PROVE  LET q == ResolveVendor(r, ua, prefixes)
           IN  /\ Changes(r, q, {"model", "vendor"})
               /\ r.vendor \notin GenericVendors => q = r
               /\ r.model \notin GenericModels => q.model = r.model
  BY DEF ResolveVendor, Changes, IsResult, ResultFields

\* The last stage leaves what the earlier ones found out, and reports only the
\* reasons that integrity.reasons has.
LEMMA DerivedChanges ==
    ASSUME NEW r, NEW h, NEW s, NEW uaPlat, NEW chosen, IsResult(r)
    PROVE  LET q == Derived(r, h, s, uaPlat, chosen)
           IN  /\ Changes(r, q, {"category", "platform", "formFactor", "bot", "osRaw",
                                 "touch", "spoofed", "signalsUsed", "hash"})
               /\ q.spoofed \subseteq {"platform", "brands", "touchless"}
<1> DEFINE d == [r EXCEPT !.category = Category(r, chosen),
                       !.platform = PlatformOf(r.os),
                       !.formFactor = IF r.formFactor = "" /\ ~r.isBot
                                      THEN FormFactorOfType(r.device) ELSE @,
                       !.bot = BotNamed(r),
                       !.osRaw = IF r.osRaw = <<>> THEN r.osVersion ELSE @,
                       !.touch = IsMobile(r) \/ (s # NoSignals /\ s.touch > 0),
                       !.signalsUsed = SignalsProvided(s)]
<1>1. Changes(r, d, {"category", "platform", "formFactor", "bot", "osRaw", "touch",
                     "signalsUsed"})
  BY DEF Changes, IsResult, ResultFields
<1>2. Derived(r, h, s, uaPlat, chosen)
      = [d EXCEPT !.spoofed = Contradictions(d, h, s, uaPlat), !.hash = ClassOf(d)]
  BY DEF Derived
<1>3. Contradictions(d, h, s, uaPlat) \subseteq {"platform", "brands", "touchless"}
  BY DEF Contradictions
<1> HIDE DEF d
<1> QED BY <1>1, <1>2, <1>3 DEF Changes, IsResult, ResultFields

-----------------------------------------------------------------------------
\* The rules of an input's correction file are a sequence.
LEMMA RulesOfFile == ASSUME input \in Inputs
                     PROVE  Len(Rules) \in Nat /\ DOMAIN Rules = 1..Len(Rules)
<1>1. input.file \in Files
  BY DEF Inputs
<1> QED BY <1>1, FilesAssumption DEF Rules

\* A rule of the file writes what correctionSet has, and flags with flags.
LEMMA RuleOfFile ==
    ASSUME StageInv, next <= Len(Rules)
    PROVE  /\ Writes(Rules[next]) \subseteq Settable
           /\ \A f \in Flags \cap Writes(Rules[next]) :
                Value(Rules[next], input.ua, f) \in BOOLEAN
<1>1. input.file \in Files
  BY DEF StageInv, Inputs
<1>2. Len(Rules) \in Nat /\ DOMAIN Rules = 1..Len(Rules)
  BY RulesOfFile DEF StageInv
<1>3. next \in 1..(Len(Rules) + 1)
  BY DEF StageInv
<1>4. next \in DOMAIN Rules
  BY <1>2, <1>3
<1> QED BY <1>1, <1>4, FilesAssumption DEF Rules, Writes, Value

\* The fields W are what a rule that applies writes: into the result, but for
\* the category, and into the history; everything else stays, but for the major.
RuleWrites(W) ==
    /\ DOMAIN setBy' = DOMAIN setBy \union W
    /\ \A f \in W \ {"category"} : res'[f] = setBy'[f]
    /\ \A f \in DOMAIN setBy \ W : setBy'[f] = setBy[f]
    /\ \A f \in Flags \cap W : setBy'[f] \in BOOLEAN
    /\ override' = IF "category" \in W THEN setBy'["category"] ELSE override
    /\ Changes(res, res', (W \ {"category"}) \union {"major"})
    /\ MajorKept(res, res')

\* A step of a rule that applies writes some of the settable fields.
LEMMA RuleStep ==
    ASSUME StageInv, ApplyRule
    PROVE  \E W \in SUBSET Settable : RuleWrites(W)
<1> DEFINE rule == Rules[next]
           W == Writes(rule)
<1>1. next <= Len(Rules) /\ res' = Corrected(rule, res, input.ua)
  BY DEF ApplyRule
<1>2. /\ W \subseteq Settable
      /\ \A f \in Flags \cap W : Value(rule, input.ua, f) \in BOOLEAN
  BY <1>1, RuleOfFile
<1>3. /\ override' = IF "category" \in W THEN Value(rule, input.ua, "category") ELSE override
      /\ setBy' = [f \in DOMAIN setBy \union W |->
                      IF f \in W THEN Value(rule, input.ua, f) ELSE setBy[f]]
  BY DEF ApplyRule
<1>4. IsResult(res)
  BY DEF StageInv
<1> HIDE DEF rule
<1>8. /\ Changes(res, Corrected(rule, res, input.ua), W \union {"major"})
      /\ \A f \in W \ {"category"} :
            Corrected(rule, res, input.ua)[f] = Value(rule, input.ua, f)
      /\ Corrected(rule, res, input.ua).category = res.category
      /\ MajorKept(res, Corrected(rule, res, input.ua))
  BY <1>2, <1>4, CorrectedChanges
<1>5. /\ Changes(res, res', W \union {"major"})
      /\ \A f \in W \ {"category"} : res'[f] = Value(rule, input.ua, f)
      /\ res'.category = res.category
  BY <1>1, <1>8
<1>9. MajorKept(res, res')
  BY <1>1, <1>8
<1> HIDE DEF W
<1>6. Changes(res, res', (W \ {"category"}) \union {"major"})
  BY <1>5 DEF Changes, ResultFields
<1>7. RuleWrites(W)
  BY <1>2, <1>3, <1>5, <1>6, <1>9 DEF RuleWrites
<1> QED BY <1>2, <1>7

\* What the hints can do to a result of inferInfo.
LEMMA HintsStep ==
    ASSUME StageInv, ApplyClientHints
    PROVE  /\ Changes(res, res', {"os", "osVersion", "osRaw", "name", "version", "major",
                                  "engineVersion", "model", "cpu", "device", "formFactor"})
           /\ MajorKept(res, res')
           /\ res'.device \in DeviceTypes
           /\ \/ res'.formFactor = ""
              \/ /\ input.h.formFactors # {}
                 /\ res'.formFactor \in FormFactorValues
                 /\ res'.formFactor = FormFactorOfType(res'.device)
<1>1. /\ IsResult(res)
      /\ res.device \in DeviceTypes /\ res.formFactor = ""
      /\ res' = Hinted(res, input.h)
  BY DEF StageInv, ApplyClientHints
<1> QED BY <1>1, HintedChanges DEF FormFactorValues

\* What the signals can do to a result: only several touch points reach the
\* device, and make it a tablet.
LEMMA SignalsStep ==
    ASSUME StageInv, ApplySignals
    PROVE  /\ Changes(res, res', {"os", "osVersion", "vendor", "model", "device", "gpu", "cpu"})
           /\ res'.device = res.device \/ (ManyTouchPoints /\ res'.device = "tablet")
           /\ \/ res'.vendor = res.vendor
              \/ (ManyTouchPoints /\ res'.vendor = "Apple" /\ res'.model = "iPad")
<1>1. IsResult(res)
  BY DEF StageInv
<1>2. CASE input.s = NoSignals
  BY <1>1, <1>2 DEF ApplySignals, Changes
<1>3. CASE input.s # NoSignals
  <2>1. res' = Signalled(res, input.ua, input.h, input.s)
    BY <1>3 DEF ApplySignals
  <2> QED BY <1>1, <1>3, <2>1, SignalledChanges DEF ManyTouchPoints
<1> QED BY <1>2, <1>3

\* What the vendor look-up changes, and what the prefixes have said when it is done.
LEMMA VendorStep ==
    ASSUME StageInv, ResolveDeviceVendor
    PROVE  /\ Changes(res, res', {"model", "vendor"})
           /\ res.vendor \notin GenericVendors => res' = res
           /\ res.model \notin GenericModels => res'.model = res.model
           /\ /\ res.vendor \in GenericVendors /\ res'.model # ""
              /\ PrefixesOf(res'.model, input.file.prefixes) # <<>>
              => res'.vendor = Head(PrefixesOf(res'.model, input.file.prefixes)).vendor
<1>1. IsResult(res) /\ res' = ResolveVendor(res, input.ua, input.file.prefixes)
  BY DEF StageInv, ResolveDeviceVendor
<1>2. Changes(res, res', {"model", "vendor"})
  BY <1>1, ResolveVendorChanges
<1>3. res.vendor \notin GenericVendors => res' = res
  BY <1>1, ResolveVendorChanges
<1>4. res.model \notin GenericModels => res'.model = res.model
  BY <1>1, ResolveVendorChanges
<1>5. /\ res.vendor \in GenericVendors /\ res'.model # ""
      /\ PrefixesOf(res'.model, input.file.prefixes) # <<>>
      => res'.vendor = Head(PrefixesOf(res'.model, input.file.prefixes)).vendor
  BY <1>1 DEF ResolveVendor, IsResult, ResultFields
<1> QED BY <1>2, <1>3, <1>4, <1>5

\* What the last stage fills in: the category, a form factor only where there is none,
\* and the bot's name.
LEMMA DeriveStep ==
    ASSUME StageInv, Derive
    PROVE  /\ Changes(res, res', {"category", "platform", "formFactor", "bot", "osRaw",
                                  "touch", "spoofed", "signalsUsed", "hash"})
           /\ res'.category = Category(res, override)
           /\ res'.formFactor \in {res.formFactor, FormFactorOfType(res.device)}
           /\ res.formFactor # "" => res'.formFactor = res.formFactor
           /\ ~res.isBot => res'.formFactor # "" \/ FormFactorOfType(res.device) = ""
           /\ res'.bot = BotNamed(res)
           /\ res'.spoofed \subseteq {"platform", "brands", "touchless"}
<1>1. IsResult(res) /\ res' = Derived(res, input.h, input.s, uaPlatform, override)
  BY DEF StageInv, Derive
<1>2. Changes(res, res', {"category", "platform", "formFactor", "bot", "osRaw",
                          "touch", "spoofed", "signalsUsed", "hash"})
  BY <1>1, DerivedChanges
<1>3. res'.category = Category(res, override) /\ res'.bot = BotNamed(res)
  BY <1>1 DEF Derived, IsResult, ResultFields
<1>4. /\ res'.formFactor \in {res.formFactor, FormFactorOfType(res.device)}
      /\ res.formFactor # "" => res'.formFactor = res.formFactor
  BY <1>1 DEF Derived, IsResult, ResultFields
<1>6. ~res.isBot => res'.formFactor # "" \/ FormFactorOfType(res.device) = ""
  BY <1>1 DEF Derived, IsResult, ResultFields
<1>5. res'.spoofed \subseteq {"platform", "brands", "touchless"}
  BY <1>1, DerivedChanges
<1> QED BY <1>2, <1>3, <1>4, <1>5, <1>6

\* The empty result has neither a version nor a major.
LEMMA BlankMajor == Blank.version = << >> /\ Blank.major = MajorOf(Blank.version)
<1> DEFINE ua == [client |-> [family |-> "", major |-> <<>>, rest |-> <<>>, os |-> "",
                              osVersion |-> <<>>, model |-> "", vendor |-> ""],
                  tokens |-> {}, cpu |-> [arch |-> "", bitness |-> ""],
                  engineVersion |-> <<>>]
<1>1. ua.client.family \notin JunkNames /\ ua.client.major = << >>
  BY DEF JunkNames
<1>2. UapVersion(ua) = << >>
  <2>1. << >> \in Seq({})
    OBVIOUS
  <2>2. << >> \o << >> = << >>
    BY <2>1, ConcatEmptySeq
  <2> QED BY <2>2 DEF UapVersion
<1>3. Blank = Inferred(ua)
  BY DEF Blank
<1> HIDE DEF ua
<1> QED BY <1>1, <1>2, <1>3 DEF Inferred, MajorOf

\* The history of a call that no rule has touched has no field.
LEMMA EmptyDomain == DOMAIN << >> = {}
  OBVIOUS

\* StageInv holds of every run: the stages come in their order, the history has
\* the fields rules may set, and the last stage alone derives a category.
THEOREM StageInvHolds == Spec => []StageInv
<1>1. Init => StageInv
  <2> SUFFICES ASSUME Init PROVE StageInv
    OBVIOUS
  <2>0. Len(Rules) \in Nat
    BY RulesOfFile DEF Init
  <2>1. next = 1
    BY DEF Init
  <2>2. next \in 1..(Len(Rules) + 1)
    BY <2>0, <2>1
  <2>3. /\ IsResult(res) /\ res.major = MajorOf(res.version)
        /\ res.device \in DeviceTypes /\ res.formFactor = ""
        /\ res.category = "" /\ res.spoofed = {}
    BY InferredResult, BlankMajor DEF Init, Blank
  <2> QED BY <2>2, <2>3, EmptyDomain DEF Init, StageInv
<1>2. StageInv /\ [Next]_vars => StageInv'
  <2> SUFFICES ASSUME StageInv, [Next]_vars PROVE StageInv'
    OBVIOUS
  <2> USE DEF StageInv
  <2>a. Len(Rules) \in Nat
    BY RulesOfFile
  <2>b. next \in 1..(Len(Rules) + 1)
    OBVIOUS
  <2>1. CASE Infer
    <3>1. /\ IsResult(res')
          /\ res'.major = MajorOf(res'.version) \/ UapMajor(input.ua, res')
          /\ res'.device \in DeviceTypes /\ res'.formFactor = ""
          /\ res'.category = "" /\ res'.spoofed = {}
      BY <2>1, InferredResult DEF Infer
    <3> QED BY <2>1, <3>1 DEF Infer, Rules, UapMajor
  <2>2. CASE ApplyClientHints
    <3>1. res'.category = "" /\ res'.spoofed = {} /\ IsResult(res')
      BY <2>2, HintsStep DEF Changes, ResultFields, ApplyClientHints
    <3>2. res'.major = MajorOf(res'.version) \/ UapMajor(input.ua, res')
      BY <2>2, HintsStep DEF MajorKept, UapMajor, ApplyClientHints
    <3> QED BY <2>2, <3>1, <3>2, HintsStep DEF ApplyClientHints, Rules, UapMajor
  <2>3. CASE ApplySignals
    <3>1. /\ res'.major = res.major /\ res'.version = res.version /\ IsResult(res')
          /\ res'.category = "" /\ res'.spoofed = {}
      BY <2>3, SignalsStep DEF Changes, ResultFields, ApplySignals
    <3> QED BY <2>3, <3>1 DEF ApplySignals, Rules, UapMajor
  <2>4. CASE ApplyRule
    <3>1. PICK W \in SUBSET Settable : RuleWrites(W)
      BY <2>4, RuleStep
    <3>2. /\ IsResult(res')
          /\ res'.category = res.category /\ res'.spoofed = res.spoofed
      BY <3>1 DEF RuleWrites, Changes, ResultFields, Settable
    <3>6. res'.major = MajorOf(res'.version) \/ UapMajor(input.ua, res')
      BY <2>4, <3>1 DEF RuleWrites, MajorKept, UapMajor, ApplyRule
    <3>3. /\ DOMAIN setBy' \subseteq Settable
          /\ "category" \in DOMAIN setBy' => override' = setBy'["category"]
          /\ "category" \notin DOMAIN setBy' => override' = ""
      BY <3>1 DEF RuleWrites
    <3>4. next' \in 1..(Len(Rules) + 1)
      <4>1. next <= Len(Rules) /\ next' = next + 1
        BY <2>4 DEF ApplyRule
      <4> HIDE DEF StageInv
      <4> QED BY <4>1, <2>a, <2>b
    <3>5. Rules' = Rules
      BY <2>4 DEF ApplyRule, Rules
    <3> QED BY <2>4, <3>2, <3>3, <3>4, <3>5, <3>6 DEF ApplyRule, UapMajor
  <2>5. CASE SkipRule
    <3>1. next' \in 1..(Len(Rules) + 1)
      <4>1. next <= Len(Rules) /\ next' = next + 1
        BY <2>5 DEF SkipRule
      <4> HIDE DEF StageInv
      <4> QED BY <4>1, <2>a, <2>b
    <3>2. Rules' = Rules
      BY <2>5 DEF SkipRule, Rules
    <3> QED BY <2>5, <3>1, <3>2 DEF SkipRule, UapMajor
  <2>6. CASE ResolveDeviceVendor
    <3>1. /\ res'.major = res.major /\ res'.version = res.version /\ IsResult(res')
          /\ res'.category = "" /\ res'.spoofed = {}
      BY <2>6, VendorStep DEF Changes, ResultFields, ResolveDeviceVendor
    <3> QED BY <2>6, <3>1 DEF ResolveDeviceVendor, Rules, UapMajor
  <2>7. CASE Derive
    <3>1. res'.major = res.major /\ res'.version = res.version /\ IsResult(res')
      BY <2>7, DeriveStep DEF Changes, ResultFields
    <3> QED BY <2>7, <3>1 DEF Derive, Rules, UapMajor
  <2>8. CASE Again
    <3>1. /\ IsResult(res') /\ res'.major = MajorOf(res'.version)
          /\ res'.device \in DeviceTypes /\ res'.formFactor = ""
          /\ res'.category = "" /\ res'.spoofed = {}
      BY <2>8, InferredResult, BlankMajor DEF Again, Blank
    <3>2. input' \in Inputs /\ input'.file = input.file
      BY <2>8 DEF Again, Inputs
    <3>3. Rules' = Rules
      BY <3>2 DEF Rules
    <3>4. next' \in 1..(Len(Rules') + 1)
      <4>1. next' = 1
        BY <2>8 DEF Again
      <4> HIDE DEF StageInv
      <4> QED BY <4>1, <2>a, <3>3
    <3> QED BY <2>8, <3>1, <3>2, <3>4, EmptyDomain DEF Again
  <2>9. CASE UNCHANGED vars
    BY <2>9 DEF vars, Rules, UapMajor
  <2> QED BY <2>1, <2>2, <2>3, <2>4, <2>5, <2>6, <2>7, <2>8, <2>9 DEF Next
<1> QED BY <1>1, <1>2, PTL DEF Spec

-----------------------------------------------------------------------------
\* browser.major is the major of browser.version after every stage, or both are
\* still what uap-core gave.
THEOREM MajorMatches == Spec => []MajorMatchesVersion
<1>1. StageInv => MajorMatchesVersion
  BY DEF StageInv, MajorMatchesVersion, UapMajor
<1> QED BY <1>1, StageInvHolds, PTL

-----------------------------------------------------------------------------
\* The form factor made of a type is a known one, or the type itself.
LEMMA FormFactorOfKnown ==
    ASSUME NEW device
    PROVE  /\ device \in DeviceTypes => FormFactorOfType(device) \in FormFactorValues
           /\ \/ FormFactorOfType(device) = device
              \/ FormFactorOfType(device) \in FormFactorValues
  BY DEF FormFactorOfType, DeviceTypes, FormFactorValues

\* DeviceInv holds of every run: whoever sets the type sets the form factor with
\* it, or is a screen of several touch points, or comes before the last stage
\* fills it in.
THEOREM DeviceInvHolds == Spec => []DeviceInv
<1>1. Init => DeviceInv
  <2> SUFFICES ASSUME Init PROVE DeviceInv
    OBVIOUS
  <2>1. res.device \in DeviceTypes /\ res.formFactor = ""
    BY InferredResult DEF Init, Blank
  <2> QED BY <2>1 DEF Init, DeviceInv, FormFactorValues
<1>2. StageInv /\ StageInv' /\ DeviceInv /\ [Next]_vars => DeviceInv'
  <2> SUFFICES ASSUME StageInv, StageInv', DeviceInv, [Next]_vars PROVE DeviceInv'
    OBVIOUS
  <2>1. CASE Infer
    <3>1. res'.device \in DeviceTypes /\ res'.formFactor = ""
      BY <2>1, InferredResult DEF Infer
    <3> QED BY <2>1, <3>1 DEF Infer, DeviceInv, FormFactorValues
  <2>2. CASE ApplyClientHints
    <3>1. stage' = "signals" /\ UNCHANGED <<input, setBy>>
      BY <2>2 DEF ApplyClientHints
    <3>2. /\ res'.device \in DeviceTypes
          /\ \/ res'.formFactor = ""
             \/ /\ input.h.formFactors # {}
                /\ res'.formFactor \in FormFactorValues
                /\ res'.formFactor = FormFactorOfType(res'.device)
      BY <2>2, HintsStep
    <3> QED BY <3>1, <3>2 DEF DeviceInv, FormFactorValues
  <2>3. CASE ApplySignals
    <3>1. stage = "signals" /\ stage' = "rules" /\ UNCHANGED <<input, setBy>>
      BY <2>3 DEF ApplySignals
    <3>2. /\ res'.formFactor = res.formFactor
          /\ res'.device = res.device \/ (ManyTouchPoints /\ res'.device = "tablet")
      BY <2>3, SignalsStep DEF Changes, ResultFields
    <3> QED BY <3>1, <3>2 DEF DeviceInv, DeviceTypes, Given, ManyTouchPoints
  <2>4. CASE ApplyRule
    <3>1. PICK W \in SUBSET Settable : RuleWrites(W)
      BY <2>4, RuleStep
    <3>2. stage = "rules" /\ stage' = "rules" /\ UNCHANGED input
      BY <2>4 DEF ApplyRule
    <3>3. res'.formFactor = res.formFactor
      BY <3>1 DEF RuleWrites, Changes, ResultFields, Settable
    <3>4. CASE "device" \in W
      <4>1. "device" \in DOMAIN setBy' /\ res'.device = setBy'["device"]
        BY <3>1, <3>4 DEF RuleWrites
      <4>2. res'.device \in Given("device")'
        BY <4>1 DEF Given
      <4> QED BY <3>2, <3>3, <4>1, <4>2 DEF DeviceInv
    <3>5. CASE "device" \notin W
      <4>1. res'.device = res.device
        BY <3>1, <3>5 DEF RuleWrites, Changes, ResultFields
      <4>2. /\ "device" \in DOMAIN setBy' <=> "device" \in DOMAIN setBy
            /\ "device" \in DOMAIN setBy => setBy'["device"] = setBy["device"]
        BY <3>1, <3>5 DEF RuleWrites
      <4>3. Given("device")' = Given("device")
        BY <4>2 DEF Given
      <4> QED BY <3>2, <3>3, <4>1, <4>2, <4>3 DEF DeviceInv, ManyTouchPoints
    <3> QED BY <3>4, <3>5
  <2>5. CASE SkipRule
    BY <2>5 DEF SkipRule, DeviceInv, Given, ManyTouchPoints
  <2>6. CASE ResolveDeviceVendor
    <3>1. stage = "rules" /\ stage' = "derive" /\ UNCHANGED <<input, setBy>>
      BY <2>6 DEF ResolveDeviceVendor
    <3>2. res'.formFactor = res.formFactor /\ res'.device = res.device
      BY <2>6, VendorStep DEF Changes, ResultFields
    <3> QED BY <3>1, <3>2 DEF DeviceInv, Given, ManyTouchPoints
  <2>7. CASE Derive
    <3>1. stage = "derive" /\ stage' = "done" /\ UNCHANGED <<input, setBy>>
      BY <2>7 DEF Derive
    <3>2. res'.device = res.device /\ res'.isBot = res.isBot
      BY <2>7, DeriveStep DEF Changes, ResultFields
    <3>3. /\ res'.formFactor \in {res.formFactor, FormFactorOfType(res.device)}
          /\ res.formFactor # "" => res'.formFactor = res.formFactor
          /\ ~res.isBot => res'.formFactor # "" \/ FormFactorOfType(res.device) = ""
      BY <2>7, DeriveStep
    <3>4. Given("device")' = Given("device")
      BY <3>1 DEF Given
    <3>5. FormFactorOfType(res.device) \in FormFactorValues \union Given("device")
      BY FormFactorOfKnown DEF DeviceInv
    <3>6. "device" \notin DOMAIN setBy => FormFactorOfType(res.device) # ""
      BY DEF DeviceInv, Given, FormFactorOfType, DeviceTypes
    <3>7. "device" \notin DOMAIN setBy =>
             \/ (res'.formFactor = "" /\ res'.isBot)
             \/ res'.formFactor = FormFactorOfType(res'.device)
             \/ (ManyTouchPoints /\ input.h.formFactors # {} /\ res'.device = "tablet")
      <4>1. CASE res.formFactor = ""
        BY <3>2, <3>3, <3>6, <4>1
      <4>2. CASE res.formFactor # ""
        BY <3>1, <3>2, <3>3, <4>2 DEF DeviceInv
      <4> QED BY <4>1, <4>2
    <3> QED BY <3>1, <3>2, <3>3, <3>4, <3>5, <3>7 DEF DeviceInv, ManyTouchPoints
  <2>8. CASE Again
    <3>1. res'.device \in DeviceTypes /\ res'.formFactor = ""
      BY <2>8, InferredResult DEF Again, Blank
    <3> QED BY <2>8, <3>1 DEF Again, DeviceInv, FormFactorValues
  <2>9. CASE UNCHANGED vars
    BY <2>9 DEF vars, DeviceInv, Given, ManyTouchPoints
  <2> QED BY <2>1, <2>2, <2>3, <2>4, <2>5, <2>6, <2>7, <2>8, <2>9 DEF Next
<1> QED BY <1>1, <1>2, StageInvHolds, PTL DEF Spec

-----------------------------------------------------------------------------
\* A renamed bot object is one still, and bears the name.
LEMMA BotNamedAgrees ==
    ASSUME NEW r, r.bot # NoBot => "name" \in DOMAIN r.bot
    PROVE  /\ BotNamed(r) = NoBot <=> r.bot = NoBot
           /\ BotNamed(r) # NoBot => "name" \in DOMAIN BotNamed(r) /\ BotNamed(r).name = r.name
<1>1. "name" \notin DOMAIN NoBot
  BY DEF NoBot
<1> QED BY <1>1 DEF BotNamed

\* BotInv holds of every run: after inferInfo nobody but a rule writes a flag or
\* the browser's type, and the bot object is renamed in the end.
THEOREM BotInvHolds == Spec => []BotInv
<1>1. Init => BotInv
  BY InferredBots DEF Init, Blank, BotInv, BotsAgree
<1>2. StageInv /\ BotInv /\ [Next]_vars => BotInv'
  <2> SUFFICES ASSUME StageInv, BotInv, [Next]_vars PROVE BotInv'
    OBVIOUS
  <2>1. CASE Infer
    BY <2>1, InferredBots DEF Infer, BotInv, BotsAgree
  <2>2. ASSUME stage' # "done", UNCHANGED setBy, IsResult(res'),
               \A f \in {"isBot", "isAI", "bot", "type"} : res'[f] = res[f]
        PROVE  BotInv'
    <3>1. /\ res'.isBot = res.isBot /\ res'.isAI = res.isAI
          /\ res'.bot = res.bot /\ res'.type = res.type
      BY <2>2
    <3> QED BY <2>2, <3>1 DEF BotInv, BotsAgree, UntouchedBy
  <2>3. CASE ApplyClientHints
    BY <2>2, <2>3, HintsStep DEF ApplyClientHints, Changes, ResultFields
  <2>4. CASE ApplySignals
    BY <2>2, <2>4, SignalsStep DEF ApplySignals, Changes, ResultFields
  <2>5. CASE ApplyRule
    <3>1. PICK W \in SUBSET Settable : RuleWrites(W)
      BY <2>5, RuleStep
    <3>2. stage' = "rules"
      BY <2>5 DEF ApplyRule
    <3>3. res'.bot = res.bot
      BY <3>1 DEF RuleWrites, Changes, ResultFields, Settable
    <3>4. ASSUME NEW f \in Flags
          PROVE  /\ f \in W => res'[f] \in BOOLEAN /\ f \in DOMAIN setBy'
                 /\ f \notin W => res'[f] = res[f]
      BY <3>1 DEF RuleWrites, Changes, ResultFields, Flags
    <3>5. res'.isBot \in BOOLEAN /\ res'.isAI \in BOOLEAN
      BY <3>4 DEF Flags, BotInv
    <3>6. UntouchedBy(Flags)' => /\ UntouchedBy(Flags)
                                 /\ res'.isBot = res.isBot /\ res'.isAI = res.isAI
      BY <3>1, <3>4 DEF UntouchedBy, Flags, RuleWrites
    <3>7. UntouchedBy(Flags \union {"type"})' =>
             UntouchedBy(Flags \union {"type"}) /\ UntouchedBy(Flags)' /\ res'.type = res.type
      BY <3>1 DEF UntouchedBy, Flags, RuleWrites, Changes, ResultFields
    <3> QED BY <3>2, <3>3, <3>5, <3>6, <3>7 DEF BotInv, BotsAgree
  <2>6. CASE SkipRule
    BY <2>6 DEF SkipRule, BotInv, UntouchedBy
  <2>7. CASE ResolveDeviceVendor
    BY <2>2, <2>7, VendorStep DEF ResolveDeviceVendor, Changes, ResultFields
  <2>8. CASE Derive
    <3>1. /\ res'.isBot = res.isBot /\ res'.isAI = res.isAI
          /\ res'.type = res.type /\ res'.name = res.name
      BY <2>8, DeriveStep DEF Changes, ResultFields
    <3>2. res'.bot = BotNamed(res) /\ res'.category = Category(res, override)
      BY <2>8, DeriveStep
    <3>3. setBy' = setBy /\ ("category" \notin DOMAIN setBy => override = "")
      BY <2>8 DEF Derive, StageInv
    <3>4. UntouchedBy(Flags) =>
             /\ BotNamed(res) = NoBot <=> res.bot = NoBot
             /\ BotNamed(res) # NoBot =>
                   "name" \in DOMAIN BotNamed(res) /\ BotNamed(res).name = res.name
      BY BotNamedAgrees DEF BotInv, BotsAgree
    <3>5. "category" \notin DOMAIN setBy => (res'.category = "bot" <=> res.isBot)
      <4>1. res.isBot \in BOOLEAN
        BY DEF BotInv
      <4> QED BY <3>2, <3>3, <4>1 DEF Category
    <3> QED BY <3>1, <3>2, <3>3, <3>4, <3>5 DEF BotInv, BotsAgree, UntouchedBy
  <2>9. CASE Again
    BY <2>9, InferredBots DEF Again, Blank, BotInv, BotsAgree
  <2>10. CASE UNCHANGED vars
    BY <2>10 DEF vars, BotInv, UntouchedBy
  <2> QED BY <2>1, <2>3, <2>4, <2>5, <2>6, <2>7, <2>8, <2>9, <2>10 DEF Next
<1> QED BY <1>1, <1>2, StageInvHolds, PTL DEF Spec

\* An AI agent is a bot, and the bots are those with a bot object of the
\* browser's name, the type and the category "bot", where no rule says otherwise.
THEOREM BotsAgreeAtTheEnd == Spec => []BotAgreement
<1>1. BotInv => BotAgreement
  BY DEF BotInv, BotsAgree, BotAgreement, Done, UntouchedBy, Flags
<1> QED BY <1>1, BotInvHolds, PTL

-----------------------------------------------------------------------------
\* The values a finished category can have.
LEMMA CategoryKnown ==
    ASSUME NEW r, NEW chosen
    PROVE  Category(r, chosen) \in {chosen, "bot", "mobile", "desktop"} \union DeviceTypes
  BY DEF Category, DeviceTypes

\* The vocabularies of types, form factors, categories and integrity reasons hold
\* after every stage, but for what a rule sets.
THEOREM TypeCorrect == Spec => []TypeOK
<1>1. Init => VocabularyInv
  BY DEF Init, VocabularyInv
<1>2. StageInv /\ VocabularyInv /\ [Next]_vars => VocabularyInv'
  <2> SUFFICES ASSUME StageInv, VocabularyInv, [Next]_vars PROVE VocabularyInv'
    OBVIOUS
  <2>1. CASE Derive
    <3>1. res'.category = Category(res, override) /\ override' = override
      BY <2>1, DeriveStep DEF Derive
    <3>2. res'.spoofed \subseteq {"platform", "brands", "touchless"}
      BY <2>1, DeriveStep
    <3>3. Category(res, override) \in {override, "bot", "mobile", "desktop"} \union DeviceTypes
      BY CategoryKnown
    <3> QED BY <3>1, <3>2, <3>3 DEF VocabularyInv
  <2>2. CASE UNCHANGED vars
    BY <2>2 DEF vars, VocabularyInv
  <2>3. CASE Next /\ ~Derive
    <3>1. stage' # "done"
      BY <2>3 DEF Next, Infer, ApplyClientHints, ApplySignals, ApplyRule, SkipRule,
            ResolveDeviceVendor, Again
    <3> QED BY <3>1 DEF VocabularyInv
  <2> QED BY <2>1, <2>2, <2>3
<1>3. StageInv /\ DeviceInv /\ BotInv /\ VocabularyInv => TypeOK
  <2> SUFFICES ASSUME StageInv, DeviceInv, BotInv, VocabularyInv PROVE TypeOK
    OBVIOUS
  <2>1. stage \in {"infer", "hints", "signals", "rules", "derive", "done"}
    BY DEF StageInv
  <2>2. next \in 1..(Len(Rules) + 1)
    BY DEF StageInv
  <2>3. res.device \in DeviceTypes \union Given("device")
    BY DEF DeviceInv
  <2>4. res.formFactor \in {"", "watch"} \union (DeviceTypes \ {"wearable"}) \union Given("device")
    BY DEF DeviceInv, FormFactorValues
  <2>5. /\ res.category \in {"", "bot", override, "desktop", "mobile"} \union DeviceTypes
        /\ res.spoofed \subseteq {"platform", "brands", "touchless"}
    BY DEF StageInv, VocabularyInv
  <2>6. res.isBot \in BOOLEAN /\ res.isAI \in BOOLEAN
    BY DEF BotInv
  <2> QED BY <2>1, <2>2, <2>3, <2>4, <2>5, <2>6 DEF TypeOK
<1> QED BY <1>1, <1>2, <1>3, StageInvHolds, DeviceInvHolds, BotInvHolds, PTL DEF Spec

-----------------------------------------------------------------------------
\* VendorInv holds of every run: the hints leave the vendor alone, and a vendor
\* that is still generic is looked up for the model that stays.
THEOREM VendorInvHolds == Spec => []VendorInv
<1>1. Init => VendorInv
  BY DEF Init, VendorInv
<1>2. StageInv /\ VendorInv /\ [Next]_vars => VendorInv'
  <2> SUFFICES ASSUME StageInv, VendorInv, [Next]_vars PROVE VendorInv'
    OBVIOUS
  <2>1. CASE Infer
    BY <2>1, InferredResult DEF Infer, VendorInv
  <2>2. CASE ApplyClientHints
    <3>1. res'.vendor = res.vendor
      BY <2>2, HintsStep DEF Changes, ResultFields
    <3> QED BY <2>2, <3>1 DEF ApplyClientHints, VendorInv
  <2>3. CASE ApplySignals
    <3>1. \/ res'.vendor = res.vendor
          \/ (ManyTouchPoints /\ res'.vendor = "Apple" /\ res'.model = "iPad")
      BY <2>3, SignalsStep
    <3> QED BY <2>3, <3>1 DEF ApplySignals, VendorInv, UnmaskedIPad, ManyTouchPoints
  <2>4. CASE ApplyRule
    <3>1. PICK W \in SUBSET Settable : RuleWrites(W)
      BY <2>4, RuleStep
    <3>2. UntouchedBy({"vendor", "model"})' =>
             /\ UntouchedBy({"vendor", "model"})
             /\ res'.vendor = res.vendor /\ res'.model = res.model
      BY <3>1 DEF UntouchedBy, RuleWrites, Changes, ResultFields
    <3> QED BY <2>4, <3>2 DEF ApplyRule, VendorInv, UnmaskedIPad, ManyTouchPoints
  <2>5. CASE SkipRule
    BY <2>5 DEF SkipRule, VendorInv, UntouchedBy, UnmaskedIPad, ManyTouchPoints
  <2>6. CASE ResolveDeviceVendor
    <3>1. stage = "rules" /\ stage' = "derive" /\ UNCHANGED <<input, setBy>>
      BY <2>6 DEF ResolveDeviceVendor
    <3>2. /\ res.vendor \notin GenericVendors => res' = res
          /\ /\ res.vendor \in GenericVendors /\ res'.model # ""
             /\ PrefixesOf(res'.model, input.file.prefixes) # <<>>
             => res'.vendor = Head(PrefixesOf(res'.model, input.file.prefixes)).vendor
      BY <2>6, VendorStep
    <3>3. "Apple" \notin GenericVendors
      BY DEF GenericVendors
    <3> QED BY <3>1, <3>2, <3>3 DEF VendorInv, UntouchedBy, UnmaskedIPad, ManyTouchPoints
  <2>7. CASE Derive
    <3>1. res'.vendor = res.vendor /\ res'.model = res.model
      BY <2>7, DeriveStep DEF Changes, ResultFields
    <3> QED BY <2>7, <3>1 DEF Derive, VendorInv, UntouchedBy, UnmaskedIPad, ManyTouchPoints
  <2>8. CASE Again
    BY <2>8 DEF Again, VendorInv
  <2>9. CASE UNCHANGED vars
    BY <2>9 DEF vars, VendorInv, UntouchedBy, UnmaskedIPad, ManyTouchPoints
  <2> QED BY <2>1, <2>2, <2>3, <2>4, <2>5, <2>6, <2>7, <2>8, <2>9 DEF Next
<1> QED BY <1>1, <1>2, StageInvHolds, PTL DEF Spec

\* The parts of a finished device agree, whichever source each comes from.
THEOREM DeviceAgreesAtTheEnd == Spec => []DeviceAgrees
<1>1. DeviceInv /\ VendorInv => DeviceAgrees
  <2> SUFFICES ASSUME DeviceInv, VendorInv, Done PROVE DeviceAgrees
    BY DEF DeviceAgrees
  <2>1. UntouchedBy({"device", "formFactor"}) /\ ~res.isBot
        => \/ res.formFactor = FormFactorOfType(res.device)
           \/ (ManyTouchPoints /\ input.h.formFactors # {} /\ res.device = "tablet")
    BY DEF DeviceInv, UntouchedBy, Done
  <2>2. UntouchedBy({"vendor", "model"}) /\ input.ua.client.vendor \in GenericVendors
        => LET known == PrefixesOf(res.model, input.file.prefixes)
           IN  res.model # "" /\ known # <<>>
               => \/ res.vendor = Head(known).vendor
                  \/ (ManyTouchPoints /\ res.vendor = "Apple" /\ res.model = "iPad")
    BY DEF VendorInv, UnmaskedIPad, Done
  <2> QED BY <2>1, <2>2 DEF DeviceAgrees
<1> QED BY <1>1, DeviceInvHolds, VendorInvHolds, PTL

-----------------------------------------------------------------------------
\* TerminalInv holds of every run: a later rule that writes a field takes it
\* over, the vendor look-up writes gaps only, and the last stage writes nothing
\* that rules can set but the category, for which it takes what they chose.
THEOREM TerminalInvHolds == Spec => []TerminalInv
<1>1. Init => TerminalInv
  BY DEF Init, TerminalInv
<1>2. StageInv /\ TerminalInv /\ [Next]_vars => TerminalInv'
  <2> SUFFICES ASSUME StageInv, TerminalInv, [Next]_vars PROVE TerminalInv'
    OBVIOUS
  <2>1. CASE Infer \/ ApplyClientHints
    BY <2>1 DEF Infer, ApplyClientHints, TerminalInv
  <2>2. CASE ApplySignals
    <3>1. DOMAIN setBy' = {}
      BY <2>2 DEF ApplySignals, StageInv
    <3> QED BY <2>2, <3>1 DEF ApplySignals, TerminalInv
  <2>3. CASE ApplyRule
    <3>1. PICK W \in SUBSET Settable : RuleWrites(W)
      BY <2>3, RuleStep
    <3>2. stage = "rules" /\ stage' = "rules"
      BY <2>3 DEF ApplyRule
    <3>3. ASSUME NEW f \in DOMAIN setBy' \ {"category"} PROVE res'[f] = setBy'[f]
      <4>1. CASE f \in W
        BY <3>1, <3>3, <4>1 DEF RuleWrites
      <4>2. CASE f \notin W
        <5>1. f \in DOMAIN setBy /\ setBy'[f] = setBy[f]
          BY <3>1, <3>3, <4>2 DEF RuleWrites
        <5>2. f \in ResultFields \ ((W \ {"category"}) \union {"major"})
          BY <4>2, <5>1 DEF StageInv, Settable, ResultFields
        <5>3. res'[f] = res[f]
          BY <3>1, <5>2 DEF RuleWrites, Changes
        <5> QED BY <3>2, <3>3, <5>1, <5>3 DEF TerminalInv
      <4> QED BY <4>1, <4>2
    <3> QED BY <3>2, <3>3 DEF TerminalInv
  <2>4. CASE SkipRule
    BY <2>4 DEF SkipRule, TerminalInv
  <2>5. CASE ResolveDeviceVendor
    <3>1. stage = "rules" /\ stage' = "derive" /\ UNCHANGED setBy
      BY <2>5 DEF ResolveDeviceVendor
    <3>2. /\ Changes(res, res', {"model", "vendor"})
          /\ res.vendor \notin GenericVendors => res' = res
          /\ res.model \notin GenericModels => res'.model = res.model
      BY <2>5, VendorStep
    <3>3. ASSUME NEW f \in DOMAIN setBy \ {"category"}, ~Gap(f) PROVE res'[f] = setBy[f]
      <4>1. res[f] = setBy[f] /\ f \in ResultFields
        BY <3>1, <3>3 DEF TerminalInv, StageInv, Settable, ResultFields
      <4>2. CASE f \notin {"model", "vendor"}
        BY <3>2, <4>1, <4>2 DEF Changes
      <4>3. CASE f = "model"
        BY <3>2, <3>3, <4>1, <4>3 DEF Gap
      <4>4. CASE f = "vendor"
        BY <3>2, <3>3, <4>1, <4>4 DEF Gap
      <4> QED BY <4>2, <4>3, <4>4
    <3> QED BY <3>1, <3>3 DEF TerminalInv, Gap
  <2>6. CASE Derive
    <3>1. stage = "derive" /\ stage' = "done" /\ UNCHANGED setBy
      BY <2>6 DEF Derive
    <3>2. \A f \in Settable \ {"category"} : res'[f] = res[f]
      BY <2>6, DeriveStep DEF Changes, Settable, ResultFields
    <3>3. res'.category = Category(res, override)
      BY <2>6, DeriveStep
    <3>4. "category" \in DOMAIN setBy /\ ~Gap("category") => res'.category = setBy["category"]
      BY <3>3 DEF StageInv, Gap, Category
    <3> QED BY <3>1, <3>2, <3>4 DEF TerminalInv, StageInv, Gap
  <2>7. CASE Again
    BY <2>7 DEF Again, TerminalInv
  <2>8. CASE UNCHANGED vars
    BY <2>8 DEF vars, TerminalInv, Gap
  <2> QED BY <2>1, <2>2, <2>3, <2>4, <2>5, <2>6, <2>7, <2>8 DEF Next
<1> QED BY <1>1, <1>2, StageInvHolds, PTL DEF Spec

\* Corrections are terminal: what they set last is what the caller gets.
THEOREM CorrectionsStand == Spec => []CorrectionsTerminal
<1>1. TerminalInv => CorrectionsTerminal
  BY DEF TerminalInv, CorrectionsTerminal, Done
<1> QED BY <1>1, TerminalInvHolds, PTL

-----------------------------------------------------------------------------
\* Two blocks with one masked form tell the pipeline the same: device memory is
\* all they can differ in.
LEMMA MaskedEqual ==
    ASSUME NEW s \in Blocks, NEW t \in Blocks, Masked(s) = Masked(t)
    PROVE  /\ s = NoSignals <=> t = NoSignals
           /\ s # NoSignals => /\ s.touch = t.touch
                               /\ s.renderer = t.renderer /\ s.vendor = t.vendor
<1>1. ASSUME NEW b \in Blocks, b # NoSignals
      PROVE  /\ DOMAIN b = DOMAIN EmptyBlock
             /\ DOMAIN Masked(b) = DOMAIN EmptyBlock
             /\ Masked(b).touch = b.touch
             /\ Masked(b).renderer = b.renderer /\ Masked(b).vendor = b.vendor
  BY <1>1, BlocksAssumption DEF Masked, EmptyBlock
<1>2. DOMAIN NoSignals # DOMAIN EmptyBlock
  BY DEF NoSignals, EmptyBlock
<1>3. Masked(NoSignals) = NoSignals
  BY DEF Masked
<1> QED BY <1>1, <1>2, <1>3

\* Inputs that differ in nothing but such blocks go the same way.
SameButMemory(i, j) ==
    /\ i.ua = j.ua /\ i.h = j.h /\ i.file = j.file
    /\ i.s \in Blocks /\ j.s \in Blocks /\ Masked(i.s) = Masked(j.s)

\* Such inputs start from one result, every rule treats them alike, and so does the
\* vendor look-up.
LEMMA SameWay ==
    ASSUME NEW i, NEW j, SameButMemory(i, j)
    PROVE  /\ BeforeRules(i) = BeforeRules(j)
           /\ \A rule, p : Ruled(rule, i, p) = Ruled(rule, j, p)
           /\ \A p : Resolved(i, p) = Resolved(j, p)
           /\ \A way : End(way, i) = End(way, j)
<1> USE DEF SameButMemory
<1>1. CASE i.s = NoSignals
  <2>1. j.s = NoSignals
    BY <1>1, MaskedEqual
  <2> QED BY <1>1, <2>1 DEF BeforeRules, Ruled, Resolved, End
<1>2. CASE i.s # NoSignals
  <2>1. /\ j.s # NoSignals /\ i.s.touch = j.s.touch
        /\ i.s.renderer = j.s.renderer /\ i.s.vendor = j.s.vendor
    BY <1>2, MaskedEqual
  <2>2. ASSUME NEW r
        PROVE  Signalled(r, i.ua, i.h, i.s) = Signalled(r, j.ua, j.h, j.s)
    BY <2>1 DEF Signalled, ProvesAppleSilicon
  <2> QED BY <1>2, <2>1, <2>2 DEF BeforeRules, Ruled, Resolved, End
<1> QED BY <1>1, <1>2

\* The last stage reads of a block what the key masks not, but for
\* detection.signals_used.
LEMMA SameDerived ==
    ASSUME NEW s \in Blocks, NEW t \in Blocks, Masked(s) = Masked(t),
           NEW r, NEW h, NEW uaPlat, NEW chosen, IsResult(r)
    PROVE  [Derived(r, h, s, uaPlat, chosen) EXCEPT
              !.signalsUsed = Derived(r, h, t, uaPlat, chosen).signalsUsed]
           = Derived(r, h, t, uaPlat, chosen)
<1> DEFINE touch(b) == IsMobile(r) \/ (b # NoSignals /\ b.touch > 0)
           d(b) == [r EXCEPT !.category = Category(r, chosen),
                             !.platform = PlatformOf(r.os),
                             !.formFactor = IF r.formFactor = "" /\ ~r.isBot
                                            THEN FormFactorOfType(r.device) ELSE @,
                             !.bot = BotNamed(r),
                             !.osRaw = IF r.osRaw = <<>> THEN r.osVersion ELSE @,
                             !.touch = touch(b),
                             !.signalsUsed = SignalsProvided(b)]
           e(b) == [d(b) EXCEPT !.spoofed = Contradictions(d(b), h, b, uaPlat),
                                !.hash = ClassOf(d(b))]
<1>1. Derived(r, h, s, uaPlat, chosen) = e(s) /\ Derived(r, h, t, uaPlat, chosen) = e(t)
  BY DEF Derived
<1>2. touch(s) = touch(t)
  BY MaskedEqual
<1> HIDE DEF touch
<1>a. d(s) = [f \in ResultFields |-> d(s)[f]]
  BY DEF IsResult
<1>b. d(t) = [f \in ResultFields |-> d(t)[f]]
  BY DEF IsResult
<1>3. \A f \in ResultFields \ {"signalsUsed"} : d(s)[f] = d(t)[f]
  BY <1>2 DEF IsResult
<1> HIDE DEF d
<1>4. ClassOf(d(s)) = ClassOf(d(t))
  BY <1>3 DEF ClassOf, ResultFields
<1>5. Contradictions(d(s), h, s, uaPlat) = Contradictions(d(t), h, t, uaPlat)
  BY <1>3, MaskedEqual DEF Contradictions, IsMobile, ResultFields
<1>6. /\ e(s) = [f \in ResultFields |-> e(s)[f]] /\ e(t) = [f \in ResultFields |-> e(t)[f]]
      /\ \A f \in ResultFields \ {"signalsUsed"} : e(s)[f] = e(t)[f]
  BY <1>a, <1>b, <1>3, <1>4, <1>5
<1> HIDE DEF e
<1>7. [e(s) EXCEPT !.signalsUsed = e(t).signalsUsed] = e(t)
  BY <1>6
<1> QED BY <1>1, <1>7

\* What a rule makes of the call in progress, whether it applies or not.
LEMMA RuledStep ==
    ASSUME ApplyRule \/ SkipRule,
           NEW p, p.res = res, p.chosen = override
    PROVE  /\ res' = Ruled(Rules[next], input, p).res
           /\ override' = Ruled(Rules[next], input, p).chosen
<1>1. CASE ApplyRule
  BY <1>1 DEF ApplyRule, Ruled
<1>2. CASE SkipRule
  BY <1>2 DEF SkipRule, Ruled
<1> QED BY <1>1, <1>2

\* EarlyStages holds of every run: the platform of the UA is taken before a hint
\* changes the operating system.
THEOREM EarlyStagesHolds == Spec => []EarlyStages
<1>1. Init => EarlyStages
  BY DEF Init, EarlyStages
<1>2. EarlyStages /\ [Next]_vars => EarlyStages'
  <2> SUFFICES ASSUME EarlyStages, [Next]_vars PROVE EarlyStages'
    OBVIOUS
  <2>1. CASE Infer
    BY <2>1 DEF Infer, EarlyStages
  <2>2. CASE ApplyClientHints
    BY <2>2 DEF ApplyClientHints, EarlyStages
  <2>3. CASE ApplySignals
    BY <2>3 DEF ApplySignals, EarlyStages
  <2>4. CASE ApplyRule \/ SkipRule
    BY <2>4 DEF ApplyRule, SkipRule, EarlyStages
  <2>5. CASE ResolveDeviceVendor \/ Derive
    BY <2>5 DEF ResolveDeviceVendor, Derive, EarlyStages
  <2>6. CASE Again
    BY <2>6 DEF Again, EarlyStages
  <2>7. CASE UNCHANGED vars
    BY <2>7 DEF vars, EarlyStages
  <2> QED BY <2>1, <2>2, <2>3, <2>4, <2>5, <2>6, <2>7 DEF Next
<1> QED BY <1>1, <1>2, PTL DEF Spec

\* FirstCall holds of every run: each rule prolongs the way by one.
THEOREM FirstCallHolds == Spec => []FirstCall
<1>1. Init => FirstCall
  BY DEF Init, FirstCall
<1>2. StageInv /\ EarlyStages /\ FirstCall /\ [Next]_vars => FirstCall'
  <2> SUFFICES ASSUME StageInv, EarlyStages, FirstCall, [Next]_vars PROVE FirstCall'
    OBVIOUS
  <2>a. Len(Rules) \in Nat
    BY RulesOfFile DEF StageInv
  <2>b. next \in 1..(Len(Rules) + 1)
    BY DEF StageInv
  <2>1. CASE Infer \/ ApplyClientHints \/ Again
    BY <2>1 DEF Infer, ApplyClientHints, Again, FirstCall
  <2>2. CASE ApplySignals
    <3> DEFINE way == [m \in {1} |-> BeforeRules(input)]
    <3>1. stage' = "rules" /\ next' = 1 /\ UNCHANGED <<input, override>> /\ override = ""
      BY <2>2 DEF ApplySignals, StageInv, EarlyStages
    <3>2. res' = way[next'].res /\ override' = way[next'].chosen
      BY <2>2, <3>1 DEF ApplySignals, EarlyStages, BeforeRules
    <3>3. IsWay(way, input, 1)
      BY DEF IsWay
    <3> HIDE DEF way
    <3> QED BY <3>1, <3>2, <3>3 DEF FirstCall, OnWay
  <2>3. CASE (ApplyRule \/ SkipRule) /\ prev = NoCall
    <3>1. /\ stage = "rules" /\ stage' = "rules" /\ next <= Len(Rules) /\ next' = next + 1
          /\ UNCHANGED input
      BY <2>3 DEF ApplyRule, SkipRule
    <3>2. PICK way : IsWay(way, input, next) /\ OnWay(way)
      BY <2>3, <3>1 DEF FirstCall
    <3> DEFINE on == [m \in 1..(next + 1) |->
                        IF m = next + 1 THEN Ruled(Rules[next], input, way[next]) ELSE way[m]]
    <3>3. on[next + 1] = Ruled(Rules[next], input, way[next])
      BY <2>a, <2>b
    <3>4. \A m \in 1..next : on[m] = way[m]
      BY <2>a, <2>b
    <3> HIDE DEF on
    <3>5. IsWay(on, input, next + 1)
      <4>1. on[1] = BeforeRules(input)
        BY <2>a, <2>b, <3>2, <3>4 DEF IsWay
      <4>2. ASSUME NEW m \in 1..next PROVE on[m + 1] = Ruled(Rules[m], input, on[m])
        <5>1. CASE m = next
          BY <3>3, <3>4, <5>1
        <5>2. CASE m # next
          <6>1. m \in 1..(next - 1) /\ m + 1 \in 1..next
            BY <2>a, <2>b, <5>2
          <6>2. way[m + 1] = Ruled(Rules[m], input, way[m])
            BY <3>2, <6>1 DEF IsWay, Rules
          <6> QED BY <3>4, <6>1, <6>2
        <5> QED BY <5>1, <5>2
      <4>3. (next + 1) - 1 = next
        BY <2>a, <2>b
      <4> QED BY <4>1, <4>2, <4>3 DEF IsWay, Rules
    <3>6. res' = on[next'].res /\ override' = on[next'].chosen
      BY <2>3, <3>1, <3>2, <3>3, RuledStep DEF OnWay
    <3> QED BY <3>1, <3>5, <3>6 DEF FirstCall, OnWay
  <2>4. CASE ResolveDeviceVendor /\ prev = NoCall
    <3>1. /\ stage = "rules" /\ stage' = "derive" /\ next > Len(Rules)
          /\ UNCHANGED <<input, override>>
          /\ res' = ResolveVendor(res, input.ua, input.file.prefixes)
      BY <2>4 DEF ResolveDeviceVendor
    <3>2. next = Len(Rules) + 1
      BY <2>a, <2>b, <3>1
    <3>3. PICK way : IsWay(way, input, next) /\ OnWay(way)
      BY <2>4, <3>1 DEF FirstCall
    <3>4. OnWay(way)'
      BY <3>1, <3>2, <3>3 DEF OnWay, Resolved, End, Rules
    <3>5. IsWay(way, input', Len(Rules)' + 1)
      BY <3>1, <3>2, <3>3 DEF Rules
    <3> QED BY <3>1, <3>4, <3>5 DEF FirstCall
  <2>5. CASE Derive /\ prev = NoCall
    <3>1. /\ stage = "derive" /\ stage' = "done" /\ UNCHANGED input
          /\ res' = Derived(res, input.h, input.s, uaPlatform, override)
      BY <2>5 DEF Derive
    <3>2. PICK way : IsWay(way, input, Len(Rules) + 1) /\ OnWay(way)
      BY <2>5, <3>1 DEF FirstCall
    <3>3. OnWay(way)'
      BY <3>1, <3>2 DEF OnWay, Finished, EarlyStages, StageInv
    <3>4. IsWay(way, input', Len(Rules)' + 1)
      BY <3>1, <3>2 DEF Rules
    <3> QED BY <3>1, <3>3, <3>4 DEF FirstCall
  <2>6. CASE prev # NoCall /\ ~Again
    <3>1. prev' = prev
      BY <2>6 DEF Next, Infer, ApplyClientHints, ApplySignals, ApplyRule, SkipRule,
            ResolveDeviceVendor, Derive, vars
    <3> QED BY <2>6, <3>1 DEF FirstCall
  <2>7. CASE UNCHANGED vars
    BY <2>7 DEF vars, FirstCall, OnWay, Rules
  <2> QED BY <2>1, <2>2, <2>3, <2>4, <2>5, <2>6, <2>7 DEF Next
<1> QED BY <1>1, <1>2, StageInvHolds, EarlyStagesHolds, PTL DEF Spec

\* SecondCall holds of every run: the first call has gone the way of its input,
\* and as long as the second differs from it in what the key masks only, each of
\* its steps computes what the same step of the first one has.
THEOREM SecondCallHolds == Spec => []SecondCall
<1>1. Init => SecondCall
  BY DEF Init, SecondCall
<1>2. StageInv /\ EarlyStages /\ FirstCall /\ SecondCall /\ [Next]_vars => SecondCall'
  <2> SUFFICES ASSUME StageInv, EarlyStages, FirstCall, SecondCall, [Next]_vars
               PROVE  SecondCall'
    OBVIOUS
  <2>a. Len(Rules) \in Nat
    BY RulesOfFile DEF StageInv
  <2>b. next \in 1..(Len(Rules) + 1)
    BY DEF StageInv
  <2>1. ASSUME UNCHANGED <<input, prev>>,
               prev # NoCall,
               \A way : /\ IsWay(way, FirstInput, Len(Rules) + 1)
                        /\ SameButMemory(FirstInput, input)
                        /\ OnWay(way)
                        => OnWay(way)'
        PROVE  SecondCall'
    <3>1. PICK way : /\ IsWay(way, FirstInput, Len(Rules) + 1)
                     /\ prev.res = Finished(FirstInput, End(way, FirstInput))
                     /\ SameCall => OnWay(way)
      BY <2>1 DEF SecondCall
    <3>2. prev.s \in Blocks /\ prev.h \in Headers /\ prev.key = Key(FirstInput)
      BY <2>1 DEF SecondCall
    <3>3. SameCall => SameButMemory(FirstInput, input)
      BY <3>2 DEF SameCall, SameButMemory, FirstInput, StageInv, Inputs
    <3>4. SameCall => OnWay(way)'
      BY <2>1, <3>1, <3>3
    <3>5. FirstInput' = FirstInput /\ Rules' = Rules /\ (SameCall' <=> SameCall)
      BY <2>1 DEF FirstInput, Rules, SameCall, Masked
    <3> QED BY <2>1, <3>1, <3>2, <3>4, <3>5 DEF SecondCall
  <2>2. CASE prev' = NoCall
    BY <2>2 DEF SecondCall
  <2>3. CASE (Infer \/ ApplyClientHints) /\ prev # NoCall
    <3>1. stage' \in {"hints", "signals"} /\ UNCHANGED <<input, prev>>
      BY <2>3 DEF Infer, ApplyClientHints
    <3>2. ASSUME NEW way PROVE OnWay(way)'
      BY <3>1 DEF OnWay
    <3> QED BY <2>1, <2>3, <3>1, <3>2
  <2>4. CASE ApplySignals /\ prev # NoCall
    <3>1. /\ stage' = "rules" /\ next' = 1 /\ UNCHANGED <<input, override, prev>>
          /\ override = ""
      BY <2>4 DEF ApplySignals, StageInv, EarlyStages
    <3>2. res' = BeforeRules(input).res /\ override' = BeforeRules(input).chosen
      BY <2>4, <3>1 DEF ApplySignals, EarlyStages, BeforeRules
    <3>3. ASSUME NEW way, IsWay(way, FirstInput, Len(Rules) + 1),
                 SameButMemory(FirstInput, input)
          PROVE  OnWay(way)'
      <4>1. way[1] = BeforeRules(input)
        BY <3>3, SameWay DEF IsWay
      <4> QED BY <3>1, <3>2, <4>1 DEF OnWay
    <3> QED BY <2>1, <2>4, <3>1, <3>3
  <2>5. CASE (ApplyRule \/ SkipRule) /\ prev # NoCall
    <3>1. /\ stage = "rules" /\ stage' = "rules" /\ next <= Len(Rules) /\ next' = next + 1
          /\ UNCHANGED <<input, prev>>
      BY <2>5 DEF ApplyRule, SkipRule
    <3>2. next \in 1..((Len(Rules) + 1) - 1)
      BY <2>a, <2>b, <3>1
    <3>3. ASSUME NEW way, IsWay(way, FirstInput, Len(Rules) + 1),
                 SameButMemory(FirstInput, input), OnWay(way)
          PROVE  OnWay(way)'
      <4>1. FirstInput.file.rules = Rules
        BY <3>3 DEF SameButMemory, Rules
      <4>2. way[next + 1] = Ruled(Rules[next], FirstInput, way[next])
        BY <3>2, <3>3, <4>1 DEF IsWay
      <4>3. way[next + 1] = Ruled(Rules[next], input, way[next])
        BY <3>3, <4>2, SameWay
      <4>4. res = way[next].res /\ override = way[next].chosen
        BY <3>1, <3>3 DEF OnWay
      <4>5. res' = way[next + 1].res /\ override' = way[next + 1].chosen
        BY <2>5, <4>3, <4>4, RuledStep
      <4> QED BY <3>1, <4>5 DEF OnWay
    <3> QED BY <2>1, <2>5, <3>1, <3>3
  <2>6. CASE ResolveDeviceVendor /\ prev # NoCall
    <3>1. /\ stage = "rules" /\ stage' = "derive" /\ next > Len(Rules)
          /\ UNCHANGED <<input, override, prev>>
          /\ res' = ResolveVendor(res, input.ua, input.file.prefixes)
      BY <2>6 DEF ResolveDeviceVendor
    <3>2. next = Len(Rules) + 1
      BY <2>a, <2>b, <3>1
    <3>3. ASSUME NEW way, OnWay(way) PROVE OnWay(way)'
      BY <3>1, <3>2, <3>3 DEF OnWay, Resolved, End, Rules
    <3> QED BY <2>1, <2>6, <3>1, <3>3
  <2>7. CASE Derive /\ prev # NoCall
    <3>1. /\ stage = "derive" /\ stage' = "done" /\ UNCHANGED <<input, prev>>
          /\ res' = Derived(res, input.h, input.s, uaPlatform, override)
      BY <2>7 DEF Derive
    <3>2. ASSUME NEW way, OnWay(way) PROVE OnWay(way)'
      BY <3>1, <3>2 DEF OnWay, Finished, EarlyStages, StageInv
    <3> QED BY <2>1, <2>7, <3>1, <3>2
  <2>8. CASE Again
    <3>1. /\ stage = "done" /\ prev = NoCall /\ stage' = "infer"
          /\ prev' = [key |-> Key(input), h |-> input.h, s |-> input.s, res |-> res]
      BY <2>8 DEF Again
    <3>2. PICK way : IsWay(way, input, Len(Rules) + 1) /\ OnWay(way)
      BY <3>1 DEF FirstCall
    <3>3. FirstInput' = input
      <4>1. input \in Inputs
        BY DEF StageInv
      <4>2. \/ \E s \in Blocks : input' = [input EXCEPT !.s = s]
            \/ \E h \in Headers : input' = [input EXCEPT !.h = h]
        BY <2>8 DEF Again
      <4> QED BY <3>1, <4>1, <4>2 DEF FirstInput, Inputs
    <3>4. Rules' = Rules
      BY <2>8 DEF Again, Rules, StageInv, Inputs
    <3>5. prev'.s \in Blocks /\ prev'.h \in Headers /\ prev'.key = Key(FirstInput')
      BY <3>1, <3>3 DEF StageInv, Inputs
    <3>6. prev'.res = Finished(FirstInput', End(way, FirstInput'))
      BY <3>1, <3>2, <3>3 DEF OnWay
    <3>7. OnWay(way)'
      BY <3>1 DEF OnWay
    <3> QED BY <3>2, <3>3, <3>4, <3>5, <3>6, <3>7 DEF SecondCall
  <2>9. CASE UNCHANGED vars
    BY <2>9 DEF vars, SecondCall, SameCall, Masked, OnWay, Rules, FirstInput
  <2> QED BY <2>2, <2>3, <2>4, <2>5, <2>6, <2>7, <2>8, <2>9
        DEF Next, Infer, ApplyClientHints, ApplySignals, ApplyRule, SkipRule,
            ResolveDeviceVendor, Derive
<1> QED BY <1>1, <1>2, StageInvHolds, EarlyStagesHolds, FirstCallHolds, PTL DEF Spec

\* Two calls with one cache key have one result, but for detection.signals_used:
\* what the key leaves out of a signals block, the pipeline does not read.
THEOREM KeySuffices == Spec => []SameKeySameResult
<1>1. StageInv /\ SecondCall => SameKeySameResult
  <2> SUFFICES ASSUME StageInv, SecondCall, Done, prev # NoCall, prev.key = Key(input)
               PROVE  [prev.res EXCEPT !.signalsUsed = res.signalsUsed] = res
    BY DEF SameKeySameResult
  <2>1. PICK way : /\ prev.res = Finished(FirstInput, End(way, FirstInput))
                   /\ SameCall => OnWay(way)
    BY DEF SecondCall
  <2>2. /\ input \in Inputs /\ prev.s \in Blocks /\ prev.h \in Headers
        /\ FirstInput.ua = input.ua /\ FirstInput.h = prev.h
        /\ FirstInput.file = input.file /\ FirstInput.s = prev.s
    BY DEF StageInv, SecondCall, FirstInput, Inputs
  <2>3. Key(FirstInput) = Key(input)
    BY DEF SecondCall
  <2>4. Masked(prev.s) = Masked(input.s)
    BY <2>2, <2>3 DEF Key, Masked
  <2>8. prev.h = input.h
    <3>1. [k \in CacheKeyHeaders |-> prev.h[k]] = [k \in CacheKeyHeaders |-> input.h[k]]
      BY <2>2, <2>3 DEF Key
    <3>2. \A k \in ConsumedHeaders : prev.h[k] = input.h[k]
      <4>1. ConsumedHeaders \subseteq CacheKeyHeaders
        BY DEF ConsumedHeaders, CacheKeyHeaders
      <4> QED BY <3>1, <4>1
    <3>3. /\ prev.h = [k \in ConsumedHeaders |-> prev.h[k]]
          /\ input.h = [k \in ConsumedHeaders |-> input.h[k]]
      BY <2>2, HeadersAssumption DEF Inputs
    <3> QED BY <3>2, <3>3
  <2>5. SameButMemory(FirstInput, input)
    BY <2>2, <2>4, <2>8 DEF SameButMemory, Inputs
  <2> DEFINE r == Resolved(input, End(way, input))
             plat == PlatformOf(Inferred(input.ua).os)
             chosen == End(way, input).chosen
  <2>6. res = Derived(r, input.h, input.s, plat, chosen) /\ IsResult(r)
    BY <2>1, <2>4, <2>8 DEF SameCall, OnWay, Finished, Done
  <2>7. prev.res = Derived(r, input.h, prev.s, plat, chosen)
    BY <2>1, <2>2, <2>5, <2>8, SameWay DEF Finished
  <2> HIDE DEF r, plat, chosen
  <2> QED BY <2>2, <2>4, <2>6, <2>7, SameDerived DEF Inputs
<1> QED BY <1>1, StageInvHolds, SecondCallHolds, PTL

-----------------------------------------------------------------------------
(***************************************************************************)
(* A client whose parts belong together: the platform it hints is not      *)
(* another one than its UA's, only a Blink browser sends brands, and a     *)
(* screen without touch is neither a phone's nor a tablet's.               *)
(***************************************************************************)
PlatformsAgree(ua, h) ==
    \/ Clean(h.platform) \in {"", "Unknown"}
    \/ ~PlatformsDiffer(PlatformOf(Clean(h.platform)), PlatformOf(Inferred(ua).os))
BrandsAgree(ua, h) == BrandList(h.brands) = <<>> \/ EngineOf(ua) \in {"", "Blink"}
Touchless(s) == s # NoSignals /\ s.touch = 0
Deskbound(ua, h) ==
    /\ DeviceTypeOf(ua) \notin {"mobile", "tablet"}
    /\ h.mobile # "?1" /\ h.formFactors \cap {"mobile", "tablet"} = {}
Honest(ua, h, s) ==
    PlatformsAgree(ua, h) /\ BrandsAgree(ua, h) /\ (Touchless(s) => Deskbound(ua, h))

\* What the contradictions are read from, until they are: the engine of the UA,
\* and where no rule sets it a type that no stage makes a mobile one.
HonestInv ==
    /\ stage # "infer" => res.engine = EngineOf(input.ua)
    /\ /\ stage # "infer" /\ "device" \notin DOMAIN setBy
       /\ Touchless(input.s) /\ Deskbound(input.ua, input.h)
       => ~IsMobile(res)
    /\ /\ stage = "done" /\ "device" \notin DOMAIN setBy
       /\ Honest(input.ua, input.h, input.s)
       => res.spoofed = {}

\* No hint makes a desktop-bound device mobile.
LEMMA HintsKeepDeskbound ==
    ASSUME NEW r, NEW ua, NEW h, IsResult(r),
           r.device = DeviceTypeOf(ua), r.formFactor = "", Deskbound(ua, h)
    PROVE  ~IsMobile(Hinted(r, h))
<1> DEFINE a == HintedOS(r, h)
           b == HintedBrowser(a, h)
           arch == Clean(h.arch)
           bits == Clean(h.bitness)
           hint == FormFactorNamed(h) \ {"eink"}
           d == [b EXCEPT !.model = IF Clean(h.model) # "" THEN Clean(h.model) ELSE @,
                          !.cpu.arch = IF arch # "" THEN NormalizeArch(arch, bits, @) ELSE @,
                          !.cpu.bitness = IF bits # "" THEN bits ELSE @,
                          !.device = IF h.mobile = "?1" THEN "mobile" ELSE @]
           ff == CHOOSE f \in hint : TRUE
<1>1. IsResult(a) /\ a.device = r.device
  BY HintedOSChanges DEF Changes, ResultFields
<1>2. Changes(a, b, {"name", "version", "major", "engineVersion"})
  BY <1>1, HintedBrowserChanges
<1>3. IsResult(b) /\ b.device = r.device
  BY <1>1, <1>2 DEF Changes, ResultFields
<1>4. Hinted(r, h) = IF hint = {} THEN d ELSE SetFormFactor(d, h, ff)
  BY DEF Hinted, HintedDevice
<1> HIDE DEF a, b
<1>5. IsResult(d) /\ d.device = r.device
  BY <1>3 DEF IsResult, ResultFields, Deskbound
<1>6. hint # {} => ff \in {"watch", "xr", "automotive", "desktop"}
  BY FormFactorNamedKnown DEF Deskbound
<1> HIDE DEF d, hint, ff
<1>7. hint # {} => SetFormFactor(d, h, ff).device \notin {"mobile", "tablet"}
  BY <1>5, <1>6 DEF SetFormFactor, TypeOfFormFactor, IsResult, ResultFields
<1>8. d.device \notin {"mobile", "tablet"}
  BY <1>5 DEF Deskbound
<1> QED BY <1>4, <1>7, <1>8 DEF IsMobile

\* The contradictions of a result whose engine and type agree with an honest input.
LEMMA NoContradiction ==
    ASSUME NEW r, NEW ua, NEW h, NEW s, Honest(ua, h, s), r.engine = EngineOf(ua),
           Touchless(s) => ~IsMobile(r)
    PROVE  Contradictions(r, h, s, PlatformOf(Inferred(ua).os)) = {}
<1> DEFINE plat == PlatformOf(Inferred(ua).os)
           hinted == PlatformOf(Clean(h.platform))
<1>1. ~(Clean(h.platform) \notin {"", "Unknown"} /\ PlatformsDiffer(hinted, plat))
  BY DEF Honest, PlatformsAgree
<1>2. ~(BrandList(h.brands) # <<>> /\ r.engine \notin {"", "Blink"})
  BY DEF Honest, BrandsAgree
<1>3. ~(s # NoSignals /\ s.touch = 0 /\ IsMobile(r))
  BY DEF Touchless
<1> HIDE DEF plat, hinted
<1>4. Contradictions(r, h, s, plat) = {}
  BY <1>1, <1>2, <1>3 DEF Contradictions, hinted
<1> QED BY <1>4 DEF plat

\* HonestInv holds of every run: no stage writes the engine, and only a screen of
\* several touch points, or a hint, makes a device mobile.
THEOREM HonestInvHolds == Spec => []HonestInv
<1>1. Init => HonestInv
  BY DEF Init, HonestInv
<1>2. StageInv /\ EarlyStages /\ HonestInv /\ [Next]_vars => HonestInv'
  <2> SUFFICES ASSUME StageInv, EarlyStages, HonestInv, [Next]_vars PROVE HonestInv'
    OBVIOUS
  <2>1. CASE Infer
    <3>1. res' = Inferred(input.ua) /\ stage' = "hints" /\ UNCHANGED input
      BY <2>1 DEF Infer
    <3>2. /\ Inferred(input.ua).engine = EngineOf(input.ua)
          /\ Inferred(input.ua).device = DeviceTypeOf(input.ua)
      BY DEF Inferred
    <3> QED BY <3>1, <3>2 DEF HonestInv, Deskbound, IsMobile
  <2>2. CASE ApplyClientHints
    <3>1. /\ stage = "hints" /\ stage' = "signals" /\ UNCHANGED input
          /\ res' = Hinted(Inferred(input.ua), input.h)
      BY <2>2 DEF ApplyClientHints, EarlyStages
    <3>2. res'.engine = res.engine
      BY <2>2, HintsStep DEF Changes, ResultFields
    <3>3. Inferred(input.ua).device = DeviceTypeOf(input.ua)
      BY DEF Inferred
    <3>4. Deskbound(input.ua, input.h) => ~IsMobile(res')
      BY <3>1, <3>3, InferredResult, HintsKeepDeskbound
    <3> QED BY <3>1, <3>2, <3>4 DEF HonestInv
  <2>3. CASE ApplySignals
    <3>1. stage = "signals" /\ stage' = "rules" /\ UNCHANGED <<input, setBy>>
      BY <2>3 DEF ApplySignals
    <3>2. /\ res'.engine = res.engine
          /\ res'.device = res.device \/ ManyTouchPoints
      BY <2>3, SignalsStep DEF Changes, ResultFields
    <3>3. Touchless(input.s) => ~ManyTouchPoints
      BY DEF Touchless, ManyTouchPoints
    <3> QED BY <3>1, <3>2, <3>3 DEF HonestInv, IsMobile
  <2>4. CASE ApplyRule
    <3>1. PICK W \in SUBSET Settable : RuleWrites(W)
      BY <2>4, RuleStep
    <3>2. stage = "rules" /\ stage' = "rules" /\ UNCHANGED input
      BY <2>4 DEF ApplyRule
    <3>3. res'.engine = res.engine
      BY <3>1 DEF RuleWrites, Changes, ResultFields, Settable
    <3>4. "device" \notin DOMAIN setBy' =>
             "device" \notin DOMAIN setBy /\ res'.device = res.device
      BY <3>1 DEF RuleWrites, Changes, ResultFields
    <3> QED BY <3>2, <3>3, <3>4 DEF HonestInv, IsMobile
  <2>5. CASE SkipRule
    BY <2>5 DEF SkipRule, HonestInv
  <2>6. CASE ResolveDeviceVendor
    <3>1. stage = "rules" /\ stage' = "derive" /\ UNCHANGED <<input, setBy>>
      BY <2>6 DEF ResolveDeviceVendor
    <3>2. res'.engine = res.engine /\ res'.device = res.device
      BY <2>6, VendorStep DEF Changes, ResultFields
    <3> QED BY <3>1, <3>2 DEF HonestInv, IsMobile
  <2>7. CASE Derive
    <3>1. stage = "derive" /\ stage' = "done" /\ UNCHANGED <<input, setBy>>
      BY <2>7 DEF Derive
    <3>2. res'.engine = res.engine /\ res'.device = res.device
      BY <2>7, DeriveStep DEF Changes, ResultFields
    <3>3. ASSUME "device" \notin DOMAIN setBy, Honest(input.ua, input.h, input.s)
          PROVE  res'.spoofed = {}
      <4> DEFINE d == [res EXCEPT !.category = Category(res, override),
                         !.platform = PlatformOf(res.os),
                         !.formFactor = IF res.formFactor = "" /\ ~res.isBot
                                        THEN FormFactorOfType(res.device) ELSE @,
                         !.bot = BotNamed(res),
                         !.osRaw = IF res.osRaw = <<>> THEN res.osVersion ELSE @,
                         !.touch = IsMobile(res) \/ (input.s # NoSignals /\ input.s.touch > 0),
                         !.signalsUsed = SignalsProvided(input.s)]
      <4>1. /\ IsResult(d) /\ d.engine = res.engine /\ d.device = res.device
        BY DEF StageInv, IsResult, ResultFields
      <4>2. res' = [d EXCEPT !.spoofed = Contradictions(d, input.h, input.s, uaPlatform),
                             !.hash = ClassOf(d)]
        BY <2>7 DEF Derive, Derived
      <4>3. uaPlatform = PlatformOf(Inferred(input.ua).os)
        BY <3>1 DEF EarlyStages
      <4> HIDE DEF d
      <4>4. Touchless(input.s) => ~IsMobile(d)
        BY <3>1, <3>3, <4>1 DEF HonestInv, Honest, IsMobile
      <4>5. d.engine = EngineOf(input.ua)
        BY <3>1, <4>1 DEF HonestInv
      <4>6. Contradictions(d, input.h, input.s, uaPlatform) = {}
        BY <3>3, <4>3, <4>4, <4>5, NoContradiction
      <4>7. res'.spoofed = Contradictions(d, input.h, input.s, uaPlatform)
        BY <4>1, <4>2 DEF IsResult, ResultFields
      <4> QED BY <4>6, <4>7
    <3> QED BY <3>1, <3>2, <3>3 DEF HonestInv, IsMobile
  <2>8. CASE Again
    BY <2>8 DEF Again, HonestInv
  <2>9. CASE UNCHANGED vars
    BY <2>9 DEF vars, HonestInv
  <2> QED BY <2>1, <2>2, <2>3, <2>4, <2>5, <2>6, <2>7, <2>8, <2>9 DEF Next
<1> QED BY <1>1, <1>2, StageInvHolds, EarlyStagesHolds, PTL DEF Spec

\* A client whose parts belong together is not reported as spoofed where no rule
\* changes the result: no stage in between makes up a contradiction, although the
\* hints and the signals rewrite the operating system and the device.
THEOREM HonestNotSpoofed ==
    Spec => []((\A g \in Genuine : Honest(g[1], g[2], g[3])) => GenuineNotSpoofed)
<1>1. HonestInv => ((\A g \in Genuine : Honest(g[1], g[2], g[3])) => GenuineNotSpoofed)
  BY EmptyDomain DEF HonestInv, GenuineNotSpoofed, Done
<1> QED BY <1>1, HonestInvHolds, PTL

=============================================================================
