------------------------------ MODULE Pipeline -------------------------------
(***************************************************************************)
(* computeResultFull (pkg/core/parser.go): one input goes through the      *)
(* stages of the detection pipeline, a step each: the uap-core match with  *)
(* inferInfo, applyClientHints, applySignals, the rules of the correction  *)
(* layer in file order, and the fields derived from the final state.       *)
(*                                                                         *)
(* A user agent is what the code asks of it: the families uap-core reports *)
(* for it, the tokens it contains, and what the tables of CPU and engine   *)
(* version tokens give.  A version is the sequence of its numbers, << >>   *)
(* the empty one; joining its parts drops the empty ones.                  *)
(* Names that the code compares ignoring case are written one way.         *)
(***************************************************************************)
EXTENDS Naturals, Sequences, Corrections

CONSTANTS
    UAs,      \* user agents: [client, tokens, cpu, engineVersion, agent, build, capture]
    Headers,  \* Client Hints and x-requested-with, normalised
    Blocks,   \* browser-signals blocks, NoSignals among them
    Files,    \* correction files: [rules, prefixes]
    Genuine   \* <<ua, headers, block>> that a real, honest client sends

NoSignals == [none |-> TRUE]
EmptyBlock == [touch |-> 0, platform |-> "", vendor |-> "", renderer |-> "",
               webdriver |-> FALSE, screen |-> 0, memory |-> 0]

\* The headers a call may consume.
ConsumedHeaders == {"brands", "mobile", "platform", "platformVersion", "model", "arch",
                    "bitness", "full", "formFactors", "xrw"}

\* A block holds every field of Signals, and a file every field of a rule.
ASSUME HeadersAssumption == \A h \in Headers : h = [k \in ConsumedHeaders |-> h[k]]
ASSUME BlocksAssumption ==
    \A s \in Blocks : s # NoSignals => DOMAIN s = DOMAIN EmptyBlock
ASSUME FilesAssumption ==
    \A file \in Files :
        /\ Len(file.rules) \in Nat /\ DOMAIN file.rules = 1..Len(file.rules)
        /\ \A i \in DOMAIN file.rules :
              LET set == file.rules[i].set
                  capture == file.rules[i].capture
              IN  /\ DOMAIN set \subseteq Settable
                  /\ capture \subseteq Settable \ Flags
                  /\ \A f \in Flags \cap DOMAIN set : set[f] \in BOOLEAN

VARIABLES
    input,     \* [ua, h, s, file]
    stage,     \* the next stage
    res,       \* the Result under construction
    uaPlatform,\* the platform the UA alone gives
    next,      \* the rule to try next
    override,  \* set.category of the last rule that has one
    setBy,     \* history: what rules set last, field by field
    prev       \* history: key, what differs and result of an earlier call, or NoCall

vars == <<input, stage, res, uaPlatform, next, override, setBy, prev>>

NoCall == [none |-> TRUE]
NoBot == [none |-> TRUE]
NoGPU == [none |-> TRUE]

WindowsNames == {"Windows"}
LinuxNames == {"Linux", "Ubuntu", "Fedora", "Debian"}
PlatformOf(os) ==
    CASE os \in WindowsNames -> "windows"
      [] os \in {"Mac OS X", "macOS"} -> "macos"
      [] os \in {"iOS", "iPadOS"} -> "ios"
      [] os = "Android" -> "android"
      [] os \in {"Chrome OS", "Chromium OS"} -> "chromeos"
      [] os = "Tizen" -> "tizen"
      [] os = "PlayStation 5" -> "playstation"
      [] os \in LinuxNames -> "linux"
      [] OTHER -> "other"

-----------------------------------------------------------------------------
(***************************************************************************)
(* inferInfo                                                               *)
(***************************************************************************)

\* The tables are represented by an entry or two of each kind, in their order.
AiBots == << [token |-> "gptbot", category |-> "training", vendor |-> "OpenAI"],
             [token |-> "chatgpt-user", category |-> "user-fetch", vendor |-> "OpenAI"] >>
ClassicBots == << [token |-> "googlebot", category |-> "search-crawler", vendor |-> "Google"] >>

Identity(ua, table) == SelectSeq(table, LAMBDA e : e.token \in ua.tokens)

\* A bot word ends in a non-letter.  "cubot" is the phone brand that is blanked
\* before the words are looked for.
BotWords == {"bot", "crawler", "spider", "google-extended"}
BotFamilies == {"Googlebot", "crawler", "bot"}
JunkNames == {"Other", "crawler", "spider", "bot", "com/bot"}

IsBot(ua) == ua.client.family \in BotFamilies \/ Has(ua, BotWords)

EngineOf(ua) ==
    LET ios == Has(ua, {"iphone", "ipad", "ipod", "crios", "fxios", "edgios"})
        blink == {"chrome/", "chromium/", "edg/", "opr/", "samsungbrowser/", "yabrowser/"}
    IN  IF Has(ua, {"edge/"}) /\ ~Has(ua, {"edg/"}) THEN "EdgeHTML"
        ELSE IF Has(ua, {"trident"}) THEN "Trident"
        ELSE IF Has(ua, {"webkit"}) THEN IF ~ios /\ Has(ua, blink) THEN "Blink" ELSE "WebKit"
        ELSE IF Has(ua, {"gecko"}) THEN "Gecko"
        ELSE IF Has(ua, {"presto"}) THEN "Presto"
        ELSE ""

TvTokens == {"smart-tv", "smarttv", "appletv", "roku", "crkey", "firetv",
             "googletv", "hbbtv", "web0s"}
DeviceTypeOf(ua) ==
    IF Has(ua, {"watch"}) THEN "wearable"
    ELSE IF Has(ua, TvTokens) \/ (Has(ua, {"tizen", "webos"}) /\ Has(ua, {"tv"})) THEN "tv"
    ELSE IF Has(ua, {"playstation", "xbox", "nintendo"}) THEN "console"
    ELSE IF Has(ua, {"iphone", "ipod"}) THEN "mobile"
    ELSE IF Has(ua, {"ipad"}) THEN "tablet"
    ELSE IF Has(ua, {"mobi"}) THEN "mobile"
    ELSE IF Has(ua, {"android"}) THEN "tablet"
    ELSE "desktop"

BrowserTypeOf(ua, bot) ==
    IF bot THEN "bot"
    ELSE IF Has(ua, {"email", "thunderbird"}) \/ ua.client.family = "Airmail" THEN "email"
    ELSE IF Has(ua, {"library", "curl", "wget", "http-client", "python-requests",
                     "python-urllib", "postmanruntime", "okhttp", "axios/", "libwww"})
    THEN "library"
    ELSE "browser"

\* What uap-core reports: its major is a part of its own, which the code keeps
\* beside the joined version, and which has a dot in it for one family (FME).
UapVersion(ua) == ua.client.major \o ua.client.rest

\* An AI agent is a bot whatever the generic patterns say, and gets its own
\* token for a name where uap-core found none.
Inferred(ua) ==
    LET c == ua.client
        ai == Identity(ua, AiBots)
        classic == Identity(ua, ClassicBots)
        isAI == ai # <<>>
        isBot == isAI \/ IsBot(ua)
        recover == isAI /\ c.family \in JunkNames /\ ua.agent.name # ""
        name == IF recover THEN ua.agent.name ELSE c.family
        own == recover /\ ua.agent.version # <<>>
        id == IF isAI THEN ai ELSE classic
    IN  [name |-> name,
         version |-> IF own THEN ua.agent.version ELSE UapVersion(ua),
         major |-> IF own THEN MajorOf(ua.agent.version) ELSE c.major,
         type |-> BrowserTypeOf(ua, isBot),
         os |-> c.os, osVersion |-> c.osVersion, osRaw |-> <<>>,
         model |-> IF c.model = "K" /\ Has(ua, {"android 10; k"}) THEN "" ELSE c.model,
         vendor |-> c.vendor, device |-> DeviceTypeOf(ua), formFactor |-> "",
         cpu |-> ua.cpu, engine |-> EngineOf(ua), engineVersion |-> ua.engineVersion,
         isBot |-> isBot, isAI |-> isAI,
         bot |-> IF ~isBot THEN NoBot
                 ELSE IF id = <<>> THEN [name |-> name, category |-> "other", vendor |-> ""]
                 ELSE [name |-> name, category |-> Head(id).category, vendor |-> Head(id).vendor],
         gpu |-> NoGPU, category |-> "", platform |-> "",
         touch |-> FALSE, spoofed |-> {}, signalsUsed |-> FALSE, hash |-> <<>>]

-----------------------------------------------------------------------------
(***************************************************************************)
(* applyClientHints                                                        *)
(***************************************************************************)

\* cleanHeader: Chromium sends a pair of quotes, here "''", for a value it
\* does not have.
Clean(value) == IF value = "''" THEN "" ELSE value

\* mapWindowsVersion.  Windows 11 starts at platform version 13.
MapWindowsVersion(v) ==
    CASE v[1] >= 13 -> <<11>>
      [] v[1] \in 1..12 -> <<10>>
      [] v[1] = 0 /\ Len(v) > 1 /\ v[2] = 1 -> <<7>>
      [] v[1] = 0 /\ Len(v) > 1 /\ v[2] = 2 -> <<8>>
      [] v[1] = 0 /\ Len(v) > 1 /\ v[2] = 3 -> <<8, 1>>
      [] OTHER -> v

HintedOS(r, h) ==
    LET platform == Clean(h.platform)
        versioned == h.platformVersion # <<>>
        raw == [r EXCEPT !.osRaw = h.platformVersion]
        version(v) == IF versioned THEN v ELSE r.osVersion
    IN  CASE platform \in {"", "Unknown", "Linux"} -> raw
          [] platform = "Windows" ->
                [raw EXCEPT !.os = "Windows",
                            !.osVersion = version(MapWindowsVersion(h.platformVersion))]
          [] platform = "macOS" ->
                [raw EXCEPT !.os = "Mac OS X", !.osVersion = version(h.platformVersion)]
          [] OTHER ->
                [raw EXCEPT !.os = IF platform = "Chromium OS" THEN "Chrome OS" ELSE platform,
                            !.osVersion = version(h.platformVersion)]

\* parseBrandList drops the GREASE placeholders.
BrandList(list) == SelectSeq(list, LAMBDA b : b.name # "Not A Brand")
Specific(brands) == SelectSeq(brands, LAMBDA b : b.name # "Chromium")
Umbrella(brands) == SelectSeq(brands, LAMBDA b : b.name = "Chromium")

CanonicalFamily(family) ==
    CASE family \in {"Chrome Mobile", "Chrome Mobile WebView", "Chrome Mobile iOS"} -> "Chrome"
      [] family = "Edge Mobile" -> "Edge"
      [] family = "Opera Mobile" -> "Opera"
      [] OTHER -> family

Aliases(family) ==
    CASE family = "Chrome" -> {"Google Chrome", "Chromium"}
      [] family = "Chromium" -> {"Chromium", "Google Chrome"}
      [] family = "Edge" -> {"Microsoft Edge", "Edge"}
      [] family = "Opera" -> {"Opera", "Opera GX", "Opera Air"}
      [] OTHER -> {family}

GenericBrands == {"Google Chrome", "Chromium", "Microsoft Edge", "Edge", "Opera",
                  "Samsung Internet", "Brave", "Vivaldi"}

\* matchBrand: << >> when no brand is the UA's family.
MatchBrand(brands, family) ==
    LET fam == CanonicalFamily(family)
        named == SelectSeq(brands, LAMBDA b : b.name # "Chromium" /\ b.name \in Aliases(fam))
        umbrella == Umbrella(brands)
    IN  IF named # <<>> THEN <<Head(named)>>
        ELSE IF umbrella # <<>> /\ fam \in {"Chrome", "Chromium"} /\ Specific(brands) = <<>>
        THEN <<umbrella[Len(umbrella)]>>
        ELSE <<>>

BrandVersionNoMajor(r, v, full) ==  \* mutant: the major keeps its old value
    IF v = <<>> THEN r
    ELSE IF full \/ MajorOf(r.version) # v THEN [r EXCEPT !.version = v] ELSE r
\* applyBrandVersion: the short list only corrects a major that differs.
BrandVersion(r, v, full) ==
    LET w == IF full \/ MajorOf(r.version) # v THEN v ELSE r.version
    IN  IF v = <<>> THEN r ELSE [r EXCEPT !.version = w, !.major = MajorOf(w)]

VersionedUmbrella(brands) ==
    SelectSeq(brands, LAMBDA b : b.name = "Chromium" /\ b.version # <<>>)

HintedBrowser(r, h) ==
    LET full == BrandList(h.full) # <<>>
        brands == IF full THEN BrandList(h.full) ELSE BrandList(h.brands)
        match == MatchBrand(brands, r.name)
        winner == IF match # <<>> THEN match ELSE Specific(brands)
        rename == IF match # <<>> THEN Head(match).name \notin GenericBrands ELSE TRUE
        named == IF winner = <<>> THEN r
                 ELSE [BrandVersion(r, Head(winner).version, full) EXCEPT
                         !.name = IF rename THEN Head(winner).name ELSE @]
        chromium == VersionedUmbrella(brands)
    IN  IF r.engine = "Blink" /\ full /\ chromium # <<>>
        THEN [named EXCEPT !.engineVersion = Head(chromium).version]
        ELSE named

\* normalizeArch: an ambiguous pair keeps what the UA gave.
NormalizeArch(arch, bitness, fallback) ==
    CASE arch = "x86" /\ bitness = "64" -> "amd64"
      [] arch = "x86" /\ bitness = "32" -> "x86"
      [] arch = "arm" /\ bitness = "64" -> "arm64"
      [] arch = "arm" /\ bitness = "32" -> "arm"
      [] arch \in {"arm64", "aarch64"} -> "arm64"
      [] arch \in {"x64", "amd64", "x86_64"} -> "amd64"
      [] OTHER -> fallback

\* The first of these that the header names decides, in the order of the switch;
\* "eink" describes the display and keeps the type.
FormFactors == <<"watch", "xr", "automotive", "tablet", "eink", "mobile", "desktop">>
FormFactorNamed(h) ==
    {FormFactors[i] : i \in {i \in 1..7 : /\ FormFactors[i] \in h.formFactors
                                         /\ \A j \in 1..(i - 1) : FormFactors[j] \notin h.formFactors}}
TypeOfFormFactorSame(ff) == ff  \* mutant: a watch is not a device type
TypeOfFormFactor(ff) == IF ff = "watch" THEN "wearable" ELSE ff

SetFormFactorUnlessMobile(r, h, ff) ==  \* mutant: the mobile hint is not overruled
    [r EXCEPT !.device = IF h.mobile = "?1" THEN @ ELSE TypeOfFormFactor(ff), !.formFactor = ff]
SetFormFactor(r, h, ff) == [r EXCEPT !.device = TypeOfFormFactor(ff), !.formFactor = ff]

HintedDevice(r, h) ==
    LET arch == Clean(h.arch)
        bits == Clean(h.bitness)
        hint == FormFactorNamed(h) \ {"eink"}
        d == [r EXCEPT !.model = IF Clean(h.model) # "" THEN Clean(h.model) ELSE @,
                       !.cpu.arch = IF arch # "" THEN NormalizeArch(arch, bits, @) ELSE @,
                       !.cpu.bitness = IF bits # "" THEN bits ELSE @,
                       !.device = IF h.mobile = "?1" THEN "mobile" ELSE @]
    IN  IF hint = {} THEN d ELSE SetFormFactor(d, h, CHOOSE ff \in hint : TRUE)

Hinted(r, h) == HintedDevice(HintedBrowser(HintedOS(r, h), h), h)

-----------------------------------------------------------------------------
(***************************************************************************)
(* applySignals                                                            *)
(***************************************************************************)
\* A frozen Mac UA claims Intel; the hinted architecture, when there is one,
\* has answered already.
ProvesAppleSilicon(r, h, s) ==
    r.os = "Mac OS X" /\ h.arch = "" /\ s.renderer = "Apple M"

Signalled(r, ua, h, s) ==
    LET unmask == s.touch > 1 /\ Has(ua, {"macintosh"})
        assist == s.touch > 1 /\ r.device = "desktop" /\ PlatformOf(r.os) = "linux"
        d == IF unmask
             THEN [r EXCEPT !.os = "iPadOS", !.osVersion = <<>>,
                            !.vendor = "Apple", !.model = "iPad", !.device = "tablet"]
             ELSE IF assist THEN [r EXCEPT !.device = "tablet"] ELSE r
        g == [d EXCEPT !.gpu = IF s.renderer # "" \/ s.vendor # ""
                               THEN [vendor |-> s.vendor, renderer |-> s.renderer] ELSE @]
    IN  IF ProvesAppleSilicon(g, h, s)
        THEN [g EXCEPT !.cpu = [arch |-> "arm64", bitness |-> "64"]]
        ELSE g

-----------------------------------------------------------------------------
(***************************************************************************)
(* The fields derived from the final state, enrichResult                   *)
(***************************************************************************)
FormFactorOfType(device) == IF device = "wearable" THEN "watch" ELSE device

IsMobile(r) == r.device \in {"mobile", "tablet"}

\* Two platforms contradict each other only when both are known.
PlatformsDifferAnyway(hinted, uaPlat) == hinted # uaPlat  \* mutant: unknown ones, too
PlatformsDiffer(hinted, uaPlat) ==
    hinted # "other" /\ uaPlat # "other" /\ hinted # uaPlat

\* The contradictions of integrity.reasons.
Contradictions(r, h, s, uaPlat) ==
    LET hinted == PlatformOf(Clean(h.platform))
    IN  {reason \in {"platform", "brands", "touchless"} :
            \/ /\ reason = "platform"
               /\ Clean(h.platform) \notin {"", "Unknown"}
               /\ PlatformsDiffer(hinted, uaPlat)
            \/ /\ reason = "brands"
               /\ BrandList(h.brands) # <<>>
               /\ r.engine \notin {"", "Blink"}
            \/ /\ reason = "touchless"
               /\ s # NoSignals /\ s.touch = 0
               /\ IsMobile(r) /\ r.platform \in {"ios", "android"}}

SignalsProvided(s) == s \notin {NoSignals, EmptyBlock}

ClassOf(r) == <<r.name, r.major, r.os, r.osVersion, r.device, r.vendor, r.model,
                r.engine, r.cpu.arch, r.category>>

BotNamedLater(r) == r.bot  \* mutant: the bot keeps the name it was found with
BotNamed(r) == IF r.bot = NoBot THEN NoBot ELSE [r.bot EXCEPT !.name = r.name]

Derived(r, h, s, uaPlat, chosen) ==
    LET d == [r EXCEPT !.category = Category(r, chosen),
                       !.platform = PlatformOf(r.os),
                       !.formFactor = IF r.formFactor = "" /\ ~r.isBot
                                      THEN FormFactorOfType(r.device) ELSE @,
                       !.bot = BotNamed(r),
                       !.osRaw = IF r.osRaw = <<>> THEN r.osVersion ELSE @,
                       !.touch = IsMobile(r) \/ (s # NoSignals /\ s.touch > 0),
                       !.signalsUsed = SignalsProvided(s)]
    IN  [d EXCEPT !.spoofed = Contradictions(d, h, s, uaPlat), !.hash = ClassOf(d)]

CacheKeyHeadersWithoutApp == ConsumedHeaders \ {"xrw"}  \* mutant: x-requested-with is forgotten
CacheKeyHeaders == {"brands", "mobile", "platform", "platformVersion", "model", "arch",
                    "bitness", "full", "formFactors", "xrw"}

\* buildCacheKey: the UA, the listed headers and what the pipeline consumes of the
\* signals, that is all but device memory and hardware concurrency.
Key(i) == << i.ua, [k \in CacheKeyHeaders |-> i.h[k]],
             IF i.s = NoSignals THEN i.s ELSE [i.s EXCEPT !.memory = 0] >>

-----------------------------------------------------------------------------
Blank == Inferred([client |-> [family |-> "", major |-> <<>>, rest |-> <<>>, os |-> "",
                               osVersion |-> <<>>, model |-> "", vendor |-> ""],
                   tokens |-> {}, cpu |-> [arch |-> "", bitness |-> ""],
                   engineVersion |-> <<>>])

Inputs == [ua : UAs, h : Headers, s : Blocks, file : Files]

Init ==
    /\ input \in Inputs
    /\ stage = "infer"
    /\ res = Blank
    /\ uaPlatform = ""
    /\ next = 1
    /\ override = ""
    /\ setBy = <<>>
    /\ prev = NoCall

Infer ==
    /\ stage = "infer"
    /\ res' = Inferred(input.ua)
    /\ uaPlatform' = PlatformOf(res'.os)
    /\ stage' = "hints"
    /\ UNCHANGED <<input, next, override, setBy, prev>>

ApplyClientHints ==
    /\ stage = "hints"
    /\ res' = Hinted(res, input.h)
    /\ stage' = "signals"
    /\ UNCHANGED <<input, uaPlatform, next, override, setBy, prev>>

ApplySignals ==
    /\ stage = "signals"
    /\ res' = IF input.s = NoSignals THEN res
              ELSE Signalled(res, input.ua, input.h, input.s)
    /\ stage' = "rules"
    /\ UNCHANGED <<input, uaPlatform, next, override, setBy, prev>>

Rules == input.file.rules

ApplyRule ==
    /\ stage = "rules"
    /\ next <= Len(Rules)
    /\ LET rule == Rules[next]
       IN  /\ Matches(rule, res, input.ua, input.h)
           /\ res' = Corrected(rule, res, input.ua)
           /\ override' = IF "category" \in Writes(rule)
                          THEN Value(rule, input.ua, "category") ELSE override
           /\ setBy' = [f \in DOMAIN setBy \union Writes(rule) |->
                          IF f \in Writes(rule) THEN Value(rule, input.ua, f) ELSE setBy[f]]
    /\ next' = next + 1
    /\ UNCHANGED <<input, stage, uaPlatform, prev>>

SkipRule ==
    /\ stage = "rules"
    /\ next <= Len(Rules)
    /\ ~Matches(Rules[next], res, input.ua, input.h)
    /\ next' = next + 1
    /\ UNCHANGED <<input, stage, res, uaPlatform, override, setBy, prev>>

ResolveDeviceVendor ==
    /\ stage = "rules"
    /\ next > Len(Rules)
    /\ res' = ResolveVendor(res, input.ua, input.file.prefixes)
    /\ stage' = "derive"
    /\ UNCHANGED <<input, uaPlatform, next, override, setBy, prev>>

Derive ==
    /\ stage = "derive"
    /\ res' = Derived(res, input.h, input.s, uaPlatform, override)
    /\ stage' = "done"
    /\ UNCHANGED <<input, uaPlatform, next, override, setBy, prev>>

\* The next call differs in its signals block or in its headers.
Again ==
    /\ stage = "done"
    /\ prev = NoCall
    /\ prev' = [key |-> Key(input), h |-> input.h, s |-> input.s, res |-> res]
    /\ \/ \E s \in Blocks \ {input.s} : input' = [input EXCEPT !.s = s]
       \/ \E h \in Headers \ {input.h} : input' = [input EXCEPT !.h = h]
    /\ stage' = "infer"
    /\ res' = Blank
    /\ uaPlatform' = ""
    /\ next' = 1
    /\ override' = ""
    /\ setBy' = <<>>

Next ==
    \/ Infer \/ ApplyClientHints \/ ApplySignals
    \/ ApplyRule \/ SkipRule \/ ResolveDeviceVendor \/ Derive
    \/ Again

Spec == Init /\ [][Next]_vars

-----------------------------------------------------------------------------
(***************************************************************************)
(* Properties                                                              *)
(***************************************************************************)
Done == stage = "done"
UntouchedBy(fields) == DOMAIN setBy \cap fields = {}

\* The vocabularies of types.go and the README hold after every stage: device
\* types, form factors (which have "watch" where the types have "wearable"),
\* categories and integrity reasons.  Rules are not held to them: a type or a
\* category outside of them, or a form factor made of such a type, is one that
\* a rule has set.
DeviceTypes == {"desktop", "mobile", "tablet", "tv", "console", "wearable", "xr", "automotive"}
Given(f) == {setBy[g] : g \in DOMAIN setBy \cap {f}}
TypeOK ==
    /\ stage \in {"infer", "hints", "signals", "rules", "derive", "done"}
    /\ next \in 1..(Len(Rules) + 1)
    /\ res.device \in DeviceTypes \union Given("device")
    /\ res.formFactor \in {"", "watch"} \union (DeviceTypes \ {"wearable"}) \union Given("device")
    /\ res.category \in {"", "bot", override, "desktop", "mobile"} \union DeviceTypes
    /\ res.spoofed \subseteq {"platform", "brands", "touchless"}
    /\ res.isBot \in BOOLEAN /\ res.isAI \in BOOLEAN

\* browser.major is the major of browser.version after every stage: the agent
\* identity, either brand list and a rule that sets the version refresh it.  Only
\* the pair that uap-core gave may differ, and then as a whole.
MajorMatchesVersion ==
    \/ res.major = MajorOf(res.version)
    \/ stage # "infer" /\ res.major = input.ua.client.major /\ res.version = UapVersion(input.ua)

\* Where no rule sets the flags or renames the browser's type: an AI agent is
\* a bot, exactly the bots carry a bot object, named as the browser is in the
\* end, and have type and (unless overridden) category "bot".
BotAgreement ==
    Done /\ UntouchedBy({"isBot", "isAI"}) =>
        /\ res.isAI => res.isBot
        /\ res.isBot <=> res.bot # NoBot
        /\ res.isBot => res.bot.name = res.name
        /\ UntouchedBy({"type"}) => (res.isBot <=> res.type = "bot")
        /\ UntouchedBy({"category"}) => (res.isBot <=> res.category = "bot")

\* What the rules set last stands in the result (corrections are terminal),
\* but for a generic vendor or model, which is a gap to fill.
Gap(f) == \/ f = "vendor" /\ setBy[f] \in GenericVendors
          \/ f = "model" /\ setBy[f] \in GenericModels
          \/ f = "category" /\ setBy[f] = ""
CorrectionsTerminal ==
    Done => \A f \in DOMAIN setBy : ~Gap(f) => res[f] = setBy[f]

\* The parts of a finished device say the same, wherever each comes from.  Type
\* and form factor: the hints set both, the signals and the vendor look-up only
\* the type, and the last stage only a form factor that is missing; the exception
\* is a screen of several touch points, which makes a hinted type a tablet
\* (parser.go:461-469) and leaves the hinted form factor.  Vendor and model: when
\* uap-core did not know the vendor, it is the one the prefixes give for the
\* model in the end, which may be the UA's, a hint's or the Build token's; but
\* for an unmasked iPad, whose vendor the prefixes do not overrule.
ManyTouchPoints == input.s # NoSignals /\ input.s.touch > 1
DeviceAgrees ==
    Done =>
        /\ UntouchedBy({"device", "formFactor"}) /\ ~res.isBot
            => \/ res.formFactor = FormFactorOfType(res.device)
               \/ ManyTouchPoints /\ input.h.formFactors # {} /\ res.device = "tablet"
        /\ UntouchedBy({"vendor", "model"}) /\ input.ua.client.vendor \in GenericVendors
            => LET known == PrefixesOf(res.model, input.file.prefixes)
               IN  res.model # "" /\ known # <<>>
                   => \/ res.vendor = Head(known).vendor
                      \/ ManyTouchPoints /\ res.vendor = "Apple" /\ res.model = "iPad"

\* A genuine client is not reported as spoofed.
GenuineNotSpoofed ==
    Done /\ setBy = <<>> /\ <<input.ua, input.h, input.s>> \in Genuine => res.spoofed = {}

\* Two inputs with one cache key give one result, up to detection.signals_used.
SameKeySameResult ==
    Done /\ prev # NoCall /\ prev.key = Key(input) =>
        [prev.res EXCEPT !.signalsUsed = res.signalsUsed] = res

\* What parser.go:413-414 says: "deviceMemory/hardwareConcurrency are NOT
\* consumed by the pipeline", which is why the cache key leaves them out: two
\* inputs with one key have one result.
KeyDeterminesResult ==
    Done /\ prev # NoCall /\ prev.key = Key(input) => prev.res = res

=============================================================================
