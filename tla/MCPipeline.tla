----------------------------- MODULE MCPipeline ------------------------------
(***************************************************************************)
(* Small instances of Pipeline: user agents, Client Hints and signals of   *)
(* the clients the code has a case for, and correction files in the idioms *)
(* of corrections.yaml.                                                    *)
(***************************************************************************)
EXTENDS Pipeline, TLC

NoAgent == [name |-> "", version |-> <<>>]
UA(family, version, os, osVersion, model, vendor, tokens, cpu, engineVersion) ==
    [client |-> [family |-> family, major |-> MajorOf(version),
                 rest |-> IF version = <<>> THEN <<>> ELSE Tail(version), os |-> os,
                 osVersion |-> osVersion, model |-> model, vendor |-> vendor],
     tokens |-> tokens, cpu |-> cpu, engineVersion |-> engineVersion,
     agent |-> NoAgent, build |-> "", capture |-> ""]

Amd64 == [arch |-> "amd64", bitness |-> "64"]
NoCpu == [arch |-> "", bitness |-> ""]

WindowsChrome == UA("Chrome", <<150, 0, 0>>, "Windows", <<10>>, "", "",
                    {"webkit", "chrome/"}, Amd64, <<150, 0, 0, 0>>)
MacChrome == UA("Chrome", <<150, 0, 0>>, "Mac OS X", <<10, 15, 7>>, "Mac", "Apple",
                {"webkit", "chrome/", "macintosh"}, NoCpu, <<150, 0, 0, 0>>)
MacSafari == UA("Safari", <<17, 4>>, "Mac OS X", <<10, 15, 7>>, "Mac", "Apple",
                {"webkit", "macintosh"}, NoCpu, <<605, 1>>)
\* uap-core names Apple where it finds "Mac OS", which this one leaves out.
PlainMac == UA("Safari", <<17, 4>>, "Other", <<>>, "", "", {"webkit", "macintosh"}, NoCpu, <<>>)
LinuxChrome == UA("Chrome", <<150, 0, 0>>, "Linux", <<>>, "", "",
                  {"webkit", "chrome/"}, Amd64, <<150, 0, 0, 0>>)
UbuntuFirefox == UA("Firefox", <<128, 0>>, "Ubuntu", <<>>, "", "",
                    {"gecko"}, Amd64, <<128, 0>>)
OldEdge == UA("Edge", <<18, 17763>>, "Windows", <<10>>, "", "",
              {"webkit", "chrome/", "edge/"}, Amd64, <<18, 17763>>)
AndroidChrome == UA("Chrome Mobile", <<150, 0, 0>>, "Android", <<10>>, "K", "Generic_Android",
                    {"webkit", "chrome/", "android", "mobi", "android 10; k"},
                    NoCpu, <<150, 0, 0, 0>>)
CubotChrome == UA("Chrome Mobile", <<120, 0, 0>>, "Android", <<13>>, "CUBOT X70", "Cubot",
                  {"webkit", "chrome/", "android", "mobi", "cubot"}, NoCpu, <<120, 0, 0, 0>>)
RedmiInstagram ==
    [UA("Chrome Mobile WebView", <<120, 0>>, "Android", <<12>>, "Smartphone", "Generic",
        {"webkit", "chrome/", "android", "mobi", "instagram"}, NoCpu, <<120, 0, 1, 2>>)
     EXCEPT !.build = "Redmi Note 9", !.capture = "Instagram"]
IPhoneSafari == UA("Mobile Safari", <<17, 4>>, "iOS", <<17, 4>>, "iPhone", "Apple",
                   {"webkit", "iphone", "mobi"}, NoCpu, <<605, 1>>)
TizenTv == UA("Samsung Internet", <<4, 0>>, "Tizen", <<6, 5>>, "", "Samsung",
              {"webkit", "tizen", "tv"}, NoCpu, <<537, 36>>)
Console == UA("Opera", <<12, 0>>, "Other", <<>>, "", "Nintendo", {"presto", "nintendo"}, NoCpu, <<>>)
FuchsiaChrome == UA("Chrome", <<150, 0, 0>>, "Other", <<>>, "", "",
                    {"webkit", "chrome/"}, NoCpu, <<150, 0, 0, 0>>)
Googlebot == UA("Googlebot", <<2, 1>>, "Other", <<>>, "Spider", "Spider",
                {"bot", "googlebot"}, NoCpu, <<>>)
GPTBot == UA("GPTBot", <<1, 1>>, "Other", <<>>, "Spider", "Spider", {"bot", "gptbot"}, NoCpu, <<>>)
ChatGPTUser == [UA("Other", <<>>, "Other", <<>>, "", "", {"chatgpt-user", "webkit"}, NoCpu, <<>>)
                EXCEPT !.agent = [name |-> "ChatGPT-User", version |-> <<1, 0>>]]
\* The one family whose major uap-core takes from more than one number.
Fme == [UA("FME", <<2015>>, "Windows", <<10>>, "", "", {"fme"}, NoCpu, <<>>)
        EXCEPT !.client.major = <<2015, 1>>, !.client.rest = <<0, 15515>>]
Curl == UA("curl", <<8, 1>>, "Other", <<>>, "", "", {"curl"}, NoCpu, <<>>)

MCUAs == {WindowsChrome, MacChrome, MacSafari, PlainMac, LinuxChrome, UbuntuFirefox, OldEdge,
          AndroidChrome, CubotChrome, RedmiInstagram, IPhoneSafari, TizenTv, Console,
          FuchsiaChrome, Googlebot, GPTBot, ChatGPTUser, Fme, Curl}

-----------------------------------------------------------------------------
NoHeaders == [platform |-> "", platformVersion |-> <<>>, model |-> "", arch |-> "",
              bitness |-> "", mobile |-> "", full |-> <<>>, brands |-> <<>>,
              formFactors |-> {}, xrw |-> ""]
Brand(name, version) == [name |-> name, version |-> version]
ChromeBrands(v) == <<Brand("Not A Brand", <<8>>), Brand("Chromium", v), Brand("Google Chrome", v)>>
Low(platform, mobile) == [NoHeaders EXCEPT !.platform = platform, !.mobile = mobile,
                                           !.brands = ChromeBrands(<<150>>)]
High(h, v) == [h EXCEPT !.platformVersion = v, !.full = ChromeBrands(<<150, 0, 7871, 182>>),
                        !.arch = "x86", !.bitness = "64"]

WindowsHints == {High(Low("Windows", "?0"), v) :
                    v \in {<<15, 0, 0>>, <<13, 0, 0>>, <<10, 0, 0>>, <<0, 3, 0>>, <<0, 5>>}}
MacHints == [High(Low("macOS", "?0"), <<14, 5, 0>>) EXCEPT !.arch = "arm"]
\* Chrome for Intel, translated, on an Apple Silicon Mac
RosettaHints == High(Low("macOS", "?0"), <<14, 5, 0>>)
LinuxHints == [Low("Linux", "?0") EXCEPT !.formFactors = {"desktop"}]
AndroidHints == [High(Low("Android", "?1"), <<14>>) EXCEPT
                    !.model = "Pixel 7", !.arch = "''", !.bitness = "''",
                    !.formFactors = {"mobile"}]
WatchHints == [Low("Android", "?1") EXCEPT !.formFactors = {"watch", "mobile"}]
ReaderHints == [Low("Android", "?1") EXCEPT !.formFactors = {"eink"}]
BraveHints == [Low("Windows", "?0") EXCEPT
                  !.brands = <<Brand("Chromium", <<150>>), Brand("Brave", <<150>>)>>]
OperaGXHints == [Low("Windows", "?0") EXCEPT
                  !.full = <<Brand("Opera GX", <<116, 0>>), Brand("Chromium", <<150, 0, 1>>)>>]
HeadlessHints == [Low("Linux", "?0") EXCEPT !.brands = <<Brand("Chromium", <<149>>)>>]
UnknownHints == Low("Unknown", "?0")
AppHeader == [NoHeaders EXCEPT !.xrw = "com.instagram.android"]

MCHeaders == WindowsHints \union
    {NoHeaders, Low("Windows", "?0"), MacHints, RosettaHints, LinuxHints, AndroidHints, WatchHints,
     ReaderHints, BraveHints, OperaGXHints, HeadlessHints, UnknownHints, AppHeader}

Touch(n) == [EmptyBlock EXCEPT !.touch = n]
AppleGPU == [EmptyBlock EXCEPT !.renderer = "Apple M", !.vendor = "Apple"]
Memory == [EmptyBlock EXCEPT !.memory = 8]
MCBlocks == {NoSignals, EmptyBlock, Memory, Touch(5), AppleGPU}

-----------------------------------------------------------------------------
Fields == [f \in {} |-> {}]
Rule(any, cond, set) == [all |-> {}, any |-> any, cond |-> cond, xrw |-> {}, re |-> "",
                         set |-> set, capture |-> {}]
InApp == [Rule({"instagram", "fban"}, "type" :> {"browser"}, "type" :> "inapp")
            EXCEPT !.re = "instagram", !.capture = {"name"}]
InAppByHeader == [Rule({"android"}, Fields, "name" :> "Instagram")
                    EXCEPT !.xrw = {"com.instagram.android"}]
ChainedRule == Rule({"android"}, ("type" :> {"inapp"}) @@ ("device" :> {"mobile"}),
                    ("version" :> <<300, 1>>) @@ ("category" :> "inapp"))
ConsoleRule == Rule({"nintendo"}, "vendor" :> {"Nintendo"},
                    ("device" :> "console") @@ ("model" :> "Switch"))
CarRule == [Rule({"webkit"}, "os" :> {"Linux", "Android"}, "device" :> "automotive")
              EXCEPT !.all = {"chrome/"}]
ClearVendor == Rule({"android"}, "vendor" :> {"Generic", "Generic_Android"}, "vendor" :> "")
FlagBot == Rule({"curl"}, "isBot" :> {FALSE}, "isBot" :> TRUE)

Prefixes == << [models |-> {"Redmi Note 9"}, vendor |-> "Xiaomi"],
               [models |-> {"Pixel 7"}, vendor |-> "Google"] >>
\* The last entry of a table may take every model that is left.
CatchAll == [models |-> {"", "iPad", "K", "Tablet"}, vendor |-> "Unbranded"]
File(rules) == [rules |-> rules, prefixes |-> Prefixes]
MCFiles == {[rules |-> <<>>, prefixes |-> <<>>],
            File(<<InApp, InAppByHeader, ChainedRule, ConsoleRule>>),
            [rules |-> <<CarRule, ClearVendor, FlagBot>>, prefixes |-> Append(Prefixes, CatchAll)]}
NoRules == {File(<<>>)}

\* Clients whose parts belong together.
MCGenuine ==
    ({WindowsChrome} \X ({NoHeaders, Low("Windows", "?0")} \union WindowsHints)
        \X {NoSignals, Touch(5)})
    \union ({MacChrome} \X {NoHeaders, MacHints, RosettaHints} \X {NoSignals, AppleGPU})
    \union ({MacSafari} \X {NoHeaders} \X {NoSignals, AppleGPU, Touch(5)})
    \union ({LinuxChrome} \X {LinuxHints, HeadlessHints} \X {NoSignals, Touch(5)})
    \union ({UbuntuFirefox, IPhoneSafari, TizenTv, Console, Googlebot, GPTBot, ChatGPTUser, Curl}
        \X {NoHeaders} \X {NoSignals})
    \union ({AndroidChrome} \X {NoHeaders, AndroidHints} \X {NoSignals, Touch(5)})
    \union ({CubotChrome} \X {NoHeaders} \X {NoSignals, Touch(5)})
    \union ({FuchsiaChrome} \X {LinuxHints, UnknownHints} \X {NoSignals})

=============================================================================
