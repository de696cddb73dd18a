------------------------------- MODULE MCRules -------------------------------
(***************************************************************************)
(* Files of up to four rules from a pool that has each way to be wrong,    *)
(* and pairs that are right alone but not together.                        *)
(***************************************************************************)
EXTENDS Rules, TLC

Plain(value) == [len |-> 1, dollar |-> FALSE, refs |-> {}, value |-> value]
Group(n) == [len |-> 1, dollar |-> TRUE, refs |-> {n}, value |-> "$1"]
Test(token, len, field, value) ==
    [tokens |-> {token}, build |-> "", capture |-> "", xrw |-> "", len |-> len,
     expect |-> field :> value]
NoCondition == [f \in {} |-> {}]

A == [decode |-> "ok", id |-> "a", all |-> {"tesla"}, any |-> {}, cond |-> NoCondition,
      xrw |-> {}, regex |-> NoRegex, set |-> "device" :> Plain("automotive"),
      tests |-> <<Test("tesla", 2, "category", "automotive")>>]
B == [A EXCEPT !.id = "b", !.all = {}, !.any = {"wechat", "qq"}, !.xrw = {"com.tencent.mm", ""},
        !.set = "name" :> Plain("WeChat"),
        !.tests = <<[Test("qq", 1, "name", "WeChat") EXCEPT !.xrw = "com.tencent.mm"],
                    [Test("qq", 1, "name", "Chrome") EXCEPT !.xrw = "org.example"]>>]
\* takes "a"'s device type back
C == [A EXCEPT !.id = "c", !.set = "device" :> Plain("tablet"),
        !.tests = <<Test("tesla", 1, "device", "tablet")>>]
Newer == [A EXCEPT !.decode = "newer"]
Captures == [A EXCEPT !.id = "d", !.all = {"fban"},
                !.regex = [len |-> 2, valid |-> TRUE, groups |-> 1, finds |-> "fbav"],
                !.set = "version" :> Group(1),
                !.tests = <<[Test("fban", 1, "major", <<420>>) EXCEPT
                               !.tokens = {"fban", "fbav"}, !.capture = <<420, 1>>]>>]
\* sees what "a" or "c" set before it; its vendor is the prefixes' affair
Chained == [A EXCEPT !.id = "e", !.cond = "device" :> {"tablet", "automotive"},
              !.set = ("model" :> Plain("SM-1")) @@ ("category" :> Plain("car")),
              !.tests = <<[Test("tesla", 1, "vendor", "Samsung") EXCEPT
                             !.expect = @ @@ ("category" :> "car")]>>]
Broken == {[A EXCEPT !.decode = "error"], [A EXCEPT !.id = ""],
           [A EXCEPT !.all = {}], [A EXCEPT !.any = {""}],
           [Captures EXCEPT !.regex = NoRegex],
           [Captures EXCEPT !.regex.groups = 0],
           [Captures EXCEPT !.regex.len = 4],
           [A EXCEPT !.set = <<>>], [A EXCEPT !.tests = <<>>],
           [A EXCEPT !.tests[1].expect = "kind" :> "automotive"],
           [A EXCEPT !.tests[1].len = 4], [A EXCEPT !.tests = B.tests \o B.tests]}

Pool == {A, B, C, Captures, Chained, Newer}
Prefix == [vendor |-> "Samsung", models |-> {"SM-1"},
           regex |-> [len |-> 1, valid |-> TRUE, groups |-> 0]]
BadPrefix == [Prefix EXCEPT !.vendor = ""]
File(rules, prefixes) == [size |-> 1, parses |-> TRUE, schema |-> 1, rules |-> rules,
                          prefixes |-> prefixes]

MCFiles ==
    {File(rules, <<Prefix>>) : rules \in UNION {[1..n -> Pool] : n \in 0..3}}
    \union {File(<<A, Newer, Newer, Newer>>, <<>>), File(<<A, Chained>>, <<>>)}
    \union {File(<<r>>, <<>>) : r \in Broken}
    \union {File(<<B, r>>, <<>>) : r \in Broken}
    \union {File(<<A>>, <<BadPrefix>>), File(<<A>>, <<Prefix, Prefix>>)}
    \union {[File(<<A>>, <<>>) EXCEPT !.schema = 2], [File(<<A>>, <<>>) EXCEPT !.size = 2],
            [File(<<A>>, <<>>) EXCEPT !.parses = FALSE]}

MCEmbedded == File(<<A>>, <<Prefix>>)
MCPaths == {"name", "version", "major", "device", "vendor", "model", "category", "isBot"}
MCHinted(t) == [name |-> "Chrome", version |-> <<150, 0>>, major |-> <<150>>,
                type |-> "browser", os |-> "Android", osVersion |-> <<14>>,
                vendor |-> "Generic_Android", model |-> "K", device |-> "desktop",
                category |-> "", isBot |-> FALSE, isAI |-> FALSE]

=============================================================================
