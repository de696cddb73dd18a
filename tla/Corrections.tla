----------------------------- MODULE Corrections ------------------------------
(***************************************************************************)
(* What a compiled rule of the correction layer does to a result           *)
(* (pkg/core/corrections.go, applyCorrections and resolveDeviceVendor),    *)
(* and the category derived after the rules.  Pipeline sends every call    *)
(* through it, Rules the inline tests of a candidate file.                 *)
(*                                                                         *)
(* A rule is [all, any, cond, xrw, re, set, capture] with cond the         *)
(* accepted values of the result's fields, set the values it writes and    *)
(* capture the fields it writes with the regex's group.                    *)
(***************************************************************************)
EXTENDS Sequences

Has(ua, tokens) == ua.tokens \cap tokens # {}
MajorOf(v) == IF v = <<>> THEN v ELSE <<v[1]>>

\* The fields correctionSet has and no other; the flags are *bool there, which no
\* template expands.
Settable == {"name", "version", "type", "os", "osVersion", "vendor", "model",
             "device", "category", "isBot", "isAI"}
Flags == {"isBot", "isAI"}

Matches(rule, r, ua, h) ==
    /\ rule.all \subseteq ua.tokens
    /\ rule.any = {} \/ Has(ua, rule.any)
    /\ \A f \in DOMAIN rule.cond : r[f] \in rule.cond[f]
    /\ rule.xrw = {} \/ h.xrw \in rule.xrw
    /\ rule.re = "" \/ rule.re \in ua.tokens

Writes(rule) == DOMAIN rule.set \union rule.capture
Value(rule, ua, f) == IF f \in rule.capture THEN ua.capture ELSE rule.set[f]

\* The category is kept apart until the category is derived; a new version
\* brings its major.
Corrected(rule, r, ua) ==
    LET w == [f \in DOMAIN r |-> IF f \in Writes(rule) \ {"category"}
                                 THEN Value(rule, ua, f) ELSE r[f]]
    IN  IF "version" \in Writes(rule) THEN [w EXCEPT !.major = MajorOf(w.version)] ELSE w

GenericVendors == {"", "Generic", "Generic_Android", "Generic_Android_Tablet"}
GenericModels == {"", "K", "Smartphone", "Tablet", "Generic", "Generic Smartphone",
                  "Generic Tablet"}

\* Fill the gap: a generic vendor, from the model, itself from the Build/ token
\* when it is generic.
PrefixesOf(model, prefixes) == SelectSeq(prefixes, LAMBDA p : model \in p.models)

ResolveVendor(r, ua, prefixes) ==
    LET model == IF r.model \in GenericModels /\ ua.build # "" THEN ua.build ELSE r.model
        known == PrefixesOf(model, prefixes)
    IN  IF r.vendor \notin GenericVendors THEN r
        ELSE [r EXCEPT !.model = model,
                       !.vendor = IF model # "" /\ known # <<>> THEN Head(known).vendor ELSE @]

CategoryNotChosen(r, chosen) ==  \* mutant: the override comes before the switch
    IF r.isBot THEN "bot"
    ELSE IF r.device \in {"mobile", "tablet"} THEN "mobile"
    ELSE IF r.device \in {"tv", "console", "wearable", "xr", "automotive"} THEN r.device
    ELSE IF chosen # "" THEN chosen ELSE "desktop"
Category(r, chosen) ==
    IF chosen # "" THEN chosen
    ELSE IF r.isBot THEN "bot"
    ELSE IF r.device \in {"mobile", "tablet"} THEN "mobile"
    ELSE IF r.device \in {"tv", "console", "wearable", "xr", "automotive"} THEN r.device
    ELSE "desktop"

=============================================================================
