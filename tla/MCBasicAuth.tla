---------------------------- MODULE MCBasicAuth ----------------------------
(* BasicAuth for TLC: rules that overlap in methods, hosts and paths, and   *)
(* configurations that are refused at the start, in the middle and at the   *)
(* end.                                                                     *)
EXTENDS BasicAuth

UserA == <<97, 58, 98>>               \* a:b
UserB == <<98, 58, 99, 100>>          \* b:cd, whose encoding is padded
EncodedB == Rfc4648(UserB)
Bare == <<98>>                        \* neither of the two formats

Strings(s) == JsonArray([i \in DOMAIN s |-> JsonString(s[i])])

RuleObject(pathField, path, hosts, methods, credentials) ==
    JsonObject([f \in {pathField, "hosts", "request_methods", "credentials"} |->
        CASE f = pathField -> JsonString(path)
          [] f = "hosts" -> Strings(hosts)
          [] f = "request_methods" -> Strings(methods)
          [] f = "credentials" -> Strings(credentials)])

Without(j, field) == JsonObject([f \in DOMAIN j.object \ {field} |-> j.object[f]])

Com == <<"a", ".", "c">>
V6 == <<"[", ":", "1", "]">>

\* All of /x for both users, on every host.
PrefixRule == RuleObject("prefix", <<"/", "x">>, <<>>, <<"GET", "POST">>, <<UserA, UserB>>)
\* /x itself only for the second one, given in base64, on one host and on *.c.
ExactRule == RuleObject("exact", <<"/", "x">>, <<V6, <<"*", ".", "c">>>>, <<"GET">>, <<EncodedB>>)
SuffixRule == RuleObject("suffix", <<"y">>, <<<<"a", "*">>>>, <<"GET">>, <<UserA>>)
EmptyRule == RuleObject("prefix", <<>>, <<Com>>, <<"GET">>, <<UserA>>)

TwoPaths ==
    JsonObject([f \in DOMAIN PrefixRule.object \cup {"suffix"} |->
        IF f = "suffix" THEN JsonString(<<"y">>) ELSE PrefixRule.object[f]])
BadCredential == RuleObject("prefix", <<"/">>, <<>>, <<"GET">>, <<UserA, Bare>>)

Configuration(objects, name) ==
    JsonObject([f \in {"basic_auth_rules", "realm"} |->
        IF f = "realm" THEN JsonString(name) ELSE JsonArray(objects)])

MCConfig ==
    {NoConfiguration, JsonNumber(1),
     Without(Configuration(<<>>, "bare"), "basic_auth_rules"),
     Without(Configuration(<<PrefixRule, SuffixRule>>, "-"), "realm"),
     Configuration(<<ExactRule, TwoPaths, SuffixRule>>, "two"),
     Configuration(<<SuffixRule, BadCredential, PrefixRule>>, "bad"),
     Configuration(<<EmptyRule, Without(PrefixRule, "credentials")>>, "empty"),
     JsonObject([Configuration(<<ExactRule>>, "-").object EXCEPT !.realm = JsonNumber(1)]),
     JsonObject([Configuration(<<>>, "none").object EXCEPT !.basic_auth_rules = PrefixRule])}

MCRequest ==
    [method : {"GET", "POST"},
     name : {Com, V6, <<"a", ".", "d">>},
     port : {<<>>, <<"8">>},
     path : {<<"/", "x">>, <<"/", "x", "y">>, <<"/">>},
     authorization : {[scheme |-> "", credential |-> <<>>]} \cup
                     [scheme : {"Basic"}, credential : {Rfc4648(UserA), EncodedB, UserA}]]
=============================================================================
