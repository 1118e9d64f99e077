----------------------------- MODULE BasicAuth -----------------------------
(***************************************************************************)
(* The basic auth plugin (extensions/basic_auth): a root context with the  *)
(* rules of each request method, which configurations add to and requests  *)
(* are checked against.  Hosts and paths are sequences of characters,      *)
(* credentials sequences of byte values, since both are taken apart.       *)
(*                                                                         *)
(* External: the host may load configurations one after the other into one *)
(* root context, and goes on with it after a configuration was refused.    *)
(***************************************************************************)
EXTENDS Base64, JsonUtil, FiniteSets

CONSTANTS
    Method,      \* the request methods
    Config,      \* the configurations that may be loaded: texts as JSON values
    Request,     \* the requests that may arrive
    MaxConfigs   \* bound: configurations loaded in all

Colon == 58                                     \* ':' in a credential
MatchType == {"Prefix", "Exact", "Suffix"}
Garbage == MatchType \cup {"Unknown"}           \* MATCH_TYPE when not initialized
PathField == [prefix |-> "Prefix", exact |-> "Exact", suffix |-> "Suffix"]
NoConfiguration == [empty |-> TRUE]             \* of size 0
NoAnswer == [answered |-> FALSE]

\* JSON values of the right form where a configuration has one at all.
IsArray(j, field) == Elements(j, field) \in Seq(ToSet(Elements(j, field)))

RuleObjects == UNION {ToSet(Elements(c, "basic_auth_rules")) : c \in Config}

ASSUME BasicAuthAssumption ==
    /\ MaxConfigs \in Nat
    /\ \A c \in Config : IsArray(c, "basic_auth_rules")
    /\ \A j \in RuleObjects :
          /\ \A field \in {"hosts", "request_methods", "credentials"} : IsArray(j, field)
          /\ \A f \in DOMAIN PathField :
                HasField(j, f) /\ IsJsonString(j.object[f]) => j.object[f].string \in Seq(STRING)
          /\ \A h \in ToSet(Elements(j, "hosts")) :
                IsJsonString(h) => h.string \in Seq(STRING)
          /\ \A c \in ToSet(Elements(j, "credentials")) :
                IsJsonString(c) => c.string \in Seq(Byte)
    /\ \A r \in Request :
          /\ r.method \in Method
          /\ r.path \in Seq(STRING) /\ r.path # <<>>
          /\ r.name \in Seq(STRING) /\ r.port \in Seq(STRING)

\* A host name has colons only inside the brackets of a v6 address, and a port
\* has neither.
ASSUME AuthorityAssumption ==
    \A r \in Request :
        /\ ToSet(r.port) \cap {":", "]"} = {}
        /\ \A i \in DOMAIN r.name : r.name[i] = ":" =>
              \E k \in DOMAIN r.name : k > i /\ r.name[k] = "]"

VARIABLES
    rules,    \* basic_auth_configuration_
    realm,    \* realm_
    loaded,   \* history: the configurations loaded so far
    last      \* the request that is being answered, and its response

vars == <<rules, realm, loaded, last>>

Init ==
    /\ rules = [m \in Method |-> <<>>]
    /\ realm = "istio"
    /\ loaded = <<>>
    /\ last = NoAnswer

----------------------------------------------------------------------------
(* extractBasicAuthRule *)

\* A credential with a ':' is encoded, any other has to be decodable.
IsCredential(j) ==
    IsJsonString(j) /\ (Colon \in ToSet(j.string) \/ DecodeWithoutPadding(j.string) # <<>>)

Encoded(s) == IF Colon \in ToSet(s) THEN Encode(s, TRUE) ELSE s

PathFieldsOf(j) == {f \in DOMAIN PathField : HasField(j, f)}

\* Mutant of Extractable: a rule without credentials is taken.
ExtractableWithoutCredentials(j) ==
    /\ \A f \in PathFieldsOf(j) : IsJsonString(j.object[f])
    /\ Cardinality(PathFieldsOf(j)) = 1
    /\ JsonArrayIterate(j, "hosts", IsJsonString)
    /\ JsonArrayIterate(j, "request_methods", IsJsonString)
    /\ Elements(j, "request_methods") # <<>>
    /\ JsonArrayIterate(j, "credentials", IsCredential)

\* What extractBasicAuthRule demands before it returns true.
Extractable(j) ==
    /\ \A f \in PathFieldsOf(j) : IsJsonString(j.object[f])
    /\ Cardinality(PathFieldsOf(j)) = 1
    /\ JsonArrayIterate(j, "hosts", IsJsonString)
    /\ JsonArrayIterate(j, "request_methods", IsJsonString)
    /\ Elements(j, "request_methods") # <<>>
    /\ JsonArrayIterate(j, "credentials", IsCredential)
    /\ Elements(j, "credentials") # <<>>

HostPattern(host) ==
    IF IsPrefix(<<"*">>, host) THEN [type |-> "Suffix", text |-> Tail(host)]
    ELSE IF IsSuffix(<<"*">>, host) THEN [type |-> "Prefix", text |-> Front(host)]
    ELSE [type |-> "Exact", text |-> host]

PathOf(j) == j.object[CHOOSE f \in PathFieldsOf(j) : TRUE].string

\* An empty path leaves path_pattern as it happens to be.
RuleOf(j, garbage) ==
    [request_path |-> PathOf(j),
     path_pattern |-> IF PathOf(j) = <<>> THEN garbage
                      ELSE PathField[CHOOSE f \in PathFieldsOf(j) : TRUE],
     hosts |-> {HostPattern(h.string) : h \in ToSet(Elements(j, "hosts"))},
     encoded_credentials |-> {Encoded(c.string) : c \in ToSet(Elements(j, "credentials"))}]

\* The rule is added for each of its methods.
AddRule(rs, j, garbage) ==
    FoldLeft(LAMBDA acc, m : [acc EXCEPT ![m.string] = Append(@, RuleOf(j, garbage))],
             rs, Elements(j, "request_methods"))

----------------------------------------------------------------------------
(* onConfigure *)

Load(c) ==
    /\ Len(loaded) < MaxConfigs
    /\ ~ last.answered
    /\ loaded' = Append(loaded, c)
    /\ UNCHANGED last

\* No configuration, or one that does not parse: nothing changes.
ConfigureIgnored(c) ==
    /\ Load(c)
    /\ ~ JsonParses(c)
    /\ UNCHANGED <<rules, realm>>

RulesRead(c) == JsonArrayIterate(c, "basic_auth_rules", Extractable)

\* The rule objects that are read, up to the first bad one.
ReadObjects(c) ==
    SubSeq(Elements(c, "basic_auth_rules"), 1,
           Iterated(Elements(c, "basic_auth_rules"), Extractable))

Pathless(c) == {i \in DOMAIN ReadObjects(c) : PathOf(ReadObjects(c)[i]) = <<>>}

\* Mutant of RulesWith: a configuration that is refused takes the rules with it.
RulesWithClearing(c, garbage) ==
    IF ~ RulesRead(c) THEN [m \in Method |-> <<>>]
    ELSE FoldLeft(LAMBDA rs, i : AddRule(rs, ReadObjects(c)[i],
                                         IF i \in Pathless(c) THEN garbage[i] ELSE "Unknown"),
                  rules, [i \in DOMAIN ReadObjects(c) |-> i])

\* They are added to the rules there are, whether or not the rest is good.
RulesWith(c, garbage) ==
    FoldLeft(LAMBDA rs, i : AddRule(rs, ReadObjects(c)[i],
                                    IF i \in Pathless(c) THEN garbage[i] ELSE "Unknown"),
             rules, [i \in DOMAIN ReadObjects(c) |-> i])

NamesRealm(c) == HasField(c, "realm") /\ IsJsonString(c.object.realm)

\* Mutant of RealmWith: the realm is read before the rules.
RealmWithFirst(c) == IF NamesRealm(c) THEN c.object.realm.string ELSE realm

\* The realm is set if all rules were read and the configuration names one; one that
\* does not leaves the realm of an earlier configuration, as realm_ is never reset.
RealmWith(c) ==
    IF RulesRead(c) /\ NamesRealm(c) THEN c.object.realm.string ELSE realm

Configure(c) ==
    /\ Load(c)
    /\ JsonParses(c)
    /\ \E garbage \in [Pathless(c) -> Garbage] : rules' = RulesWith(c, garbage)
    /\ realm' = RealmWith(c)

----------------------------------------------------------------------------
(* check *)

\* rfind: the last position of a character, 0 for npos
RFind(s, ch) == Max({0} \cup {i \in DOMAIN s : s[i] = ch})

\* Mutant of StripPort: the colons of a v6 address are not looked at.
StripPortAnywhere(host) ==
    IF RFind(host, ":") # 0 THEN SubSeq(host, 1, RFind(host, ":") - 1) ELSE host

StripPort(host) ==
    IF RFind(host, ":") # 0 /\ RFind(host, "]") < RFind(host, ":")
    THEN SubSeq(host, 1, RFind(host, ":") - 1) ELSE host

Matches(type, text, s) ==
    CASE type = "Suffix" -> IsSuffix(text, s)
      [] type = "Prefix" -> IsPrefix(text, s)
      [] type = "Exact" -> text = s
      [] type = "Unknown" -> FALSE

HostMatch(rule, host) ==
    rule.hosts = {} \/ \E h \in rule.hosts : Matches(h.type, h.text, StripPort(host))

CredentialsCheck(rule, authorization) ==
    IF authorization.scheme # "Basic" THEN "NoBasicAuthData"
    ELSE IF authorization.credential \notin rule.encoded_credentials THEN "InvalidCredentials"
    ELSE "Continue"

\* The :authority header
Authority(r) == IF r.port = <<>> THEN r.name ELSE r.name \o <<":">> \o r.port

\* The first rule that applies and does not accept the credentials decides.
Response(rs, r) ==
    LET responses == {CredentialsCheck(rule, r.authorization) :
                        rule \in {x \in ToSet(rs[r.method]) :
                                    /\ HostMatch(x, Authority(r))
                                    /\ Matches(x.path_pattern, x.request_path, r.path)}}
    IN  IF responses \subseteq {"Continue"} THEN "Continue"
        ELSE CHOOSE x \in responses : x # "Continue"

\* onRequestHeaders, which is check ...
Check(r) ==
    /\ ~ last.answered
    /\ last' = [answered |-> TRUE, request |-> r, response |-> Response(rules, r), realm |-> realm]
    /\ UNCHANGED <<rules, realm, loaded>>

\* ... and its answer is with the proxy.
Answered ==
    /\ last.answered
    /\ last' = NoAnswer
    /\ UNCHANGED <<rules, realm, loaded>>

Next ==
    \/ \E c \in Config : ConfigureIgnored(c) \/ Configure(c)
    \/ \E r \in Request : Check(r)
    \/ Answered

Spec == Init /\ [][Next]_vars

----------------------------------------------------------------------------
\* Every rule a configuration adds can be used by check: its pattern, its
\* hosts' patterns, at least one credential, and a path unless it is pathless.
TypeOK ==
    /\ realm \in {"istio"} \cup {c.object.realm.string : c \in {d \in Config : NamesRealm(d)}}
    /\ loaded \in Seq(Config) /\ Len(loaded) <= MaxConfigs
    /\ DOMAIN rules = Method
    /\ \A m \in Method : \A rule \in ToSet(rules[m]) :
          /\ rule.path_pattern \in IF rule.request_path = <<>> THEN Garbage ELSE MatchType
          /\ \A h \in rule.hosts : h.type \in MatchType
          /\ rule.encoded_credentials # {}
    /\ last.answered =>
          /\ last.request \in Request
          /\ last.response \in {"Continue", "NoBasicAuthData", "InvalidCredentials"}

----------------------------------------------------------------------------
(* The reference: what the README promises of the rules that were loaded.   *)

\* The rule objects in force: of each configuration those before its first bad
\* one.
GoodObjects(objects) ==
    {objects[i] : i \in {n \in DOMAIN objects : \A e \in 1 .. n : Extractable(objects[e])}}

InForce ==
    UNION {GoodObjects(Elements(c, "basic_auth_rules")) : c \in ToSet(loaded)}

\* *.com stands for every name that ends in .com, www.* for every name that begins
\* with www.
Stands(host, name) ==
    \/ host = name
    \/ \E n \in 0 .. Len(name) : host = <<"*">> \o SubSeq(name, n + 1, Len(name))
    \/ \E n \in 1 .. Len(name) : host = SubSeq(name, 1, n) \o <<"*">> /\ name[1] # "*"

Covers(j, r) ==
    /\ \E m \in ToSet(Elements(j, "request_methods")) : m.string = r.method
    /\ \/ Elements(j, "hosts") = <<>>
       \/ \E h \in ToSet(Elements(j, "hosts")) : Stands(h.string, r.name)

\* Whether the one path field of a rule object matches a path.
OnPath(j, r) ==
    LET n == Len(PathOf(j))
    IN  CASE HasField(j, "exact")  -> r.path = PathOf(j)
          [] HasField(j, "prefix") -> Len(r.path) >= n /\ SubSeq(r.path, 1, n) = PathOf(j)
          [] HasField(j, "suffix") ->
                Len(r.path) >= n /\ SubSeq(r.path, Len(r.path) - n + 1, Len(r.path)) = PathOf(j)

\* USERNAME:PASSWD stands for its RFC 4648 encoding, anything else for itself.
HasAccess(j, r) ==
    /\ r.authorization.scheme = "Basic"
    /\ \E c \in {e.string : e \in ToSet(Elements(j, "credentials"))} :
          r.authorization.credential = IF Colon \in ToSet(c) THEN Rfc4648(c) ELSE c

\* A request is denied exactly if some rule in force covers it and does not list
\* its credentials: whatever the order of rules and configurations, ports and v6
\* addresses, and configurations that were refused halfway.  Of a rule with an
\* empty path only that it can deny nothing it does not cover.
AccessAsConfigured ==
    last.answered =>
        LET r == last.request
            denying == {j \in InForce : Covers(j, r) /\ ~ HasAccess(j, r)}
        IN  /\ (\E j \in denying : PathOf(j) # <<>> /\ OnPath(j, r)) => last.response # "Continue"
            /\ last.response # "Continue" =>
                  /\ \E j \in denying : PathOf(j) = <<>> \/ OnPath(j, r)
                  /\ (last.response = "NoBasicAuthData") = (r.authorization.scheme # "Basic")

ReadToEnd(c) ==
    HasField(c, "basic_auth_rules") =>
        /\ Is("array", c.object.basic_auth_rules)
        /\ \A j \in ToSet(Elements(c, "basic_auth_rules")) : Extractable(j)

\* The configurations that nothing in them makes configure refuse.
Accepted(c) ==
    JsonParses(c) /\ ReadToEnd(c) /\ (HasField(c, "realm") => IsJsonString(c.object.realm))

AcceptedIn(configs) == {k \in DOMAIN configs : Accepted(configs[k])}

\* A 401 challenges with the realm of the configuration accepted last, if that one
\* names a realm, and with the default as long as none that was accepted has named
\* one: a configuration that is refused halfway changes nothing about it.  An
\* accepted one without a realm keeps the realm of an earlier one, where README.md
\* of the extension says "If not provided, the default value is `istio`."; nothing
\* is stated about that case.
RealmAsConfigured ==
    last.answered =>
        LET good == AcceptedIn(loaded)
        IN  /\ good # {} /\ NamesRealm(loaded[Max(good)]) =>
                  last.realm = loaded[Max(good)].object.realm.string
            /\ (\A k \in good : ~ NamesRealm(loaded[k])) => last.realm = "istio"

\* Protection only grows: no configuration, refused or not, lets a request
\* through that was denied before it.
DeniedStaysDenied ==
    [][\A r \in Request : Response(rules, r) # "Continue" => Response(rules', r) # "Continue"]_rules

=============================================================================
