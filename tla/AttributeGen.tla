---------------------------- MODULE AttributeGen ----------------------------
(***************************************************************************)
(* The attributegen plugin (extensions/attributegen): one root context     *)
(* with its generators, the expressions it holds in the host, and the      *)
(* filter state of the streams it writes attributes to.  Every action is a *)
(* whole callback.                                                         *)
(*                                                                         *)
(* A configuration is json, whether it parses, and attributes, a sequence  *)
(* of [phase, output, match], where match is a sequence of                 *)
(* [condition, value]; the empty condition always matches.                 *)
(*                                                                         *)
(* External: the host's expression tokens are numbers it never uses twice; *)
(* evaluating a condition gives true, false or an error (not a bool, or an *)
(* attribute the request does not have), differently from one callback to  *)
(* the next; the filter state keeps the last value set.                    *)
(***************************************************************************)
EXTENDS Integers, Sequences, FiniteSets, SequencesExt, FiniteSetsExt

CONSTANTS
    Stream,         \* the HTTP streams
    Config,         \* the configurations that may be loaded
    BadCondition,   \* the conditions createExpression refuses
    MaxConfigs      \* bound: configurations loaded in all

\* AttributeGeneration and its matches, as config.proto has them.
Match == [condition : STRING, value : STRING]
Generation == [phase : {"OnRequest", "OnLog"}, output : STRING, match : Seq(Match)]

ASSUME AttributeGenAssumption ==
    /\ MaxConfigs \in Nat
    /\ Config \subseteq [json : BOOLEAN, attributes : Seq(Generation)]

VARIABLES
    alive,          \* FALSE after onDone
    loads,          \* the number of configurations loaded
    parsed,         \* history: the configurations that parsed, the last one only
    gen,            \* gen_
    tokens,         \* tokens_
    live, next,     \* the host's expression tokens, and the next one
    configErrors, runtimeErrors,  \* config_errors_ and runtime_errors_
    stream,         \* the life of each stream
    filterState     \* the attributes of each stream

config == <<loads, parsed, gen, tokens, live, next, configErrors>>
vars == <<alive, config, runtimeErrors, stream, filterState>>

None == ""          \* an attribute that is not set

Attributes == UNION {ToSet(c.attributes) : c \in Config}
Output == {a.output : a \in Attributes}
Condition ==
    (UNION {{m.condition : m \in ToSet(a.match)} : a \in Attributes}) \ ({""} \cup BadCondition)

\* The values configured for an attribute.
Generated(o) ==
    UNION {{m.value : m \in ToSet(a.match)} : a \in {b \in Attributes : b.output = o}}

Init ==
    /\ alive = TRUE
    /\ loads = 0 /\ parsed = {}
    /\ gen = <<>> /\ tokens = {}
    /\ live = {} /\ next = 1
    /\ configErrors = 0 /\ runtimeErrors = 0
    /\ stream = [s \in Stream |-> "new"]
    /\ filterState = [s \in Stream |-> [o \in Output |-> None]]

----------------------------------------------------------------------------
(* initAttributeGen *)

\* The matches that need an expression, as <<attribute, match>>, and the order
\* in which the expressions are created.
Conditional(c) ==
    {p \in UNION {{a} \X DOMAIN c.attributes[a].match : a \in DOMAIN c.attributes} :
        c.attributes[p[1]].match[p[2]].condition # ""}

Before(p, q) == p[1] < q[1] \/ (p[1] = q[1] /\ p[2] < q[2])

\* The conditional matches whose expression the host refuses.
Refused(c) ==
    {p \in Conditional(c) : c.attributes[p[1]].match[p[2]].condition \in BadCondition}

\* The expressions created: those before the first one that is refused.
Created(c) ==
    {p \in Conditional(c) : \A q \in Refused(c) : Before(p, q)}

Token(c, p) == next + Cardinality({q \in Conditional(c) : Before(q, p)})

\* Match m of attribute a, with its token.
TokenMatch(c, a, m) ==
    [condition |-> c.attributes[a].match[m].condition,
     token |-> IF <<a, m>> \in Conditional(c) THEN Token(c, <<a, m>>) ELSE 0,
     value |-> c.attributes[a].match[m].value]

\* Mutant of TokenMatches: the matches of earlier attributes are not cleared.
TokenMatchesUncleared(c, a) ==
    FlattenSeq([k \in 1 .. a |->
        [m \in DOMAIN c.attributes[k].match |-> TokenMatch(c, k, m)]])

TokenMatches(c, a) ==
    [m \in DOMAIN c.attributes[a].match |-> TokenMatch(c, a, m)]

\* A generator for each attribute.
Generators(c) ==
    [a \in DOMAIN c.attributes |->
        [phase |-> c.attributes[a].phase,
         output |-> c.attributes[a].output,
         matches |-> TokenMatches(c, a)]]

----------------------------------------------------------------------------
(* onConfigure *)

\* Not the message's JSON: the plugin goes on as before.
ConfigureUnparsable(c) ==
    /\ alive /\ loads < MaxConfigs
    /\ ~ c.json
    /\ loads' = loads + 1
    /\ configErrors' = configErrors + 1
    /\ UNCHANGED <<alive, parsed, gen, tokens, live, next, runtimeErrors, stream, filterState>>

\* A condition is refused: what was created for the new configuration is
\* deleted as well, and no attribute is generated any more.
ConfigureRejected(c) ==
    /\ alive /\ loads < MaxConfigs
    /\ c.json /\ Refused(c) # {}
    /\ loads' = loads + 1
    /\ parsed' = {c}
    /\ configErrors' = configErrors + 1
    /\ gen' = <<>>
    /\ tokens' = {}
    /\ live' = live \ (tokens \cup {Token(c, p) : p \in Created(c)})
    /\ next' = next + Cardinality(Created(c))
    /\ UNCHANGED <<alive, runtimeErrors, stream, filterState>>

\* Mutant of Configure: gen_ is replaced, and the old tokens are not deleted.
ConfigureLeaking(c) ==
    /\ alive /\ loads < MaxConfigs
    /\ c.json /\ Refused(c) = {}
    /\ loads' = loads + 1
    /\ parsed' = {c}
    /\ gen' = Generators(c)
    /\ tokens' = {Token(c, p) : p \in Created(c)}
    /\ live' = live \cup tokens'
    /\ next' = next + Cardinality(Created(c))
    /\ UNCHANGED <<alive, configErrors, runtimeErrors, stream, filterState>>

Configure(c) ==
    /\ alive /\ loads < MaxConfigs
    /\ c.json /\ Refused(c) = {}
    /\ loads' = loads + 1
    /\ parsed' = {c}
    /\ gen' = Generators(c)
    /\ tokens' = {Token(c, p) : p \in Created(c)}
    /\ live' = (live \ tokens) \cup tokens'
    /\ next' = next + Cardinality(Created(c))
    /\ UNCHANGED <<alive, configErrors, runtimeErrors, stream, filterState>>

----------------------------------------------------------------------------
(* attributeGen: outcome says what each condition evaluates to *)

Outcome == [Condition -> {"true", "false", "error"}]

MatchEvaluate(m, outcome) ==
    IF m.condition = "" THEN "true"
    ELSE IF m.token \notin live THEN "error"
    ELSE outcome[m.condition]

\* Mutant of Evaluate: a match that fails is passed over.
EvaluatePastErrors(g, outcome) ==
    LET matched == {m \in DOMAIN g.matches : MatchEvaluate(g.matches[m], outcome) = "true"}
    IN  IF matched = {} THEN [status |-> "false", value |-> None]
        ELSE [status |-> "true", value |-> g.matches[Min(matched)].value]

\* The first match that is not false decides.
Evaluate(g, outcome) ==
    LET decisive == {m \in DOMAIN g.matches : MatchEvaluate(g.matches[m], outcome) # "false"}
    IN  IF decisive = {} THEN [status |-> "false", value |-> None]
        ELSE [status |-> MatchEvaluate(g.matches[Min(decisive)], outcome),
              value |-> g.matches[Min(decisive)].value]

\* One generator: st has the stream's attributes and the number of errors.
Generate(st, g, phase, outcome) ==
    LET e == Evaluate(g, outcome)
    IN  IF g.phase # phase \/ e.status = "false" THEN st
        ELSE IF e.status = "error"
        THEN [attributes |-> st.attributes, errors |-> st.errors + 1]
        ELSE [attributes |-> [st.attributes EXCEPT ![g.output] = e.value], errors |-> st.errors]

\* All generators, in the order of the configuration.
GenerateAll(st, phase, outcome) ==
    FoldLeft(LAMBDA r, g : Generate(r, g, phase, outcome), st, gen)

RunGenerators(s, phase, outcome) ==
    LET st == GenerateAll([attributes |-> filterState[s], errors |-> 0], phase, outcome)
    IN  /\ filterState' = [filterState EXCEPT ![s] = st.attributes]
        /\ runtimeErrors' = runtimeErrors + st.errors
        /\ UNCHANGED <<alive, config>>

OnRequestHeaders(s, outcome) ==
    /\ alive /\ stream[s] = "new"
    /\ stream' = [stream EXCEPT ![s] = "running"]
    /\ RunGenerators(s, "OnRequest", outcome)

OnLog(s, outcome) ==
    /\ stream[s] = "running"
    /\ stream' = [stream EXCEPT ![s] = "logged"]
    /\ RunGenerators(s, "OnLog", outcome)

\* onDone, when the streams have ended.
OnDone ==
    /\ alive /\ \A s \in Stream : stream[s] # "running"
    /\ alive' = FALSE
    /\ gen' = <<>>
    /\ tokens' = {}
    /\ live' = live \ tokens
    /\ UNCHANGED <<loads, parsed, next, configErrors, runtimeErrors, stream, filterState>>

Next ==
    \/ \E c \in Config : ConfigureUnparsable(c) \/ ConfigureRejected(c) \/ Configure(c)
    \/ \E s \in Stream : \E outcome \in Outcome : OnRequestHeaders(s, outcome) \/ OnLog(s, outcome)
    \/ OnDone

Spec == Init /\ [][Next]_vars

----------------------------------------------------------------------------
TypeOK ==
    /\ alive \in BOOLEAN
    /\ loads \in 0 .. MaxConfigs /\ parsed \subseteq Config
    /\ tokens \subseteq 1 .. next - 1
    /\ live \subseteq 1 .. next - 1
    /\ configErrors \in 0 .. loads
    /\ runtimeErrors \in Nat
    /\ stream \in [Stream -> {"new", "running", "logged"}]
    /\ \A s \in Stream : \A o \in Output : filterState[s][o] \in {None} \cup Generated(o)

\* Over any sequence of good, rejected and unparsable configurations the host
\* holds one expression for each condition of the generators in use, and no
\* other: nothing leaks, and nothing is evaluated after it was deleted.
TokensExact ==
    LET Used(a) == {m \in DOMAIN gen[a].matches : gen[a].matches[m].condition # ""}
    IN  /\ live = tokens
        /\ tokens = UNION {{gen[a].matches[m].token : m \in Used(a)} : a \in DOMAIN gen}
        /\ \A a, b \in DOMAIN gen : \A m \in Used(a), n \in Used(b) :
              gen[a].matches[m].token = gen[b].matches[n].token => a = b /\ m = n

\* Match i of attribute a decides: it holds, and the ones before it do not.
Wins(c, a, i, outcome) ==
    LET Is(m, status) == IF m.condition = "" THEN status = "true"
                         ELSE outcome[m.condition] = status
    IN  /\ Is(c.attributes[a].match[i], "true")
        /\ \A k \in 1 .. i - 1 : Is(c.attributes[a].match[k], "false")

\* The matches, as <<attribute, match>>, that set the output o at a phase.
Winners(c, phase, o, outcome) ==
    {p \in UNION {{a} \X DOMAIN c.attributes[a].match : a \in DOMAIN c.attributes} :
        /\ c.attributes[p[1]].phase = phase /\ c.attributes[p[1]].output = o
        /\ Wins(c, p[1], p[2], outcome)}

\* What the configuration c asks for at a phase: for each attribute the value of
\* its last generation, in the order of the configuration, that has a match
\* which holds and that only matches which do not hold precede.
Expected(c, phase, before, outcome) ==
    [o \in Output |->
        IF Refused(c) # {} \/ Winners(c, phase, o, outcome) = {} THEN before[o]
        ELSE LET last == CHOOSE p \in Winners(c, phase, o, outcome) :
                           \A q \in Winners(c, phase, o, outcome) : q[1] <= p[1]
             IN  c.attributes[last[1]].match[last[2]].value]

\* config.proto: "the result of the last configuration will be visible".  After
\* any sequence of configurations, each phase of a stream sets the attributes
\* the last configuration that parsed asks for, all of them or, if it was
\* rejected, none, and an error in one generation leaves the others alone.
AttributesAsConfigured ==
    [][\A s \in Stream : \A outcome \in Outcome : \A c \in parsed :
         /\ OnRequestHeaders(s, outcome) =>
               filterState'[s] = Expected(c, "OnRequest", filterState[s], outcome)
         /\ OnLog(s, outcome) =>
               filterState'[s] = Expected(c, "OnLog", filterState[s], outcome)]_vars

=============================================================================
