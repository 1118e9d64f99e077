---------------------------- MODULE StatsConfig ----------------------------
(***************************************************************************)
(* What the stats plugin (extensions/stats) makes of its configuration:    *)
(* initializeDimensions, as operators.  A configuration is                 *)
(*   json         whether it parses at all                                 *)
(*   definitions  a sequence of [name, value]                              *)
(*   metrics      a sequence of overrides: the metric's name ("" for all), *)
(*                drop, remove (tags_to_remove), and dimensions, a         *)
(*                sequence of [tag, value] in the order of the tags;       *)
(*                object says whether its dimensions are a JSON object     *)
(* Names and values may be empty; where a string is expected and something *)
(* else is found, the model has Malformed.  The host compiles expressions  *)
(* and hands out a token for each; tokens are numbers it never uses twice. *)
(***************************************************************************)
EXTENDS Integers, Sequences, SequencesExt, FiniteSetsExt, Functions, TLC

CONSTANT BadExpression      \* the expressions createExpression refuses

ConfigType ==
    [json : BOOLEAN, disableHostHeaderFallback : BOOLEAN,
     definitions : Seq([name : STRING, value : STRING]),
     metrics : Seq([name : STRING, object : BOOLEAN, drop : BOOLEAN, remove : Seq(STRING),
                    dimensions : Seq([tag : STRING, value : STRING])])]

Malformed == "malformed"
Removed == 0                \* an empty std::optional index

\* The default tags, in the order that matters: of the peer, of TCP streams, of
\* HTTP streams.  Each stands for all the tags of its group.
DefaultTags == <<"peer", "service", "protocol", "code">>
CountPeerLabels == 1
CountTcpLabels == 3
CountStandardLabels == 4

\* A metric's value: a field of the request info, or a definition's expression.
Field(kind) == [kind |-> kind, token |-> 0]
Expression(token) == [kind |-> "expression", token |-> token]

Http == {"HTTP", "GRPC"}

\* One metric of each kind: the duration and size histograms are recorded as
\* requests_total is, response messages as request messages, received as sent
\* bytes.
DefaultMetrics == [
    requests_total |->
        [extractor |-> Field("one"), protocols |-> Http,
         labels |-> CountStandardLabels, recurrent |-> FALSE],
    request_messages_total |->
        [extractor |-> Field("messages"), protocols |-> {"GRPC"},
         labels |-> CountPeerLabels, recurrent |-> TRUE],
    tcp_sent_bytes_total |->
        [extractor |-> Field("sent"), protocols |-> {"TCP"},
         labels |-> CountTcpLabels, recurrent |-> TRUE],
    tcp_connections_opened_total |->
        [extractor |-> Field("opened"), protocols |-> {"TCP"},
         labels |-> CountTcpLabels, recurrent |-> TRUE],
    tcp_connections_closed_total |->
        [extractor |-> Field("closed"), protocols |-> {"TCP"},
         labels |-> CountTcpLabels, recurrent |-> FALSE]]

----------------------------------------------------------------------------
(* The metric definitions *)

\* The definitions processed before the first one that is refused.
Accepted(definitions) ==
    LET Refused(d) == d.name = "" \/ d.value \in {""} \cup BadExpression
        firstBad == {i \in DOMAIN definitions : Refused(definitions[i])}
    IN  IF firstBad = {} THEN definitions
        ELSE SubSeq(definitions, 1, Min(firstBad) - 1)

\* Every accepted definition has a token, from next on; the last definition of
\* a name counts, and takes the place of a default metric of that name.
Factories(accepted, next) ==
    LET names == {accepted[i].name : i \in DOMAIN accepted}
        last(name) == Max({i \in DOMAIN accepted : accepted[i].name = name})
    IN  [m \in DOMAIN DefaultMetrics \cup names |->
            IF m \in names
            THEN [extractor |-> Expression(next + last(m) - 1),
                  protocols |-> Http, recurrent |-> FALSE]
            ELSE [extractor |-> DefaultMetrics[m].extractor,
                  protocols |-> DefaultMetrics[m].protocols,
                  recurrent |-> DefaultMetrics[m].recurrent]]

\* The tags a factory starts with: defined metrics have none of their own.
InitialTags(m) ==
    IF m \in DOMAIN DefaultMetrics
    THEN SubSeq(DefaultTags, 1, DefaultMetrics[m].labels)
    ELSE <<>>

----------------------------------------------------------------------------
(* The overrides.  A record a holds what they work on: the factories, their *)
(* tags and indexes, the expressions so far, and whether the loop stopped.  *)

\* addStringExpression
AddStringExpression(a, value) ==
    IF value \in BadExpression \/ \E e \in ToSet(a.expressions) : e.expression = value
    THEN a
    ELSE [a EXCEPT !.expressions = Append(@, [token |-> a.next, expression |-> value]),
                   !.next = @ + 1]

\* Mutant of IndexOf: the index is the size after the expression was added.
IndexOfBeyond(a, value) ==
    LET found == {i \in DOMAIN a.expressions : a.expressions[i].expression = value}
    IN  IF found = {} THEN Removed ELSE CountStandardLabels + Min(found) + 1

\* Where an expression's value is found in the dimensions.
IndexOf(a, value) ==
    LET found == {i \in DOMAIN a.expressions : a.expressions[i].expression = value}
    IN  IF found = {} THEN Removed ELSE CountStandardLabels + Min(found)

RemoveTag(a, m, tag) ==
    IF a.stop THEN a
    ELSE IF tag = Malformed THEN [a EXCEPT !.stop = TRUE]
    ELSE [a EXCEPT !.indexes[m] =
            [t \in DOMAIN @ |-> IF t = tag THEN Removed ELSE @[t]]]

OverrideTag(a, m, tag, value) ==
    IF a.stop THEN a
    ELSE IF value = Malformed THEN [a EXCEPT !.stop = TRUE]
    ELSE LET b == AddStringExpression(a, value)
         IN  [b EXCEPT
                !.tags[m] = IF tag \in DOMAIN a.indexes[m] THEN @ ELSE Append(@, tag),
                !.indexes[m] = [t \in DOMAIN @ \cup {tag} |->
                                  IF t = tag THEN IndexOf(b, value) ELSE @[t]]]

\* All the tags an override removes from, or sets in, a factory.
RemoveTags(a, m, tags) == FoldLeft(LAMBDA b, tag : RemoveTag(b, m, tag), a, tags)
OverrideTags(a, m, dimensions) ==
    FoldLeft(LAMBDA b, d : OverrideTag(b, m, d.tag, d.value), a, dimensions)

\* Mutant of OverrideFactory: removals after the overrides.
OverrideFactoryRemovingLast(a, m, o) ==
    IF a.stop \/ o.name \notin {"", m} THEN a
    ELSE IF o.drop THEN [a EXCEPT !.factories = Restrict(@, DOMAIN @ \ {m})]
    ELSE RemoveTags(OverrideTags(a, m, o.dimensions), m, o.remove)

\* One override applied to one factory.
OverrideFactory(a, m, o) ==
    IF a.stop \/ o.name \notin {"", m} THEN a
    ELSE IF o.drop THEN [a EXCEPT !.factories = Restrict(@, DOMAIN @ \ {m})]
    ELSE OverrideTags(RemoveTags(a, m, o.remove), m, o.dimensions)

\* One override applied to the factories.  The order of their unordered_map is not
\* specified; here it is that of FoldSet.  It decides only which factories a
\* malformed override has reached when it ends the loop, and the proofs do not
\* use it.
OverrideFactories(a, o) ==
    FoldSet(LAMBDA m, b : OverrideFactory(b, m, o), a, DOMAIN a.factories)

Override(a, o) == IF ~ o.object THEN [a EXCEPT !.stop = TRUE] ELSE OverrideFactories(a, o)

OverrideAll(a, overrides) == FoldLeft(Override, a, overrides)

----------------------------------------------------------------------------
\* What the overrides begin with: the default tags lead to the standard labels.
StandardIndex(tag) == SelectInSeq(DefaultTags, LAMBDA d : d = tag)

NoOverrides(factories, next) ==
    [stop |-> FALSE,
     factories |-> factories,
     tags |-> [m \in DOMAIN factories |-> InitialTags(m)],
     indexes |-> [m \in DOMAIN factories |->
                    [t \in ToSet(InitialTags(m)) |-> StandardIndex(t)]],
     expressions |-> <<>>,
     next |-> next]

\* The stats of the factories that are left, with the tags that are.
KeptTags(a, m) ==
    FoldLeft(LAMBDA kept, t : IF a.indexes[m][t] = Removed THEN kept ELSE Append(kept, t),
             <<>>, a.tags[m])

StatGens(a) ==
    {[name |-> m,
      recurrent |-> a.factories[m].recurrent,
      protocols |-> a.factories[m].protocols,
      extractor |-> a.factories[m].extractor,
      tags |-> KeptTags(a, m),
      indexes |-> [i \in DOMAIN KeptTags(a, m) |-> a.indexes[m][KeptTags(a, m)[i]]]]
     : m \in DOMAIN a.factories}

\* initializeDimensions: the plugin's stats_, expressions_ and int_expressions_,
\* and the next token of the host.  A part that is malformed ends its own loop
\* and is logged; what was processed before it stays.
InitializeDimensions(config, next) ==
    LET accepted == Accepted(config.definitions)
        a == OverrideAll(NoOverrides(Factories(accepted, next), next + Len(accepted)),
                         config.metrics)
    IN  [stats |-> StatGens(a),
         expressions |-> a.expressions,
         ints |-> next .. next + Len(accepted) - 1,
         next |-> a.next]

\* Before the first configuration.
Unconfigured == [stats |-> {}, expressions |-> <<>>, ints |-> {}]

=============================================================================
