--------------------------- MODULE MCAttributeGen ---------------------------
(* AttributeGen for TLC: configurations with several matches, one attribute *)
(* generated twice, a default, and one refused halfway.                     *)
EXTENDS AttributeGen

If(condition, value) == [condition |-> condition, value |-> value]

Attribute(phase, output, match) == [phase |-> phase, output |-> output, match |-> match]

Unparsable == [json |-> FALSE, attributes |-> <<>>]

Classes ==
    [json |-> TRUE,
     attributes |-> <<Attribute("OnLog", "class", <<If("e1", "c1"), If("e2", "c2")>>),
                      Attribute("OnRequest", "operation", <<If("e2", "o1")>>),
                      Attribute("OnLog", "class", <<If("e3", "c3")>>)>>]

Default ==
    [json |-> TRUE,
     attributes |-> <<Attribute("OnRequest", "class", <<If("e1", "c1"), If("", "c2")>>),
                      Attribute("OnLog", "operation", <<If("e3", "o2")>>)>>]

Halfway ==
    [json |-> TRUE,
     attributes |-> <<Attribute("OnLog", "class", <<If("", "c1")>>),
                      Attribute("OnLog", "operation", <<If("e1", "o1"), If("bad", "o2")>>),
                      Attribute("OnLog", "class", <<If("e2", "c3")>>)>>]

MCConfig == {Unparsable, Classes, Default, Halfway}
=============================================================================
