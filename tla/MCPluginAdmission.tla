-------------------------- MODULE MCPluginAdmission ---------------------------
EXTENDS PluginAdmission, TLC

CONSTANTS c1, c2, c3, c4

CallSymmetry == Permutations(Calls)

Op(wrap, effect) == [wrap |-> wrap, effect |-> effect]

\* One versioned write and a reply.
Counter == {<<Op("plain", "swap"), Op("plain", "reply")>>}

\* Every kind of operation before and after one that may have an effect.
Mixed == {<<Op("plain", "act"), Op("plain", "swap")>>,
          <<Op("guarded", "swap"), Op("plain", "act"), Op("plain", "reply")>>,
          <<Op("best", "swap"), Op("guarded", "remove")>>,
          <<Op("plain", "put"), Op("best", "drop")>>} \cup Counter
=============================================================================
