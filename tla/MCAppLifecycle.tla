--------------------------- MODULE MCAppLifecycle ----------------------------
EXTENDS AppLifecycle

CONSTANTS p1, p2, r1, a, b, c

\* Builds: the first release, the second, one whose second migration was edited,
\* and one with a destructive migration in the middle.
File(sum) == [checksum |-> sum, kind |-> "normal"]
Release1 == <<File(a)>>
Release2 == <<File(a), File(b)>>
Edited == <<File(a), File(c)>>
Destructive == <<File(a), [checksum |-> b, kind |-> "destructive"], File(c)>>

\* Shells: a complete environment, one process per role, nothing, mistakes.
Complete == [Unset EXCEPT !.token = TRUE, !.admin = TRUE, !.ops = TRUE, !.dashboard = TRUE]
Control == [Complete EXCEPT !.roles = {"control"}, !.token = None, !.prod = TRUE]
Gateway == [Complete EXCEPT !.roles = {"gateway"}, !.admin = None, !.ops = None]
Mistakes == [Complete EXCEPT !.prod = TRUE, !.unsigned = TRUE]
Malformed == [Complete EXCEPT !.malformed = TRUE]

LifecycleCasts == {
    [commands |-> {"run", "migrate up"}, shells |-> {Complete}, launches |-> 3,
     builds |-> {Release1, Release2, Edited, Destructive}, may |-> {"crashes"}],
    [commands |-> {"run"}, shells |-> {Complete}, builds |-> {Release2},
     launches |-> 2, may |-> {"signals", "requests", "faults"}],
    [commands |-> {"run", "plugins", "migrate status"}, builds |-> {Release1},
     shells |-> {Control, Gateway, Mistakes}, launches |-> 2,
     may |-> {"signals", "crashes", "trusted keys"}],
    [commands |-> {"init", "doctor", "dev"}, shells |-> {Unset, Control, Malformed},
     builds |-> {<<>>}, launches |-> 3, may |-> {"faults"}]}
=============================================================================
