----------------------------- MODULE MCAdminApi ------------------------------
EXTENDS AdminApi

CONSTANTS u1, g1, q1, q2, q3, w1, w2

Call(r, u, route) == [by |-> r, user |-> u, route |-> route]

\* Configurations that managers send: the defaults, a limit above the range, no
\* limit and warnings off, no reminders in channels.
Given == [p \in Plugins |->
    IF p = "moderation"
    THEN {[Default(p) EXCEPT !.limit = 21, !.threshold = 1],
          [Default(p) EXCEPT !.limit = 0, !.commands = [warn |-> FALSE]]}
    ELSE {Default(p), [Default(p) EXCEPT !.channels = FALSE]}]
NothingGiven == [p \in Plugins |-> {}]

\* A manager who is signed in, and nothing that goes wrong.
Quiet == [standing |-> "manager", owner |-> None, signedIn |-> u1, guild |-> g1,
          authConfigured |-> TRUE, configs |-> NothingGiven,
          cached |-> FALSE, may |-> {}, calls |-> {}]

AdminCasts == {
    \* Signing in, with a redirect that comes twice.
    [Quiet EXCEPT !.signedIn = None, !.may = {"restart", "faults"},
        !.calls = {Call(q1, u1, "login"), Call(q2, u1, "callback"),
                   Call(q3, u1, "callback"), Call(q3, u1, "login")}],
    [Quiet EXCEPT !.authConfigured = FALSE, !.signedIn = None,
        !.calls = {Call(q1, u1, "login"), Call(q2, u1, "me")}],
    \* The guild list, while rights are lost and Discord limits the rate.
    [Quiet EXCEPT !.may = {"time", "demote"}, !.cached = TRUE,
        !.calls = {Call(q1, u1, "slowmode"), Call(q2, u1, "guilds")}],
    [Quiet EXCEPT !.may = {"time", "demote"},
        !.calls = {Call(q1, u1, "guilds"), Call(q2, u1, "stickers create")}],
    [Quiet EXCEPT !.may = {"demote", "hang up"},
        !.calls = {Call(q1, u1, "guilds"), Call(q2, u1, "roles edit"),
                   Call(q3, u1, "channels")}],
    [Quiet EXCEPT !.may = {"time", "restart"},
        !.calls = {Call(q1, u1, "logout"), Call(q2, u1, "me"),
                   Call(q3, u1, "dashboard")}],
    \* Warnings by several managers at once, and changes of the configuration.
    [Quiet EXCEPT !.may = {"faults"}, !.cached = TRUE,
        !.calls = {Call(q1, u1, "warn"), Call(q2, u1, "warn"),
                   Call(q3, u1, "unwarn"), Call(q3, u1, "warn")}],
    [Quiet EXCEPT !.configs = Given, !.cached = TRUE,
        !.calls = {Call(q1, u1, "config"), Call(q2, u1, "warn"),
                   Call(q3, u1, "config"), Call(q3, u1, "warn")}],
    \* The owner.
    [Quiet EXCEPT !.owner = u1, !.may = {"faults", "restart"},
        !.calls = {Call(q1, u1, "scaffold"), Call(q2, u1, "sign"),
                   Call(q2, u1, "settings"), Call(q3, u1, "scaffold"),
                   Call(q3, u1, "plugins install")}]}
=============================================================================
