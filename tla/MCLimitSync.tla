----------------------------- MODULE MCLimitSync -----------------------------
(* A small instance of LimitSync for TLC: two interfaces, three devices, and *)
(* room in the map for two entries.                                        *)
EXTENDS LimitSync

CONSTANTS m1, m2, m3

Four(up, down) ==
  [f \in Fields |-> CASE f = "up_v4" -> up [] f = "down_v4" -> down [] OTHER -> 0]

MCRates == {Four(2, 0), Four(1, 3), Four(3, 1)}

ScheduledFor(i, m, rate) == [iface |-> i, mac |-> m, slot |-> "night", rate |-> rate]

\* Guests limited, with a rule for one of them that is stricter in one field;
\* the same with that device whitelisted; guests disabled and the interface
\* limited; rules only, two for one device; rule and limit on the other
\* interface; a rule for another device.
Guests   == SetGuestDefault(EmptyRuntime, 1, Four(2, 0))
RuleToo  == PutRule(Guests, 0, ScheduledFor(1, m1, Four(1, 3)))
Listed   == AddGuestWhitelist(RuleToo, 1, m1)
Disabled == SetGuestDefaultEnabled(SetIfaceLimit(Guests, 1, Four(3, 1)), 1, FALSE)
TwoRules == PutRule(PutRule(EmptyRuntime, 0, ScheduledFor(1, m1, Four(3, 1))),
                    1, ScheduledFor(1, m1, Four(1, 3)))
Other    == SetIfaceLimit(PutRule(EmptyRuntime, 0, ScheduledFor(2, m1, Four(3, 1))),
                          2, Four(2, 0))

Another  == PutRule(EmptyRuntime, 0, ScheduledFor(1, m3, Four(2, 0)))

MCRuntimes == {RuleToo, Listed, Disabled, TwoRules, Other, Another}
=============================================================================
