------------------------------- MODULE MCRoster -------------------------------
(* Small instances of Roster: two or three processes, one or two keys.      *)
EXTENDS Roster, TLC

CONSTANTS a, b, c, k1, k2

TwoAdmins == {a, b}
ThreeAdmins == {a, b, c}
OneKey == {k1}
TwoKeys == {k1, k2}
RevokeAndAdd == {[verb |-> "revoke", key |-> k1], [verb |-> "add", key |-> k2]}

LiveSpec == RosterSpec /\ Fair({a})
LiveAdminReturns == CallReturns({a})
=============================================================================
