------------------------------- MODULE MCMeter --------------------------------
(* Small instances of Meter: two processes with a Meter each, one key.     *)
EXTENDS Meter, TLC

CONSTANTS a, b, m, n, k1

TwoWorkers == {a, b}
TwoMeters == {m, n}
Apart == (a :> m) @@ (b :> n)
Exchange == {(a :> b) @@ (b :> a) @@ (m :> n) @@ (n :> m)}
OneKey == {k1}
Active(cap) == [standing |-> "active", cap |-> cap]
Revoked == [standing |-> "revoked", cap |-> 3]
SomeEntries == {Active(3), Active(Unlimited), Active(NoCap), Revoked}
TwoEntries == {Active(3), Revoked}
=============================================================================
