----------------------------- MODULE MCHandshake -----------------------------
(* Two parties on a few lanes, each with the steps that meet in it. *)
EXTENDS Handshake
CONSTANTS shop, eur, x1, x2, h1, h2, Hello

\* An open mandate and a sealed one whose cap cannot be read; of the terms one is over the cap.
MCMandates == {[merchant |-> shop, currency |-> eur, cap |-> 1, from |-> 2, until |-> Null, sealed |-> FALSE],
               [merchant |-> shop, currency |-> eur, cap |-> Null, from |-> Null, until |-> 2, sealed |-> TRUE]}
MCTerms == {[seller |-> shop, currency |-> eur, total |-> 1], [seller |-> shop, currency |-> eur, total |-> 2]}

Lane(first, steps, ids, details, bought, sold, harms, pins) ==
  [first |-> first, steps |-> steps, ids |-> ids, details |-> details, rows |-> [buyer |-> bought, seller |-> sold],
   mishaps |-> harms, pins |-> pins]
\* A row of something else, alike on both ledgers.
Greeting == <<Body(Null, "note", Null, Shared(Hello, Null), Null, NoCite)>>

MCLanes == {Lane(<<>>, {"mandate", "commit"}, {}, {}, 3, 2, 1, FALSE),
            Lane(<<>>, {"commit", "pay"}, {}, {x1}, 2, 2, 1, TRUE),
            Lane(<<>>, {"ship", "cancel"}, {}, {x1}, 3, 3, 1, FALSE),
            Lane(Greeting, {"deliver", "dispute"}, {}, {x1}, 3, 3, 1, TRUE),
            Lane(<<>>, {"pay"}, {TheDeal}, {x1}, 2, 2, 1, FALSE),
            Lane(<<>>, {"dispute"}, {h1}, {x1}, 3, 1, 1, FALSE),
            Lane(Greeting, {}, {h1, h2}, {x1}, 3, 2, 1, FALSE),
            Lane(<<>>, {}, {h1}, {x1, x2}, 3, 1, 1, FALSE),
            Lane(<<>>, {}, {h1}, {x1}, 2, 1, 2, FALSE)}
=============================================================================
