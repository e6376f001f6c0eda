------------------------------- MODULE MCPack -------------------------------
(* Pack over three kinds of log: of pins, of windows and of mandate rows.  Each *)
(* bounds what the others vary.                                                 *)
EXTENDS Pack
CONSTANTS ann, bob, m1, m2, x, y

What == Permutations({x, y})

Act(who, ts) == [who |-> who, ts |-> ts, evt |-> "act", names |-> Null]
Gate(evt, file) == [who |-> ann, ts |-> 0, evt |-> evt, names |-> file]
Option(agent, from, to, ns, aat, mandate, copy) ==
  [agent |-> agent, from |-> from, to |-> to, ns |-> ns, aat |-> aat,
   mandate |-> mandate, copy |-> copy]

Pinned == [bodies |-> [t \in 0..MaxTime |-> {Act(x, 0), Act(y, 0)}],
           options |-> {Option(Null, Null, Null, ns, FALSE, FALSE, Null) : ns \in {Null, Own, Alt}},
           rows |-> 2, pins |-> 2, rewrites |-> 1, folder |-> FALSE]
Windowed == [bodies |-> [t \in 0..MaxTime |-> {Act(ann, t), Act(ann, Null), Act(bob, t)}],
             options |-> {Option(ann, from, to, Null, FALSE, FALSE, Null) :
                            from \in {Null, 1}, to \in {Null, 0}}
                         \cup {Option(Null, 1, Null, Null, TRUE, FALSE, Null)},
             rows |-> 2, pins |-> 0, rewrites |-> 0, folder |-> TRUE]
Mandated == [bodies |-> [t \in 0..MaxTime |->
                           {Gate("mandate_loaded", m1), Gate("mandate_loaded", m2),
                            Gate("mandate_outside", Null), Gate("session_end", Null)}],
             options |-> {Option(ann, Null, Null, Null, FALSE, TRUE, copy) : copy \in {m1, Null}},
             rows |-> 3, pins |-> 0, rewrites |-> 0, folder |-> TRUE]

MCSubjects == {Pinned, Windowed, Mandated}
MCContent == UNION {s.bodies[t] : s \in MCSubjects, t \in 0..MaxTime}
=============================================================================
