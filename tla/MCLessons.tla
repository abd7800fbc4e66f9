----------------------------- MODULE MCLessons -----------------------------
(* Instances of Lessons: a short and a long wording, runs of one           *)
(* organization or of two.                                                 *)
EXTENDS Lessons, TLC

CONSTANTS r1, r2, o1, o2, n1, n2, h1

Short(names) == [len |-> 1, names |-> names]
Long(names)  == [len |-> 2, names |-> names]

TwoLengths == 1 .. 2

\* One run of each organization.
OneEach      == (r1 :> o1) @@ (r2 :> o2)
\* Two of the first.
TwoOfOne     == (r1 :> o1) @@ (r2 :> o1)

\* Runs of one directory, or of the service, which gives each a home.
SharedHome   == [p \in Runs \cup Operators |-> h1]
Homely       == Runs \cup Operators
OwnHomes     == [p \in Runs \cup Operators |-> p]

NoNames      == [r \in Runs |-> {}]
Nameless     == [r \in Runs |-> {Short({}), Long({})}]
OneWording   == [r \in Runs |-> {Short({})}]

\* The scope of each lists another person; each run's wordings name that person.
OwnNames     == (r1 :> {n1}) @@ (r2 :> {n2})
Naming       == [r \in Runs |-> {Short(OwnNames[r]), Long(OwnNames[r])}]
=============================================================================
