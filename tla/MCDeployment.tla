---------------------------- MODULE MCDeployment ----------------------------
(* A server and two consumers of one parent process, two signing keys, and *)
(* the configurations of a rotation from one to the other, mistaken ones   *)
(* among them.                                                             *)
EXTENDS Deployment, TLC

CONSTANTS a, b, seedA, seedB, s1, m1, m2

\* m1 is given both resources by its parent, m2 only the database.
Injections == (s1 :> {}) @@ (m1 :> {"db", "redis"}) @@ (m2 :> {"db"})

TrueSeeds == (a :> seedA) @@ (b :> seedB)

A == [kid |-> a, seed |-> seedA]
B == [kid |-> b, seed |-> seedB]

Conf(keys, sign, knobs) == [keys |-> keys, signKeyID |-> sign, knobs |-> knobs]

Rotation == {Conf(<<A>>, Empty, TRUE), Conf(<<A, B>>, a, TRUE),
             Conf(<<A, B>>, b, TRUE), Conf(<<Nil, B>>, Empty, TRUE)}

\* No selection, one kid twice, a selection without its key, no knobs.
Mistakes == {Conf(<<A, B>>, Empty, TRUE),
             Conf(<<A, [kid |-> a, seed |-> seedB]>>, a, TRUE),
             Conf(<<A>>, b, TRUE), Conf(<<A>>, a, FALSE)}

AllConfigs == Rotation \cup Mistakes

Symmetric == Permutations(Clients)

=============================================================================
