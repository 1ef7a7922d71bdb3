--------------------------------- MODULE Sql ---------------------------------
(***************************************************************************)
(* What the services ask of PostgreSQL and SQLAlchemy again and again.       *)
(***************************************************************************)
EXTENDS Integers, FiniteSets

(* u is what SELECT max(...) yields over S, 0 for no row. *)
IsMax(u, S) == u \in S \union {0} /\ \A n \in S : n <= u

(* The first limit members of S in ascending order: ORDER BY ... LIMIT. *)
First(S, limit) == {m \in S : Cardinality({n \in S : n <= m}) <= limit}

(* What a column holds after the commit of a session that had read seen in it *)
(* and set it to new: the ORM writes only what was changed in memory.         *)
Written(current, seen, new) == IF new = seen THEN current ELSE new
=============================================================================
