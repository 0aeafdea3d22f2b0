------------------------------ MODULE Replica ------------------------------
(* PostgreSQL behind PrismaService: statements of prisma.write run on the   *)
(* primary, those of prisma.read on the read replica, which replays the     *)
(* commits of the primary in their order, some time later.                  *)
EXTENDS Naturals, Sequences

CONSTANT MaxLag   \* bound: commits the replica may be behind

ASSUME ReplicaAssumption == MaxLag \in Nat

(* What the database was after each commit that the replica may still have  *)
(* to replay: it shows the first of them, the primary is at the last.       *)
VARIABLE versions

write == versions[Len(versions)]
read == versions[1]

(* One statement on the primary. *)
Commit(db) ==
  /\ Len(versions) <= MaxLag
  /\ versions' = Append(versions, db)

(* Mutant: a replay that does not wait for a commit. *)
ReplayBlindly == versions' = Tail(versions)

(* Asynchronous replication.  In dev both clients have the primary's URL:  *)
(* a replica that has always replayed everything.                          *)
Replay == Len(versions) > 1 /\ versions' = Tail(versions)
=============================================================================
