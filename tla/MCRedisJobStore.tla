--------------------------- MODULE MCRedisJobStore ---------------------------
(* One job, two clients: every interleaving of any two store calls.          *)
EXTENDS RedisJobStore, TLC

Symmetry == Permutations(Clients)

=============================================================================
