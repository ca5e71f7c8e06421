----------------------------- MODULE MCBackends -----------------------------
(* A writer and a loader of two keys, in one process or in two.  The keys  *)
(* are interchangeable: no definition tells one from another.              *)
EXTENDS Backends, TLC

MCSpecs ==
    {"None", "memory", "sqlite", "sqlite:path", "redis", "redis://", "rediss://",
     "SQLiteBackend object", "RedisBackend object", "postgres"}

Symmetry == Permutations(Keys)
=============================================================================
