----------------------------- MODULE MCRedisPool -----------------------------
(* RedisPool on three goroutines: pools that wait and pools that refuse, with  *)
(* a limit, with a shorter idle list than the limit, and without either.       *)
EXTENDS RedisPool

Pool(idles, actives, waits, times, tests) ==
    [MaxIdle |-> idles, MaxActive |-> actives, Wait |-> waits,
     IdleTimeout |-> times, TestOnBorrow |-> tests]

MCConfigs == {
    Pool(1, 2, TRUE, FALSE, TRUE),
    Pool(1, 1, TRUE, TRUE, TRUE),
    Pool(0, 1, TRUE, FALSE, FALSE),
    Pool(1, 1, FALSE, TRUE, FALSE),
    Pool(1, 0, FALSE, FALSE, FALSE) }
=============================================================================
