----------------------------- MODULE MCAutotune -----------------------------
EXTENDS Autotune

NoGroup       == [present |-> FALSE, memory |-> 0, quota |-> 0, period |-> 0]
Limited(m, q) == [present |-> TRUE, memory |-> m, quota |-> q, period |-> 100]
V2(mb, q)     == [v2 |-> Limited(mb * 1024, q), v1 |-> NoGroup, memory |-> 8388608, cpus |-> 8]

(* Every megabyte up to 520, where all profiles but heavy have their       *)
(* minimum, then heavy's own and the steps of the InnoDB pool.             *)
Sizes  == 1..520 \cup {640, 767, 768, 1024, 1055, 1056, 1366, 2047, 2048, 2731, 4096, 5461, 8192}
Quotas == {0, 50, 200}

MCContainers ==
    {V2(mb, q) : mb \in Sizes, q \in Quotas}
    \cup {[V2(0, q) EXCEPT !.v1 = g] : q \in {0, 200}, g \in {NoGroup, Limited(512 * 1024, 100), Limited(2^30, -1)}}
    \cup {[V2(512, 0) EXCEPT !.v2.memory = 900], [V2(512, -100) EXCEPT !.v2.period = 0],
           [V2(512, 0) EXCEPT !.v2 = NoGroup, !.memory = 0], V2(2^20, 100)}

MCResized(c) ==
    LET mb == c.v2.memory \div 1024
    IN  IF c.v1.present THEN {} ELSE {V2(b, c.v2.quota) : b \in {0, 1, mb + 1, Min({2 * mb, 16384})}}

Broken == [pm |-> "dynamic", worker |-> 0, opcache |-> 0, least |-> 1, most |-> 0, spareMin |-> 0,
           spareMax |-> 0, start |-> 0, usage |-> 80, reserved |-> 128]
MCRegistered == [broken |-> Broken, spot |-> [Broken EXCEPT !.worker = 64, !.pm = "ondemand"]]

Fpm(p, t, s) == [profile |-> p, flag |-> 0, env |-> 0, global |-> t, strict |-> s, engine |-> "", wake |-> ""]
Engine(e, w) == [profile |-> "", flag |-> 0, env |-> 0, global |-> 0, strict |-> FALSE, engine |-> e, wake |-> w]

MCAsks ==
    {Fpm(p, t, s) : p \in {"dev", "light", "medium", "heavy", "bursty", "spot"}, t \in {0, 105}, s \in BOOLEAN}
    \cup {Fpm(p, 0, FALSE) : p \in {"broken", "none"}}
    \cup {[Fpm("light", 60, FALSE) EXCEPT !.flag = 20], [Fpm("light", 60, FALSE) EXCEPT !.env = -5]}
    \cup {Engine(e, w) : e \in {"percona", "valkey"}, w \in {"resident", "warm"}}
    \cup {Engine("postgres", "warm"), Engine("unknown", ""), Engine("valkey", "unknown"),
           [Fpm("dev", 0, FALSE) EXCEPT !.engine = "valkey"]}
=============================================================================
