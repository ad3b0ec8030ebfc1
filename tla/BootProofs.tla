----------------------------- MODULE BootProofs -----------------------------
(***************************************************************************)
(* TLAPS proofs about what a boot makes of the container and of the file:  *)
(* Autotune, for every memory limit, every number of CPUs, every threshold *)
(* and every profile, and ConfigLoad, for every file, every environment    *)
(* and every definition sent over the API.                                 *)
(***************************************************************************)
EXTENDS Autotune, ConfigLoad, TLAPS, FiniteSetTheorems, WellFoundedInduction

-----------------------------------------------------------------------------
(* Integer division.                                                       *)
LEMMA DivFacts ==
    ASSUME NEW a \in Int, NEW w \in Nat \ {0}
    PROVE  /\ a \div w \in Int
           /\ w * (a \div w) <= a
           /\ a < w * (a \div w) + w
<1>1. a \div w \in Int /\ a % w \in 0..(w-1) /\ a = w * (a \div w) + (a % w)
    OBVIOUS
<1> QED BY <1>1

(* A quotient grows with its dividend.                                     *)
LEMMA DivGrows ==
    ASSUME NEW a \in Int, NEW b \in Int, a <= b, NEW w \in Nat \ {0}
    PROVE  a \div w <= b \div w
<1> DEFINE x == a \div w
           y == b \div w
<1>1. x \in Int /\ y \in Int /\ w * x <= a /\ b < w * y + w
    BY DivFacts
<1> HIDE DEF x, y
<1>2. SUFFICES ASSUME x >= y + 1 PROVE FALSE
    BY <1>1 DEF x, y
<1>3. w * x >= w * (y + 1)
    BY <1>1, <1>2
<1>4. w * (y + 1) = w * y + w
    BY <1>1
<1> QED BY <1>1, <1>3, <1>4

(* n fits into a quotient exactly if n divisors fit into the dividend.     *)
LEMMA DivBounds ==
    ASSUME NEW a \in Int, NEW w \in Nat \ {0}, NEW n \in Int
    PROVE  /\ n <= a \div w <=> n * w <= a
           /\ a >= 0 => a \div w >= 0
<1> DEFINE x == a \div w
<1>1. x \in Int /\ w * x <= a /\ a < w * x + w
    BY DivFacts
<1> HIDE DEF x
<1>2. ASSUME n <= x PROVE n * w <= a
    <2>1. n * w <= x * w /\ x * w = w * x
        BY <1>1, <1>2
    <2> QED BY <1>1, <2>1
<1>3. ASSUME n >= x + 1 PROVE n * w > a
    <2>1. n * w >= (x + 1) * w /\ (x + 1) * w = w * x + w
        BY <1>1, <1>3
    <2> QED BY <1>1, <2>1
<1>4. n <= x \/ n >= x + 1
    BY <1>1
<1>5. ASSUME a >= 0 PROVE x >= 0
    <2>1. SUFFICES ASSUME x <= -1 PROVE FALSE
        BY <1>1
    <2>2. w * x <= w * (-1) /\ w * (-1) = -w
        BY <1>1, <2>1
    <2> QED BY <1>1, <1>5, <2>2
<1> QED BY <1>1, <1>2, <1>3, <1>4, <1>5 DEF x

(* What Max and Min of a few numbers are.                                  *)
LEMMA TwoMaxMin ==
    ASSUME NEW a \in Int, NEW b \in Int
    PROVE  /\ Max({a, b}) = IF a >= b THEN a ELSE b
           /\ Min({a, b}) = IF a <= b THEN a ELSE b
BY DEF Max, Min
-----------------------------------------------------------------------------
(* The products with a float64.                                            *)
LEMMA TruncatedFacts ==
    ASSUME NEW n \in Nat, NEW t \in Nat \ {0}, NEW soft \in Truncated(n, t)
    PROVE  soft \in Int /\ (t <= 100 => soft <= n)
<1>1. PICK x \in Nat : x = n * t
    OBVIOUS
<1>2. soft = x \div 100 \/ soft = x \div 100 - 1
    BY <1>1 DEF Truncated
<1>3. t <= 100 => x <= n * 100
    BY <1>1
<1> QED BY <1>2, <1>3

(* A higher limit never has a lower budget, on whichever side of an        *)
(* integer the products fall.                                              *)
LEMMA TruncatedGrows ==
    ASSUME NEW m \in Nat, NEW n \in Nat, m < n, NEW t \in Nat \ {0},
           NEW less \in Truncated(m, t), NEW more \in Truncated(n, t)
    PROVE  less <= more
<1>1. PICK x \in Nat, y \in Nat : x = m * t /\ y = n * t
    OBVIOUS
<1>2. x < y
    <2>1. m + 1 <= n
        OBVIOUS
    <2>2. (m + 1) * t <= n * t /\ (m + 1) * t = m * t + t
        BY <2>1
    <2> QED BY <1>1, <2>2
<1>3. less \in Int /\ less <= x \div 100
    BY <1>1 DEF Truncated
<1>4. more = y \div 100 \/ (y % 100 = 0 /\ more = y \div 100 - 1)
    BY <1>1 DEF Truncated, Inexact
<1> QED BY <1>2, <1>3, <1>4

(* A share of the workers (math.Ceil of a ratio up to one) is at most all  *)
(* of them.                                                                *)
LEMMA CeiledFacts ==
    ASSUME NEW n \in Nat \ {0}, NEW percent \in 0..100, NEW share \in Ceiled(n, percent)
    PROVE  share \in Int /\ share <= n
<1>1. PICK x \in Nat : x = n * percent
    OBVIOUS
<1>2. share \in Int
    BY <1>1 DEF Ceiled
<1>3. x <= n * 100
    BY <1>1
<1>4. CASE ~Inexact(n, percent)
    BY <1>1, <1>3, <1>4 DEF Ceiled
<1>5. CASE Inexact(n, percent)
    <2>1. percent # 100 /\ x % 100 = 0
        BY <1>1, <1>5 DEF Inexact
    <2>2. x <= n * 99
        BY <1>1, <2>1
    <2>3. x < n * 100
        BY <2>2
    <2>4. share = (x + 99) \div 100 \/ share = (x + 99) \div 100 + 1
        BY <1>1, <1>5 DEF Ceiled
    <2> QED BY <2>1, <2>3, <2>4
<1> QED BY <1>2, <1>4, <1>5

-----------------------------------------------------------------------------
(* sizeWorkers.                                                            *)
Sane(p) == p \in ProfileConfig /\ p.worker > 0 /\ p.usage > 0

(* What the types of a profile that GetConfig accepts come to.             *)
LEMMA ProfileFacts ==
    ASSUME NEW p, Sane(p)
    PROVE  /\ p.worker \in Nat \ {0} /\ p.least \in Nat \ {0} /\ p.most \in Int /\ overhead(p) \in Int
           /\ p.spareMin \in 0..100 /\ p.spareMax \in 0..100 /\ p.start \in 0..100
           /\ p.usage \in Nat \ {0}
BY DEF Sane, ProfileConfig, overhead

(* hardMax is the largest number of workers that fits: n workers fit       *)
(* exactly if n is at most hardMax.                                        *)
LEMMA HardMaxFacts ==
    ASSUME NEW p, Sane(p), NEW limit \in Int
    PROVE  /\ hardMax(limit, p) \in Nat
           /\ \A n \in Nat \ {0} : n <= hardMax(limit, p) <=> n * p.worker + overhead(p) <= limit
<1>1. PICK w \in Nat \ {0}, o \in Int : w = p.worker /\ o = overhead(p)
    BY ProfileFacts
<1>2. CASE limit > o
    <2>1. hardMax(limit, p) = (limit - o) \div w /\ limit - o \in Int /\ limit - o >= 0
        BY <1>1, <1>2 DEF hardMax
    <2>2. (limit - o) \div w \in Int /\ (limit - o) \div w >= 0
        BY <2>1, DivFacts, DivBounds
    <2>3. \A n \in Nat \ {0} : n <= (limit - o) \div w <=> n * w <= limit - o
        BY <2>1, DivBounds
    <2>4. \A n \in Nat \ {0} : n * w \in Int
        OBVIOUS
    <2> QED BY <1>1, <2>1, <2>2, <2>3, <2>4
<1>3. CASE ~(limit > o)
    <2>1. hardMax(limit, p) = 0
        BY <1>1, <1>3 DEF hardMax
    <2>2. \A n \in Nat \ {0} : n * w \in Int /\ n * w > 0
        OBVIOUS
    <2> QED BY <1>1, <1>3, <2>1, <2>2
<1> QED BY <1>2, <1>3

(* A higher limit holds as many workers or more.                           *)
LEMMA HardMaxGrows ==
    ASSUME NEW p, Sane(p), NEW a \in Int, NEW b \in Int, a <= b
    PROVE  hardMax(a, p) <= hardMax(b, p)
<1>1. hardMax(a, p) \in Nat /\ hardMax(b, p) \in Nat
    BY HardMaxFacts
<1>2. PICK n : n = hardMax(a, p)
    OBVIOUS
<1>3. CASE n = 0
    BY <1>1, <1>2, <1>3
<1>4. CASE n # 0
    <2>1. n \in Nat \ {0} /\ n <= hardMax(a, p)
        BY <1>1, <1>2, <1>4
    <2>2. n * p.worker + overhead(p) <= a
        BY <2>1, HardMaxFacts
    <2>3. n * p.worker + overhead(p) \in Int
        BY <2>1, ProfileFacts
    <2>4. n * p.worker + overhead(p) <= b
        BY <2>2, <2>3
    <2> QED BY <1>2, <2>1, <2>4, HardMaxFacts
<1> QED BY <1>3, <1>4

(* Under every cap the desired count grows with the budget, it is at least *)
(* the profile's, and above that it is what the budget holds.              *)
LEMMA DesiredFacts ==
    ASSUME NEW p, Sane(p), NEW cpus \in Int, NEW soft \in Int
    PROVE  /\ Desired(cpus, soft, p) \in Nat
           /\ Desired(cpus, soft, p) >= p.least
           /\ Desired(cpus, soft, p) = p.least \/ Desired(cpus, soft, p) <= hardMax(soft, p)
           /\ \A more \in Int : soft <= more => Desired(cpus, soft, p) <= Desired(cpus, more, p)
<1>1. PICK l \in Nat \ {0}, m \in Int : l = p.least /\ m = p.most
    BY ProfileFacts
<1>2. PICK k \in Int : k = (cpus * 5) \div 2
    OBVIOUS
<1> DEFINE capped(f) == IF k > 1 /\ f > k THEN k ELSE f
           limited(f) == IF m > 0 /\ capped(f) > m THEN m ELSE capped(f)
           least(f) == IF limited(f) >= l THEN limited(f) ELSE l
<1>3. ASSUME NEW s \in Int PROVE Desired(cpus, s, p) = least(hardMax(s, p))
    <2>1. hardMax(s, p) \in Int
        BY <1>3, HardMaxFacts
    <2>2. limited(hardMax(s, p)) \in Int
        BY <2>1
    <2>3. Desired(cpus, s, p) = Max({limited(hardMax(s, p)), l})
        BY <1>1, <1>2 DEF Desired, hardMax
    <2> HIDE DEF limited
    <2> QED BY <2>2, <2>3, TwoMaxMin
<1>4. \A f, g \in Nat : /\ least(f) \in Nat /\ least(f) >= l /\ (least(f) = l \/ least(f) <= f)
                        /\ f <= g => least(f) <= least(g)
    OBVIOUS
<1> HIDE DEF least
<1>5. hardMax(soft, p) \in Nat
    BY HardMaxFacts
<1>6. ASSUME NEW more \in Int, soft <= more PROVE Desired(cpus, soft, p) <= Desired(cpus, more, p)
    <2>1. hardMax(more, p) \in Nat /\ hardMax(soft, p) <= hardMax(more, p)
        BY <1>6, HardMaxFacts, HardMaxGrows
    <2> QED BY <1>3, <1>4, <1>5, <1>6, <2>1
<1>7. /\ Desired(cpus, soft, p) \in Nat /\ Desired(cpus, soft, p) >= l
      /\ Desired(cpus, soft, p) = l \/ Desired(cpus, soft, p) <= hardMax(soft, p)
    BY <1>3, <1>4, <1>5
<1> QED BY <1>1, <1>6, <1>7
(* The pool fits the real limit or is a single over-committed worker; it   *)
(* has the profile's minimum or is refused, and that only in strict mode   *)
(* and for a limit below the minimum's, if the budget is within the limit. *)
LEMMA SizeFacts ==
    ASSUME NEW p, Sane(p), NEW limit \in Nat, NEW cpus \in Int, NEW soft \in Int, NEW strict \in BOOLEAN
    PROVE  LET s == sizeWorkers(limit, cpus, soft, p, strict) IN
           /\ s.children \in Nat \ {0}
           /\ s.children * p.worker + overhead(p) <= limit \/ (s.children = 1 /\ s.overcommitted)
           /\ strict /\ s.ok => s.children >= p.least
           /\ ~s.ok => strict /\ (soft <= limit => limit < smallestBootableLimit(p))
<1> DEFINE s == sizeWorkers(limit, cpus, soft, p, strict)
<1>1. PICK d \in Nat, h \in Nat : d = Desired(cpus, soft, p) /\ h = hardMax(limit, p)
    BY DesiredFacts, HardMaxFacts
<1>2. p.least \in Nat \ {0} /\ d >= p.least /\ (d = p.least \/ d <= hardMax(soft, p))
    BY <1>1, DesiredFacts, ProfileFacts
<1>3. s.children = Max({1, Min({d, h})}) /\ (s.ok <=> d <= h \/ ~strict) /\ (s.overcommitted <=> d > h /\ h = 0)
    BY <1>1 DEF sizeWorkers
<1>4. Min({d, h}) = (IF d <= h THEN d ELSE h) /\ Min({d, h}) \in Int
    BY TwoMaxMin
<1>5. Max({1, Min({d, h})}) = IF 1 >= Min({d, h}) THEN 1 ELSE Min({d, h})
    BY <1>4, TwoMaxMin
<1> HIDE DEF s
<1>6. /\ s.children \in Nat \ {0}
      /\ s.children <= h \/ (s.children = 1 /\ h = 0)
      /\ d <= h => s.children >= d
    BY <1>2, <1>3, <1>4, <1>5
<1>7. s.children * p.worker + overhead(p) <= limit \/ (s.children = 1 /\ s.overcommitted)
    <2>1. CASE s.children <= h
        BY <1>1, <1>6, <2>1, HardMaxFacts
    <2>2. CASE s.children = 1 /\ h = 0
        BY <1>2, <1>3, <2>2
    <2> QED BY <1>6, <2>1, <2>2
<1>8. ASSUME d > h, soft <= limit PROVE limit < smallestBootableLimit(p)
    <2>1. hardMax(soft, p) \in Nat /\ hardMax(soft, p) <= h
        BY <1>1, <1>8, HardMaxFacts, HardMaxGrows
    <2>2. d = p.least /\ ~(p.least <= hardMax(limit, p))
        BY <1>1, <1>2, <1>8, <2>1
    <2>3. ~(p.least * p.worker + overhead(p) <= limit)
        BY <1>2, <2>2, HardMaxFacts
    <2>4. p.least * p.worker + overhead(p) \in Int
        BY ProfileFacts
    <2> QED BY <2>3, <2>4 DEF smallestBootableLimit
<1>9. strict /\ s.ok => s.children >= p.least
    BY <1>2, <1>3, <1>6
<1>10. ~s.ok => strict /\ (soft <= limit => limit < smallestBootableLimit(p))
    BY <1>3, <1>8
<1> QED BY <1>6, <1>7, <1>9, <1>10 DEF s

(* More memory and a budget that is not lower never make for fewer workers. *)
LEMMA SizeGrows ==
    ASSUME NEW p, Sane(p), NEW limit \in Nat, NEW higher \in Nat, limit <= higher, NEW cpus \in Int,
           NEW soft \in Int, NEW more \in Int, soft <= more, NEW strict \in BOOLEAN
    PROVE  sizeWorkers(limit, cpus, soft, p, strict).children <= sizeWorkers(higher, cpus, more, p, strict).children
<1>1. PICK d \in Nat, h \in Nat : d = Desired(cpus, soft, p) /\ h = hardMax(limit, p)
    BY DesiredFacts, HardMaxFacts
<1>2. PICK e \in Nat, g \in Nat : e = Desired(cpus, more, p) /\ g = hardMax(higher, p)
    BY DesiredFacts, HardMaxFacts
<1>3. d <= e /\ h <= g
    BY <1>1, <1>2, DesiredFacts, HardMaxGrows
<1>4. sizeWorkers(limit, cpus, soft, p, strict).children = Max({1, Min({d, h})})
    BY <1>1 DEF sizeWorkers
<1>5. sizeWorkers(higher, cpus, more, p, strict).children = Max({1, Min({e, g})})
    BY <1>2 DEF sizeWorkers
<1>6. PICK x : x = Min({d, h}) /\ x = IF d <= h THEN d ELSE h
    BY TwoMaxMin
<1>7. PICK y : y = Min({e, g}) /\ y = IF e <= g THEN e ELSE g
    BY TwoMaxMin
<1>8. x \in Int /\ y \in Int /\ x <= y
    BY <1>3, <1>6, <1>7
<1>9. Max({1, x}) = (IF 1 >= x THEN 1 ELSE x) /\ Max({1, y}) = (IF 1 >= y THEN 1 ELSE y)
    BY <1>8, TwoMaxMin
<1>10. Max({1, x}) <= Max({1, y})
    BY <1>8, <1>9
<1> QED BY <1>4, <1>5, <1>6, <1>7, <1>10

-----------------------------------------------------------------------------
(* The spare servers.                                                      *)
LEMMA FewMax ==
    ASSUME NEW a \in Int, NEW b \in Int, NEW c \in Int
    PROVE  /\ Max({a, b, c, 1}) \in {a, b, c, 1} /\ Max({a, b, c, 1}) >= a /\ Max({a, b, c, 1}) >= b
           /\ Max({a, b, c, 1}) >= c /\ Max({a, b, c, 1}) >= 1
           /\ Max({a, b, 1}) \in {a, b, 1} /\ Max({a, b, 1}) >= a /\ Max({a, b, 1}) >= b /\ Max({a, b, 1}) >= 1
<1>1. \E x \in {a, b, c, 1} : \A y \in {a, b, c, 1} : x >= y
    OBVIOUS
<1>2. \E x \in {a, b, 1} : \A y \in {a, b, 1} : x >= y
    OBVIOUS
<1>3. Max({a, b, c, 1}) \in {a, b, c, 1} /\ \A y \in {a, b, c, 1} : Max({a, b, c, 1}) >= y
    BY <1>1 DEF Max
<1>4. Max({a, b, 1}) \in {a, b, 1} /\ \A y \in {a, b, 1} : Max({a, b, 1}) >= y
    BY <1>2 DEF Max
<1> QED BY <1>3, <1>4

(* Shares of the pool make settings php-fpm accepts.                       *)
LEMMA PoolFacts ==
    ASSUME NEW pm, NEW n \in Nat \ {0}, NEW start \in Int, NEW least \in Int, NEW most \in Int,
           start <= n, least <= n, most <= n
    PROVE  LET q == Pool(pm, n, start, least, most) IN
           /\ validateConfig(q) /\ q.children = n
           /\ q.pm = "dynamic" =>
                  1 <= q.min /\ q.min <= q.start /\ q.start <= q.max /\ q.max <= q.children
<1> DEFINE q == Pool(pm, n, start, least, most)
<1>1. CASE pm = "dynamic"
    <2>1. PICK lo : lo = Max({least, 1})
        OBVIOUS
    <2>2. PICK at : at = Max({start, least, 1})
        OBVIOUS
    <2>3. PICK hi : hi = Max({most, start, least, 1})
        OBVIOUS
    <2>4. lo = IF least >= 1 THEN least ELSE 1
        BY <2>1, TwoMaxMin
    <2>5. at \in {start, least, 1} /\ at >= start /\ at >= least /\ at >= 1
        BY <2>2, FewMax
    <2>6. hi \in {most, start, least, 1} /\ hi >= most /\ hi >= start /\ hi >= least /\ hi >= 1
        BY <2>3, FewMax
    <2>7. lo \in Int /\ at \in Int /\ hi \in Int /\ 1 <= lo /\ lo <= at /\ at <= hi /\ at <= n
        BY <2>4, <2>5, <2>6
    <2>8. Min({hi, n}) = IF hi <= n THEN hi ELSE n
        BY <2>7, TwoMaxMin
    <2>9. q = [pm |-> "dynamic", children |-> n, min |-> lo, start |-> at, max |-> Min({hi, n})]
        BY <1>1, <2>1, <2>2, <2>3 DEF Pool
    <2>10. q.pm = "dynamic" /\ q.children = n /\ q.min = lo /\ q.start = at /\ q.max = Min({hi, n})
        BY <2>9
    <2> HIDE DEF q
    <2>11. 1 <= q.min /\ q.min <= q.start /\ q.start <= q.max /\ q.max <= q.children
        BY <2>7, <2>8, <2>10
    <2>12. validateConfig(q)
        BY <2>7, <2>8, <2>10 DEF validateConfig
    <2> QED BY <2>10, <2>11, <2>12 DEF q
<1>2. CASE pm # "dynamic"
    BY <1>2 DEF Pool, validateConfig
<1> QED BY <1>1, <1>2
-----------------------------------------------------------------------------
(* The engines.                                                            *)
LEMMA ReservedFacts ==
    ASSUME NEW limit \in Nat \ {0}, NEW r \in Int, NEW floor \in Nat \ {0}
    PROVE  reserved(limit, r, floor) \in Nat /\ reserved(limit, r, floor) < limit
<1>1. PICK m \in Int : m = Max({r, floor}) /\ m = IF r >= floor THEN r ELSE floor
    BY TwoMaxMin
<1>2. reserved(limit, r, floor) = IF m >= limit THEN limit \div 2 ELSE m
    BY <1>1 DEF reserved
<1> QED BY <1>1, <1>2

(* The budget of the buffer pool is what the reserve leaves, capped for a  *)
(* warm workload.                                                          *)
LEMMA BudgetFacts ==
    ASSUME NEW limit \in Nat \ {0}, NEW reserve \in Nat, reserve < limit, NEW wake
    PROVE  LET pool0 == PoolBudget(limit, reserve, wake) IN
           /\ pool0 \in Nat \ {0} /\ pool0 <= limit - reserve
           /\ wake = "warm" => pool0 <= 512
           /\ pool0 = limit - reserve \/ pool0 = 512
<1>1. limit - reserve \in Nat \ {0}
    OBVIOUS
<1>2. PICK m : m = Min({limit - reserve, 512}) /\ m = IF limit - reserve <= 512 THEN limit - reserve ELSE 512
    BY <1>1, TwoMaxMin
<1>3. PoolBudget(limit, reserve, wake) = IF wake = "warm" THEN m ELSE limit - reserve
    BY <1>2 DEF PoolBudget
<1> QED BY <1>1, <1>2, <1>3

(* The pool is a multiple of what InnoDB rounds up to, so it takes no more *)
(* than it is given.                                                       *)
LEMMA PerconaFacts ==
    ASSUME NEW reserve \in Nat, NEW cpus \in Int, NEW pool0 \in Nat \ {0}, NEW chunk \in Nat \ {0},
           NEW instances \in Nat \ {0}, instances * chunk <= pool0
    PROVE  LET s == Percona(reserve, cpus, pool0, chunk, instances) IN
           /\ s.engine = "percona" /\ s.reserve = reserve
           /\ s.size \in Nat /\ s.size <= pool0 /\ s.size >= instances * chunk /\ InnodbTakes(s) = s.size
           /\ s.connections * 12 <= reserve \/ s.warned
<1> DEFINE s == Percona(reserve, cpus, pool0, chunk, instances)
<1>1. PICK g \in Nat \ {0} : g = instances * chunk
    OBVIOUS
<1>2. PICK k : k = pool0 \div g
    OBVIOUS
<1>3. k \in Int /\ g * k <= pool0 /\ pool0 < g * k + g
    BY <1>2, DivFacts
<1>4. k >= 1
    BY <1>1, <1>2, <1>3, DivBounds
<1>5. PICK x \in Int : x = k * g
    BY <1>3
<1>6. x <= pool0 /\ x >= g
    BY <1>3, <1>4, <1>5
<1>7. s.size = x
    <2>1. s.size = IF instances * chunk > 0 THEN (pool0 \div (instances * chunk)) * (instances * chunk) ELSE pool0
        BY DEF Percona
    <2>2. s.size = IF g > 0 THEN (pool0 \div g) * g ELSE pool0
        BY <1>1, <2>1
    <2> QED BY <1>2, <1>5, <2>2
<1>8. s.engine = "percona" /\ s.reserve = reserve /\ s.chunk = chunk /\ s.instances = instances
    BY DEF Percona
<1>9. chunk * instances = g
    BY <1>1
<1>10. (x + g - 1) \div g = k
    <2>1. x + g - 1 \in Int /\ k + 1 \in Int /\ (k + 1) * g = x + g
        BY <1>3, <1>5
    <2>2. (x + g - 1) \div g \in Int
        BY <2>1, DivFacts
    <2>3. k <= (x + g - 1) \div g
        BY <1>3, <1>5, <2>1, DivBounds
    <2>4. ~(k + 1 <= (x + g - 1) \div g)
        <3>1. ~((k + 1) * g <= x + g - 1)
            BY <2>1
        <3> QED BY <2>1, <3>1, DivBounds
    <2> QED BY <1>3, <2>2, <2>3, <2>4
<1>11. InnodbTakes(s) = x
    BY <1>5, <1>7, <1>8, <1>9, <1>10 DEF InnodbTakes
<1>12. s.connections * 12 <= reserve \/ s.warned
    <2>1. PICK b \in Int : b = reserve \div 12
        OBVIOUS
    <2>2. PICK c \in Int : c = cpus * 75
        OBVIOUS
    <2>3. PICK v : v = Min({c, b}) /\ v = IF c <= b THEN c ELSE b
        BY TwoMaxMin
    <2>4. s.connections = clamp(v, 10, 1000) /\ (s.warned <=> b < 10)
        BY <2>1, <2>2, <2>3 DEF Percona
    <2>5. b < 10 \/ (clamp(v, 10, 1000) \in Int /\ clamp(v, 10, 1000) <= b)
        BY <2>3 DEF clamp
    <2>6. ASSUME NEW y \in Int, y <= b PROVE y * 12 <= reserve
        BY <2>1, <2>6
    <2> QED BY <2>4, <2>5, <2>6
<1> QED BY <1>1, <1>6, <1>7, <1>8, <1>11, <1>12

(* tunePercona: pool and reserve together stay within the limit, a warm    *)
(* pool within the cap; a pool below InnoDB's minimum comes from a budget  *)
(* below it.                                                               *)
LEMMA TunePerconaFacts ==
    ASSUME NEW limit \in Nat \ {0}, NEW cpus \in Int, NEW reserve \in Nat, reserve < limit, NEW wake
    PROVE  LET s == tunePercona(limit, cpus, reserve, wake) IN
           /\ s.engine = "percona" /\ s.reserve = reserve
           /\ InnodbTakes(s) + s.reserve <= limit
           /\ wake = "warm" => InnodbTakes(s) <= 512
           /\ s.connections * 12 <= s.reserve \/ s.warned
           /\ s.size < 8 => limit - reserve < 8
<1> DEFINE s == tunePercona(limit, cpus, reserve, wake)
<1>1. PICK pool0 \in Nat \ {0} :
          /\ pool0 = PoolBudget(limit, reserve, wake) /\ pool0 <= limit - reserve
          /\ wake = "warm" => pool0 <= 512
          /\ pool0 = limit - reserve \/ pool0 = 512
    BY BudgetFacts
<1>2. PICK i \in 1..8 : i = clamp(pool0 \div 1024, 1, 8)
    BY DEF clamp
<1>3. s = IF i * 128 > pool0 THEN Percona(reserve, cpus, pool0, pool0, 1) ELSE Percona(reserve, cpus, pool0, 128, i)
    BY <1>1, <1>2 DEF tunePercona
<1>4. /\ s.engine = "percona" /\ s.reserve = reserve
      /\ s.size \in Nat /\ s.size <= pool0 /\ (s.size >= pool0 \/ s.size >= 128) /\ InnodbTakes(s) = s.size
      /\ s.connections * 12 <= reserve \/ s.warned
    <2>1. CASE i * 128 > pool0
        <3>1. s = Percona(reserve, cpus, pool0, pool0, 1) /\ 1 * pool0 <= pool0 /\ 1 * pool0 = pool0
            BY <1>3, <2>1
        <3>2. LET f == Percona(reserve, cpus, pool0, pool0, 1) IN
              /\ f.engine = "percona" /\ f.reserve = reserve
              /\ f.size \in Nat /\ f.size <= pool0 /\ f.size >= 1 * pool0 /\ InnodbTakes(f) = f.size
              /\ f.connections * 12 <= reserve \/ f.warned
            BY <3>1, PerconaFacts
        <3> HIDE DEF s
        <3> QED BY <3>1, <3>2
    <2>2. CASE ~(i * 128 > pool0)
        <3>1. s = Percona(reserve, cpus, pool0, 128, i) /\ i * 128 <= pool0 /\ i * 128 >= 128 /\ i \in Nat \ {0}
            BY <1>3, <2>2
        <3>2. LET f == Percona(reserve, cpus, pool0, 128, i) IN
              /\ f.engine = "percona" /\ f.reserve = reserve
              /\ f.size \in Nat /\ f.size <= pool0 /\ f.size >= i * 128 /\ InnodbTakes(f) = f.size
              /\ f.connections * 12 <= reserve \/ f.warned
            BY <3>1, PerconaFacts
        <3> HIDE DEF s
        <3> QED BY <3>1, <3>2
    <2> QED BY <2>1, <2>2
<1> HIDE DEF s
<1> QED BY <1>1, <1>4 DEF s

(* What InnoDB is left with is less than it starts with only for a tiny    *)
(* limit, or for one just above the floor of the reserve.                  *)
LEMMA PerconaRefusals ==
    ASSUME NEW limit \in Nat \ {0}, NEW r \in Truncated(limit, 25), limit - reserved(limit, r, 256) < 8
    PROVE  limit < 16 \/ limit \in 257..263
<1>1. r = (limit * 25) \div 100
    BY DEF Truncated, Inexact
<1>2. r \in Int /\ r < limit /\ 4 * r <= limit
    BY <1>1
<1> DEFINE kept == reserved(limit, r, 256)
<1>3. /\ r <= 256 /\ 256 >= limit => kept = limit \div 2
      /\ r <= 256 /\ 256 < limit => kept = 256
      /\ 256 < r /\ r < limit => kept = r
    <2>1. PICK m \in Int : m = Max({r, 256}) /\ m = IF r >= 256 THEN r ELSE 256
        BY <1>2, TwoMaxMin
    <2>2. kept = IF m >= limit THEN limit \div 2 ELSE m
        BY <2>1 DEF reserved
    <2> QED BY <1>2, <2>1, <2>2
<1>4. limit - kept < 8
    OBVIOUS
<1> HIDE DEF kept
<1>5. CASE limit <= 256
    BY <1>2, <1>3, <1>4, <1>5
<1>6. CASE limit > 256 /\ r <= 256
    BY <1>2, <1>3, <1>4, <1>6
<1>7. CASE 256 < r
    BY <1>2, <1>3, <1>4, <1>7
<1> QED BY <1>2, <1>5, <1>6, <1>7
-----------------------------------------------------------------------------
(* What a boot finds.                                                      *)
LEMMA HereFacts ==
    ASSUME container \in ContainerType
    PROVE  Here.limit \in Nat /\ Here.cpus \in Int
<1>1. /\ container.v2 \in Group /\ container.v1 \in Group /\ container.memory \in Nat /\ container.cpus \in Nat
    BY DEF ContainerType
<1> DEFINE Found == [kb : Nat, cpus : Int]
<1>2. ASSUME NEW r \in Found, NEW cg \in Group
      PROVE  /\ parseCgroupMemory(r, cg) \in Found /\ parseCgroupV2CPU(r, cg) \in Found /\ parseCgroupV1CPU(r, cg) \in Found
    <2>1. cg.memory \in Int /\ cg.quota \in Int /\ cg.period \in Int
        BY DEF Group
    <2>2. cg.period > 0 => RoundedUp(cg) \in Int
        BY <2>1 DEF RoundedUp
    <2> QED BY <2>1, <2>2 DEF parseCgroupMemory, parseCgroupV2CPU, parseCgroupV1CPU
<1>3. [kb |-> 0, cpus |-> container.cpus] \in Found
    BY <1>1
<1> DEFINE two == detectCgroupV2Resources([kb |-> 0, cpus |-> container.cpus], container)
           one == IF two.kb = 0 THEN detectCgroupV1Resources(two, container) ELSE two
<1> HIDE DEF Found
<1>4. two \in Found
    BY <1>1, <1>2, <1>3 DEF detectCgroupV2Resources
<1>5. detectCgroupV1Resources(two, container) \in Found
    <2> HIDE DEF two
    <2> QED BY <1>1, <1>2, <1>4 DEF detectCgroupV1Resources
<1>6. one \in Found
    BY <1>4, <1>5
<1>7. Here = [limit |-> (IF one.kb > 0 THEN one.kb ELSE container.memory) \div 1024,
              cpus  |-> one.cpus,
              isContainerized |-> one.kb > 0]
    BY DEF Here, DetectContainerResources, getHostMemory
<1> HIDE DEF one, two
<1>8. one.kb \in Nat /\ one.cpus \in Int
    BY <1>6 DEF Found
<1>9. Here.limit = (IF one.kb > 0 THEN one.kb ELSE container.memory) \div 1024 /\ Here.cpus = one.cpus
    BY <1>7
<1> QED BY <1>1, <1>8, <1>9

(* GetConfig lets no profile through that sizeWorkers cannot divide by.    *)
LEMMA ConfigFacts ==
    ASSUME NEW name, GetConfig(name)
    PROVE  Sane(Config(name))
<1>1. Config(name).worker > 0 /\ Config(name).usage > 0 /\ name \in DOMAIN Profiles \cup DOMAIN Registered
    BY DEF GetConfig
<1>2. Config(name) \in ProfileConfig
    <2>1. CASE name \in DOMAIN Profiles
        <3>1. name \in {"dev", "light", "medium", "heavy", "bursty"}
            BY <2>1 DEF Profiles
        <3>2. Profiles[name] \in ProfileConfig
            BY <3>1 DEF Profiles, ProfileConfig
        <3> QED BY <2>1, <3>2 DEF Config
    <2>2. CASE name \notin DOMAIN Profiles
        BY <1>1, <2>2, AutotuneAssumption DEF Config
    <2> QED BY <2>1, <2>2
<1> QED BY <1>1, <1>2 DEF Sane

(* Whatever source the threshold comes from, it is positive.               *)
LEMMA AskFacts ==
    ASSUME ask \in Asks
    PROVE  /\ ask.strict \in BOOLEAN
           /\ \A p : Sane(p) => Threshold(ask, p) \in Nat \ {0}
<1>1. ask.strict \in BOOLEAN /\ ask.flag \in Int /\ ask.env \in Int /\ ask.global \in Int
    BY AutotuneAssumption
<1>2. ASSUME NEW p, Sane(p) PROVE Threshold(ask, p) \in Nat \ {0}
    <2>1. p.usage \in Nat \ {0}
        BY <1>2, ProfileFacts
    <2> QED BY <1>1, <2>1 DEF Threshold
<1> QED BY <1>1, <1>2

-----------------------------------------------------------------------------
(* A number of workers sizeWorkers comes to for a limit and CPUs.          *)
Sized(limit, cpus, n) ==
    LET p == Config(ask.profile)
    IN  /\ GetConfig(ask.profile)
        /\ \E soft \in Truncated(limit, Threshold(ask, p)) : n = sizeWorkers(limit, cpus, soft, p, ask.strict).children

IInv ==
    /\ container \in ContainerType /\ ask \in Asks
    /\ pool # <<>> => Sized(Here.limit, Here.cpus, pool[1].children)
    /\ last # <<>> =>
          last[1].limit \in Nat /\ last[1].cpus \in Int /\ Sized(last[1].limit, last[1].cpus, last[1].children)
    /\ PoolFits /\ RefusedForCause /\ EngineFits

(* Calculate: the pool it leaves is the one sizeWorkers gives for this     *)
(* container, and fits; a strict refusal has one of the two causes.        *)
LEMMA CalculateFacts ==
    ASSUME IInv, GetConfig(ask.profile), Calculate(Config(ask.profile)), UNCHANGED <<container, ask>>
    PROVE  /\ pool' # <<>> => Sized(Here.limit, Here.cpus, pool'[1].children)
           /\ PoolFits'
           /\ stage' \in {"engine", "unfit"}
           /\ stage' = "unfit" =>
                  ask.strict /\ (Here.limit < smallestBootableLimit(Config(ask.profile))
                                 \/ Threshold(ask, Config(ask.profile)) > 100)
<1>1. PICK p : p = Config(ask.profile)
    OBVIOUS
<1>2. PICK limit \in Nat, cpus \in Int, t \in Nat \ {0} :
          limit = Here.limit /\ cpus = Here.cpus /\ t = Threshold(ask, p) /\ Sane(p) /\ ask.strict \in BOOLEAN
    BY <1>1, HereFacts, ConfigFacts, AskFacts DEF IInv
<1>3. PICK soft \in Truncated(limit, t) :
          LET s == sizeWorkers(limit, cpus, soft, p, ask.strict)
          IN  \E start \in Ceiled(s.children, p.start), least \in Ceiled(s.children, p.spareMin),
                 most \in Ceiled(s.children, p.spareMax) :
                 LET q == Pool(p.pm, s.children, start, least, most)
                 IN  IF s.ok /\ validateConfig(q)
                     THEN pool' = <<q, s.overcommitted>> /\ stage' = "engine"
                     ELSE pool' = <<>> /\ stage' = "unfit"
    <2>1. Calculate(p)
        BY <1>1
    <2> QED BY <1>2, <2>1, Zenon DEF Calculate
<1>4. PICK s : s = sizeWorkers(limit, cpus, soft, p, ask.strict)
    OBVIOUS
<1>5. soft \in Int /\ (t <= 100 => soft <= limit)
    BY TruncatedFacts
<1>6. /\ s.children \in Nat \ {0}
      /\ s.children * p.worker + overhead(p) <= limit \/ (s.children = 1 /\ s.overcommitted)
      /\ ask.strict /\ s.ok => s.children >= p.least
      /\ ~s.ok => ask.strict /\ (soft <= limit => limit < smallestBootableLimit(p))
    BY <1>2, <1>4, <1>5, SizeFacts
<1>7. PICK start \in Ceiled(s.children, p.start), least \in Ceiled(s.children, p.spareMin),
           most \in Ceiled(s.children, p.spareMax) :
          LET q == Pool(p.pm, s.children, start, least, most)
          IN  IF s.ok /\ validateConfig(q)
              THEN pool' = <<q, s.overcommitted>> /\ stage' = "engine"
              ELSE pool' = <<>> /\ stage' = "unfit"
    BY <1>3, <1>4
<1>8. PICK q : q = Pool(p.pm, s.children, start, least, most)
    OBVIOUS
<1>9. /\ validateConfig(q) /\ q.children = s.children
      /\ q.pm = "dynamic" =>
             1 <= q.min /\ q.min <= q.start /\ q.start <= q.max /\ q.max <= q.children
    <2>1. p.start \in 0..100 /\ p.spareMin \in 0..100 /\ p.spareMax \in 0..100
        BY <1>2, ProfileFacts
    <2>2. start \in Int /\ start <= s.children
        BY <1>6, <1>7, <2>1, CeiledFacts
    <2>3. least \in Int /\ least <= s.children
        BY <1>6, <1>7, <2>1, CeiledFacts
    <2>4. most \in Int /\ most <= s.children
        BY <1>6, <1>7, <2>1, CeiledFacts
    <2>5. LET r == Pool(p.pm, s.children, start, least, most) IN
          /\ validateConfig(r) /\ r.children = s.children
          /\ r.pm = "dynamic" =>
                 1 <= r.min /\ r.min <= r.start /\ r.start <= r.max /\ r.max <= r.children
        BY <1>6, <2>2, <2>3, <2>4, PoolFacts
    <2> QED BY <1>8, <2>5
<1>10. \/ s.ok /\ pool' = <<q, s.overcommitted>> /\ stage' = "engine"
       \/ ~s.ok /\ pool' = <<>> /\ stage' = "unfit"
    BY <1>7, <1>8, <1>9
<1>11. CASE s.ok /\ pool' = <<q, s.overcommitted>> /\ stage' = "engine"
    <2>1. pool'[1] = q /\ pool'[2] = s.overcommitted
        BY <1>11
    <2>2. Sized(Here.limit, Here.cpus, pool'[1].children)
        BY <1>1, <1>2, <1>3, <1>4, <1>9, <2>1 DEF Sized
    <2>3. Config(ask.profile)' = p /\ Here.limit' = limit /\ ask' = ask
        BY <1>1, <1>2 DEF Here
    <2>4. PoolFits'
        BY <1>6, <1>9, <1>11, <2>1, <2>3 DEF PoolFits
    <2> QED BY <1>11, <2>2, <2>4
<1>12. CASE ~s.ok /\ pool' = <<>> /\ stage' = "unfit"
    <2>1. PoolFits'
        BY <1>12 DEF PoolFits
    <2>2. ask.strict /\ (limit < smallestBootableLimit(p) \/ t > 100)
        BY <1>5, <1>6, <1>12
    <2> QED BY <1>1, <1>2, <1>12, <2>1, <2>2
<1> QED BY <1>10, <1>11, <1>12

(* runEngineAutoTuning: each branch leaves settings that hold within the   *)
(* limit, or a refusal with a cause.                                       *)
LEMMA EngineKeeps ==
    ASSUME IInv, runEngineAutoTuning
    PROVE  RefusedForCause' /\ EngineFits'
<1>1. UNCHANGED <<container, ask>>
    BY DEF runEngineAutoTuning
<1>2. Here' = Here /\ (Untouched' <=> Untouched)
    BY <1>1 DEF Here, Untouched
<1>3. PICK cpus \in Int : cpus = Here.cpus /\ Here.limit \in Nat
    BY HereFacts DEF IInv
<1>4. ASSUME stage' \notin {"unfit", "refused", "up"} PROVE RefusedForCause' /\ EngineFits'
    BY <1>4 DEF RefusedForCause, EngineFits
<1>5. ASSUME stage' = "up", ~Tuned(ask.engine) \/ Untouched PROVE RefusedForCause' /\ EngineFits'
    BY <1>1, <1>2, <1>5 DEF RefusedForCause, EngineFits
<1>6. ASSUME stage' = "refused", ask.engine = "unknown" \/ ask.wake = "unknown" PROVE RefusedForCause' /\ EngineFits'
    BY <1>1, <1>6 DEF RefusedForCause, EngineFits
<1>7. ASSUME ~Untouched, ask.engine = "percona",
             \E r \in Truncated(Here.limit, 25) :
                LET s == tunePercona(Here.limit, Here.cpus, reserved(Here.limit, r, 256), ask.wake)
                IN  IF s.size < 8 THEN stage' = "refused" /\ UNCHANGED fragment ELSE Write(s)
      PROVE  RefusedForCause' /\ EngineFits'
    <2>1. PICK limit \in Nat \ {0} : limit = Here.limit
        BY <1>3, <1>7 DEF Untouched
    <2>2. PICK r \in Truncated(limit, 25) :
             LET s == tunePercona(limit, cpus, reserved(limit, r, 256), ask.wake)
             IN  IF s.size < 8 THEN stage' = "refused" /\ UNCHANGED fragment ELSE Write(s)
        BY <1>3, <1>7, <2>1, Zenon
    <2>3. r \in Int
        BY TruncatedFacts
    <2>4. PICK reserve : reserve = reserved(limit, r, 256)
        OBVIOUS
    <2>5. reserve \in Nat /\ reserve < limit
        BY <2>3, <2>4, ReservedFacts
    <2>6a. PICK wake : wake = ask.wake
        OBVIOUS
    <2>6b. LET f == tunePercona(limit, cpus, reserve, wake) IN
          /\ f.engine = "percona" /\ f.reserve = reserve
          /\ InnodbTakes(f) + f.reserve <= limit
          /\ wake = "warm" => InnodbTakes(f) <= 512
          /\ f.connections * 12 <= f.reserve \/ f.warned
          /\ f.size < 8 => limit - reserve < 8
        BY <2>5, TunePerconaFacts
    <2>6. PICK s : s = tunePercona(limit, cpus, reserve, wake)
        OBVIOUS
    <2>7. /\ s.engine = "percona" /\ s.reserve = reserve
          /\ InnodbTakes(s) + s.reserve <= limit
          /\ ask.wake = "warm" => InnodbTakes(s) <= 512
          /\ s.connections * 12 <= s.reserve \/ s.warned
          /\ s.size < 8 => limit - reserve < 8
        BY <2>6b, <2>6a, <2>6, Zenon
    <2>8. IF s.size < 8 THEN stage' = "refused" /\ UNCHANGED fragment ELSE Write(s)
        BY <2>2, <2>4, <2>6a, <2>6
    <2>9. CASE s.size < 8
        <3>1. stage' = "refused" /\ limit - reserve < 8
            BY <2>7, <2>8, <2>9
        <3>2. limit < 16 \/ limit \in 257..263
            BY <2>4, <3>1, PerconaRefusals
        <3> QED BY <1>1, <1>2, <1>7, <2>1, <3>1, <3>2 DEF RefusedForCause, EngineFits
    <2>10. CASE ~(s.size < 8)
        <3>1. Write(s)
            BY <2>8, <2>10
        <3>2. CASE fragment' = <<s>> /\ stage' = "up"
            <4>1. fragment'[1] = s
                BY <3>2
            <4> QED BY <1>1, <1>2, <1>7, <2>1, <2>7, <3>2, <4>1 DEF RefusedForCause, EngineFits
        <3>3. CASE stage' = "unwritten"
            BY <1>4, <3>3
        <3> QED BY <3>1, <3>2, <3>3 DEF Write
    <2> QED BY <2>9, <2>10
<1>8. ASSUME ~Untouched, ask.engine = "valkey",
             \E r \in Truncated(Here.limit, 20) : Write(tuneValkey(Here.limit, reserved(Here.limit, r, 64)))
      PROVE  RefusedForCause' /\ EngineFits'
    <2>1. PICK limit \in Nat \ {0} : limit = Here.limit
        BY <1>3, <1>8 DEF Untouched
    <2>2. PICK r \in Truncated(limit, 20) : Write(tuneValkey(limit, reserved(limit, r, 64)))
        BY <1>8, <2>1
    <2>3. r \in Int
        BY TruncatedFacts
    <2>4. PICK reserve : reserve = reserved(limit, r, 64)
        OBVIOUS
    <2>5. reserve \in Nat /\ reserve < limit
        BY <2>3, <2>4, ReservedFacts
    <2>6. PICK s : s = tuneValkey(limit, reserve)
        OBVIOUS
    <2>7. s.engine = "valkey" /\ s.reserve = reserve /\ s.maxmemory = Max({limit - reserve, 16})
        BY <2>6 DEF tuneValkey
    <2>8. Max({limit - reserve, 16}) = IF limit - reserve >= 16 THEN limit - reserve ELSE 16
        BY <2>5, TwoMaxMin
    <2>9. s.maxmemory = 16 \/ s.maxmemory + s.reserve <= limit
        BY <2>5, <2>7, <2>8
    <2>10. Write(s)
        BY <2>2, <2>4, <2>6
    <2>11. CASE fragment' = <<s>> /\ stage' = "up"
        <3>1. fragment'[1] = s
            BY <2>11
        <3> QED BY <1>1, <1>2, <1>8, <2>1, <2>7, <2>9, <2>11, <3>1 DEF RefusedForCause, EngineFits
    <2>12. CASE stage' = "unwritten"
        BY <1>4, <2>12
    <2> QED BY <2>10, <2>11, <2>12 DEF Write
<1> QED BY <1>5, <1>6, <1>7, <1>8 DEF runEngineAutoTuning, Tuned

(* The boot starts with no pool, no settings and no earlier boot.          *)
LEMMA InitIInv == Init => IInv
BY AutotuneAssumption DEF Init, IInv, PoolFits, RefusedForCause, EngineFits

(* One case per action.                                                    *)
LEMMA Inductive == IInv /\ [Next]_vars => IInv'
<1> SUFFICES ASSUME IInv, [Next]_vars PROVE IInv'
    OBVIOUS
<1>1. ASSUME UNCHANGED <<container, ask>>
      PROVE  /\ Here' = Here /\ (Untouched' <=> Untouched)
             /\ \A l, c, n : Sized(l, c, n)' <=> Sized(l, c, n)
    BY <1>1 DEF Here, Untouched, Sized
<1>2. ASSUME UNCHANGED <<container, ask, pool>> PROVE PoolFits'
    BY <1>1, <1>2 DEF PoolFits, IInv
<1>3. CASE runAutoTuning
    <2>1. UNCHANGED <<container, ask, fragment, last, boots>> /\ stage = "boot"
        BY <1>3 DEF runAutoTuning
    <2>2. EngineFits'
        BY <1>3 DEF runAutoTuning, Calculate, EngineFits
    <2>3. CASE UNCHANGED pool /\ (stage' = "engine" \/ (stage' = "unfit" /\ ~GetConfig(ask.profile)))
        <3>1. PoolFits'
            BY <1>2, <2>1, <2>3
        <3>2. RefusedForCause'
            BY <2>1, <2>3 DEF RefusedForCause
        <3> QED BY <1>1, <2>1, <2>2, <2>3, <3>1, <3>2 DEF IInv
    <2>4. CASE GetConfig(ask.profile) /\ Calculate(Config(ask.profile))
        <3>1. /\ pool' # <<>> => Sized(Here.limit, Here.cpus, pool'[1].children)
              /\ PoolFits'
              /\ stage' \in {"engine", "unfit"}
              /\ stage' = "unfit" =>
                     ask.strict /\ (Here.limit < smallestBootableLimit(Config(ask.profile))
                                    \/ Threshold(ask, Config(ask.profile)) > 100)
            BY <2>1, <2>4, CalculateFacts
        <3>2. RefusedForCause'
            BY <1>1, <2>1, <3>1 DEF RefusedForCause
        <3>3. container' \in ContainerType /\ ask' \in Asks
            BY <2>1 DEF IInv
        <3>4. pool' # <<>> => Sized(Here.limit, Here.cpus, pool[1].children)'
            BY <1>1, <2>1, <3>1 DEF Sized
        <3>5. last' # <<>> => last'[1].limit \in Nat /\ last'[1].cpus \in Int
                              /\ Sized(last[1].limit, last[1].cpus, last[1].children)'
            BY <1>1, <2>1 DEF IInv
        <3> QED BY <2>2, <3>1, <3>2, <3>3, <3>4, <3>5 DEF IInv
    <2> QED BY <1>3, <2>3, <2>4 DEF runAutoTuning
<1>4. CASE runEngineAutoTuning
    <2>1. UNCHANGED <<container, ask, pool, last, boots>>
        BY <1>4 DEF runEngineAutoTuning
    <2>2. RefusedForCause' /\ EngineFits' /\ PoolFits'
        BY <1>2, <1>4, <2>1, EngineKeeps
    <2> QED BY <1>1, <2>1, <2>2 DEF IInv
<1>5. CASE Resize
    <2>1. /\ container' \in ContainerType /\ stage' = "boot" /\ pool' = <<>> /\ ask' = ask
          /\ last' = IF pool = <<>> THEN <<>>
                     ELSE <<[limit |-> Here.limit, cpus |-> Here.cpus, children |-> pool[1].children]>>
        BY <1>5 DEF Resize
    <2>2. PoolFits' /\ RefusedForCause' /\ EngineFits'
        BY <2>1 DEF PoolFits, RefusedForCause, EngineFits
    <2>3. last' # <<>> => last'[1].limit \in Nat /\ last'[1].cpus \in Int
                          /\ Sized(last[1].limit, last[1].cpus, last[1].children)'
        <3> SUFFICES ASSUME last' # <<>>
                     PROVE  last'[1].limit \in Nat /\ last'[1].cpus \in Int
                            /\ Sized(last[1].limit, last[1].cpus, last[1].children)'
            OBVIOUS
        <3>1. /\ last'[1].limit = Here.limit /\ last'[1].cpus = Here.cpus /\ last'[1].children = pool[1].children
              /\ pool # <<>>
            BY <2>1
        <3>2. Sized(Here.limit, Here.cpus, pool[1].children) /\ Here.limit \in Nat /\ Here.cpus \in Int
            BY <3>1, HereFacts DEF IInv
        <3> QED BY <2>1, <3>1, <3>2 DEF Sized
    <2> QED BY <2>1, <2>2, <2>3 DEF IInv
<1>6. CASE UNCHANGED vars
    BY <1>6 DEF vars, IInv, PoolFits, RefusedForCause, EngineFits, Sized, Here, Untouched
<1> QED BY <1>3, <1>4, <1>5, <1>6 DEF Next

(* Whatever the limits, the thresholds and the profiles: IInv holds after  *)
(* any number of boots and resizes.                                        *)
THEOREM Invariance == Spec => []IInv
<1>1. Init => IInv
    BY InitIInv
<1>2. IInv /\ [Next]_vars => IInv'
    BY Inductive
<1> QED BY <1>1, <1>2, PTL DEF Spec

(* sizeWorkers and Calculate: a pool that is handed to PHP-FPM is one it   *)
(* can run and the container can hold.                                     *)
THEOREM EveryPoolFits == Spec => []PoolFits
<1>1. IInv => PoolFits
    BY DEF IInv
<1> QED BY <1>1, Invariance, PTL

(* The sizing ends a boot only for a cause.                                *)
THEOREM RefusalsCaused == Spec => []RefusedForCause
<1>1. IInv => RefusedForCause
    BY DEF IInv
<1> QED BY <1>1, Invariance, PTL

(* tunePercona and tuneValkey: an engine that comes up has settings made   *)
(* for the limit it runs under, which hold within it.                      *)
THEOREM EveryEngineFits == Spec => []EngineFits
<1>1. IInv => EngineFits
    BY DEF IInv
<1> QED BY <1>1, Invariance, PTL

(* sizeWorkers: from one boot to the next with a higher limit and as many  *)
(* CPUs the pool does not shrink.                                          *)
THEOREM MoreMemoryMoreWorkers == Spec => []WorkersGrow
<1>1. IInv => WorkersGrow
    <2> SUFFICES ASSUME IInv, pool # <<>>, last # <<>>, last[1].limit < Here.limit, last[1].cpus = Here.cpus
                 PROVE  last[1].children <= pool[1].children
        BY DEF WorkersGrow
    <2>1. PICK p : p = Config(ask.profile)
        OBVIOUS
    <2>2. Sized(Here.limit, Here.cpus, pool[1].children) /\ Sized(last[1].limit, last[1].cpus, last[1].children)
        BY DEF IInv
    <2>3. PICK limit \in Nat, higher \in Nat, cpus \in Int, t \in Nat \ {0} :
              /\ limit = last[1].limit /\ higher = Here.limit /\ cpus = Here.cpus /\ t = Threshold(ask, p)
              /\ Sane(p) /\ ask.strict \in BOOLEAN
        BY <2>1, <2>2, HereFacts, ConfigFacts, AskFacts DEF IInv, Sized
    <2>4. PICK less \in Truncated(limit, t) : last[1].children = sizeWorkers(limit, cpus, less, p, ask.strict).children
        BY <2>1, <2>2, <2>3 DEF Sized
    <2>5. PICK more \in Truncated(higher, t) : pool[1].children = sizeWorkers(higher, cpus, more, p, ask.strict).children
        BY <2>1, <2>2, <2>3 DEF Sized
    <2>6. less \in Int /\ more \in Int
        BY TruncatedFacts
    <2>7. limit < higher /\ less <= more
        BY <2>3, TruncatedGrows
    <2>8. PICK strict \in BOOLEAN : strict = ask.strict
        BY <2>3
    <2>9. limit <= higher /\ Sane(p)
        BY <2>3, <2>7
    <2>10. sizeWorkers(limit, cpus, less, p, strict).children <= sizeWorkers(higher, cpus, more, p, strict).children
        BY <2>6, <2>7, <2>9, SizeGrows
    <2> QED BY <2>4, <2>5, <2>8, <2>10
<1> QED BY <1>1, Invariance, PTL

-----------------------------------------------------------------------------
(* ConfigLoad.                                                             *)

(* The kinds, and the section of each field.                               *)
Kinds == {"bool", "str", "list", "ptr", "int", "map", "section"}

Sections(kinds) ==
    \A f \in DOMAIN kinds : /\ kinds[f] \in Kinds
                            /\ Section(f) # "" => /\ Section(f) \in DOMAIN kinds
                                                  /\ kinds[Section(f)] = "section"

LEMMA KindFacts ==
    /\ Sections(Kind)
    /\ {"health_check", "shutdown", "logging"} \subseteq Fields
<1>1. DOMAIN Kind =
        {"enabled", "type", "initial_state", "command", "user", "stdout", "restart", "scale",
         "max_scale", "depends_on", "env", "schedule", "health_check", "hc_type", "hc_address",
         "hc_command", "hc_user", "hc_period", "hc_mode", "shutdown", "sd_signal", "sd_timeout",
         "sd_kill_signal", "sd_kill_timeout", "logging", "lg_stdout", "lg_labels", "lg_files"}
    BY DEF Kind
<1>2. \A f \in DOMAIN Kind : Kind[f] \in Kinds
    BY <1>1 DEF Kind, Kinds
<1>3. \A f : Section(f) \in {"", "health_check", "shutdown", "logging"}
    BY DEF Section
<1>4. /\ Kind["health_check"] = "section" /\ Kind["shutdown"] = "section"
      /\ Kind["logging"] = "section"
    BY DEF Kind
<1> QED BY <1>1, <1>2, <1>3, <1>4 DEF Sections, Fields

LEMMA GlobalKindFacts == Sections(GlobalKind) /\ \A f \in DOMAIN GlobalKind : Section(f) = ""
<1>1. DOMAIN GlobalKind =
        {"shutdown_timeout", "restart_policy", "max_restart_attempts", "restart_backoff",
         "log_level", "zombie_reap_interval", "api_enabled", "api_host", "api_port", "api_auth",
         "acl", "tracing_enabled", "tracing_exporter", "readiness", "fpm_tune", "metrics_federate",
         "resource_metrics_enabled", "resource_metrics_interval", "schedule_history_size"}
    BY DEF GlobalKind
<1>2. \A f \in DOMAIN GlobalKind : GlobalKind[f] \in Kinds
    BY <1>1 DEF GlobalKind, Kinds
<1>3. \A f \in DOMAIN GlobalKind : Section(f) = ""
    BY <1>1 DEF Section
<1> QED BY <1>2, <1>3 DEF Sections

LEMMA ZeroInt == Zero("int") = 0
BY DEF Zero

LEMMA ZeroFacts ==
    /\ Zero("bool") = FALSE /\ Zero("section") = FALSE
    /\ Zero("map") = "nil" /\ Zero("str") = "" /\ Zero("list") = <<>> /\ Zero("ptr") = <<>>
<1>2. Zero("bool") = FALSE
    BY DEF Zero
<1>3. Zero("section") = FALSE
    BY DEF Zero
<1>4. Zero("map") = "nil"
    BY DEF Zero
<1>5. Zero("str") = ""
    BY DEF Zero
<1>6. Zero("list") = <<>>
    BY DEF Zero
<1>7. Zero("ptr") = <<>>
    BY DEF Zero
<1> QED BY <1>2, <1>3, <1>4, <1>5, <1>6, <1>7

-----------------------------------------------------------------------------
(* Reading a body: a decoded body is a struct.                             *)
LEMMA DecodedStruct ==
    ASSUME NEW kinds, Sections(kinds), NEW body, RawBody(body), WellTyped(body, kinds)
    PROVE  Struct(Decoded(body, kinds), kinds)
<1> DEFINE def == Decoded(body, kinds)
<1>1. DOMAIN def = DOMAIN kinds
    BY DEF Decoded
<1>2. \A f \in DOMAIN kinds :
          f \notin DOMAIN body \/ body[f] = Null => def[f] = Zero(kinds[f])
    BY DEF Decoded
<1>3. \A f \in DOMAIN kinds :
          f \in DOMAIN body /\ body[f] # Null =>
              def[f] = IF kinds[f] = "ptr" THEN <<body[f][2]>> ELSE body[f][2]
    BY DEF Decoded
<1>4. \A f \in DOMAIN kinds \cap DOMAIN body :
          body[f] # Null /\ kinds[f] \in {"int", "section"} => body[f][1] = kinds[f]
    BY DEF WellTyped, Accepts, RawBody
<1> HIDE DEF def
<1>5. ASSUME NEW f \in DOMAIN kinds, kinds[f] = "int"
      PROVE  def[f] \in Int
    <2>1. CASE f \notin DOMAIN body \/ body[f] = Null
        <3>1. def[f] = Zero("int")
            BY <1>2, <1>5, <2>1
        <3> QED BY <3>1, ZeroInt
    <2>2. CASE f \in DOMAIN body /\ body[f] # Null
        BY <1>3, <1>4, <1>5, <2>2 DEF RawBody
    <2> QED BY <2>1, <2>2
<1>6. ASSUME NEW f \in DOMAIN kinds, kinds[f] = "section"
      PROVE  /\ def[f] \in BOOLEAN
             /\ f \in DOMAIN body /\ body[f] # Null => def[f] = TRUE
    <2>1. CASE f \notin DOMAIN body \/ body[f] = Null
        BY <1>2, <1>6, <2>1, ZeroFacts
    <2>2. CASE f \in DOMAIN body /\ body[f] # Null
        BY <1>3, <1>4, <1>6, <2>2 DEF RawBody
    <2> QED BY <2>1, <2>2
<1>7. ASSUME NEW f \in DOMAIN kinds, kinds[f] = "ptr"
      PROVE  def[f] = <<>> \/ def[f] = <<def[f][1]>>
    <2>1. CASE f \notin DOMAIN body \/ body[f] = Null
        <3>1. def[f] = Zero("ptr")
            BY <1>2, <1>7, <2>1
        <3> QED BY <3>1, ZeroFacts
    <2>2. CASE f \in DOMAIN body /\ body[f] # Null
        <3>1. def[f] = <<body[f][2]>>
            BY <1>3, <1>7, <2>2
        <3> QED BY <3>1
    <2> QED BY <2>1, <2>2
<1>8. ASSUME NEW f \in DOMAIN kinds, Section(f) # ""
      PROVE  def[Section(f)] \/ def[f] = Zero(kinds[f])
    <2>1. CASE f \notin DOMAIN body
        BY <1>2, <2>1
    <2>2. CASE f \in DOMAIN body
        <3>1. Section(f) \in DOMAIN body /\ body[Section(f)] # Null
            BY <1>8, <2>2 DEF RawBody
        <3> QED BY <1>6, <1>8, <3>1 DEF Sections
    <2> QED BY <2>1, <2>2
<1> QED BY <1>1, <1>5, <1>6, <1>7, <1>8 DEF Struct, def

-----------------------------------------------------------------------------
(* Defaults.                                                               *)

(* Defaults that fit: of the right type, not zero, and of a section that   *)
(* is there.                                                               *)
Fitting(def, kinds, defaults) ==
    \A f \in DOMAIN kinds \cap DOMAIN defaults :
        /\ defaults[f] # Zero(kinds[f]) /\ kinds[f] \in {"int", "str"}
        /\ kinds[f] = "int" => defaults[f] \in Int
        /\ Section(f) # "" => def[Section(f)]

LEMMA FilledStruct ==
    ASSUME NEW kinds, Sections(kinds), NEW def, Struct(def, kinds), NEW defaults,
           Fitting(def, kinds, defaults)
    PROVE  /\ Struct(Filled(def, kinds, defaults), kinds)
           /\ \A f \in DOMAIN kinds : /\ f \in DOMAIN defaults =>
                                            Filled(def, kinds, defaults)[f] # Zero(kinds[f])
                                      /\ f \notin DOMAIN defaults \/ def[f] # Zero(kinds[f]) =>
                                            Filled(def, kinds, defaults)[f] = def[f]
<1> DEFINE res == Filled(def, kinds, defaults)
<1>1. DOMAIN res = DOMAIN kinds
    BY DEF Filled, Struct
<1>2. \A f \in DOMAIN kinds :
          res[f] = IF f \in DOMAIN defaults /\ def[f] = Zero(kinds[f])
                   THEN defaults[f] ELSE def[f]
    BY DEF Filled, Struct
<1> HIDE DEF res
<1>3. \A f \in DOMAIN kinds : kinds[f] \in {"section", "ptr"} => res[f] = def[f]
    BY <1>2 DEF Fitting
<1>4. \A f \in DOMAIN kinds : kinds[f] = "int" => res[f] \in Int
    BY <1>2 DEF Fitting, Struct
<1>5. ASSUME NEW f \in DOMAIN kinds, Section(f) # ""
      PROVE  res[Section(f)] \/ res[f] = Zero(kinds[f])
    BY <1>2, <1>3, <1>5 DEF Fitting, Struct, Sections
<1>6. Struct(res, kinds)
    BY <1>1, <1>3, <1>4, <1>5 DEF Struct
<1>7. \A f \in DOMAIN kinds : /\ f \in DOMAIN defaults => res[f] # Zero(kinds[f])
                              /\ f \notin DOMAIN defaults \/ def[f] # Zero(kinds[f]) =>
                                    res[f] = def[f]
    BY <1>2 DEF Fitting
<1> QED BY <1>6, <1>7 DEF res

(* Defaults are neither zero nor empty, and none is that of a section.     *)
Sensible(kinds, defaults) ==
    \A f \in DOMAIN defaults :
        \/ kinds[f] = "int" /\ defaults[f] \in Nat \ {0}
        \/ kinds[f] = "str" /\ defaults[f] # ""

LEMMA GlobalSensible ==
    /\ Sensible(GlobalKind, GlobalDefaults)
    /\ DOMAIN GlobalDefaults \subseteq DOMAIN GlobalKind /\ "restart_policy" \in DOMAIN GlobalDefaults
<1> DEFINE ints == {"shutdown_timeout", "max_restart_attempts", "restart_backoff",
                    "zombie_reap_interval", "api_port", "resource_metrics_interval",
                    "schedule_history_size"}
           strs == {"restart_policy", "log_level", "api_host", "tracing_exporter"}
<1>1. DOMAIN GlobalDefaults = ints \cup strs
    BY DEF GlobalDefaults
<1>2. \A f \in ints : GlobalKind[f] = "int"
    BY DEF GlobalKind
<1>3. \A f \in strs : GlobalKind[f] = "str"
    BY DEF GlobalKind
<1>4. \A f \in ints : GlobalDefaults[f] \in Nat \ {0}
    <2>1. GlobalDefaults.shutdown_timeout \in Nat \ {0}
        BY DEF GlobalDefaults
    <2>2. GlobalDefaults.max_restart_attempts \in Nat \ {0}
        BY DEF GlobalDefaults
    <2>3. GlobalDefaults.restart_backoff \in Nat \ {0}
        BY DEF GlobalDefaults
    <2>4. GlobalDefaults.zombie_reap_interval \in Nat \ {0}
        BY DEF GlobalDefaults
    <2>5. GlobalDefaults.api_port \in Nat \ {0}
        BY DEF GlobalDefaults
    <2>6. GlobalDefaults.resource_metrics_interval \in Nat \ {0}
        BY DEF GlobalDefaults
    <2>7. GlobalDefaults.schedule_history_size \in Nat \ {0}
        BY DEF GlobalDefaults
    <2> QED BY <2>1, <2>2, <2>3, <2>4, <2>5, <2>6, <2>7
<1>5. \A f \in strs : GlobalDefaults[f] # ""
    <2>1. GlobalDefaults.restart_policy # ""
        BY DEF GlobalDefaults
    <2>2. GlobalDefaults.log_level # ""
        BY DEF GlobalDefaults
    <2>3. GlobalDefaults.api_host # ""
        BY DEF GlobalDefaults
    <2>4. GlobalDefaults.tracing_exporter # ""
        BY DEF GlobalDefaults
    <2> QED BY <2>1, <2>2, <2>3, <2>4
<1>6. ints \cup strs \subseteq DOMAIN GlobalKind
    BY DEF GlobalKind
<1> QED BY <1>1, <1>2, <1>3, <1>4, <1>5, <1>6 DEF Sensible

LEMMA ProcessSensible ==
    /\ Sensible(Kind, ProcessDefaults)
    /\ DOMAIN ProcessDefaults = {"type", "initial_state", "scale"}
    /\ \A f \in DOMAIN ProcessDefaults : f \in Fields /\ Section(f) = ""
<1>1. DOMAIN ProcessDefaults = {"type", "initial_state", "scale"}
    BY DEF ProcessDefaults
<1>2. Kind["type"] = "str" /\ Kind["initial_state"] = "str" /\ Kind["scale"] = "int"
    BY DEF Kind
<1>3. ProcessDefaults["type"] # "" /\ ProcessDefaults["initial_state"] # ""
    BY DEF ProcessDefaults
<1>4. ProcessDefaults["scale"] \in Nat \ {0}
    BY DEF ProcessDefaults
<1>5. {"type", "initial_state", "scale"} \subseteq DOMAIN Kind
    BY DEF Kind
<1>6. \A f \in {"type", "initial_state", "scale"} : Section(f) = ""
    BY DEF Section
<1> QED BY <1>1, <1>2, <1>3, <1>4, <1>5, <1>6 DEF Sensible, Fields

LEMMA SectionSensible ==
    /\ Sensible(Kind, SectionDefaults)
    /\ DOMAIN SectionDefaults = {"hc_period", "hc_mode", "sd_signal", "sd_timeout",
                                 "sd_kill_signal", "sd_kill_timeout"}
    /\ \A f \in DOMAIN SectionDefaults : f \in Fields /\ Section(f) # ""
<1> DEFINE ints == {"hc_period", "sd_timeout", "sd_kill_timeout"}
           strs == {"hc_mode", "sd_signal", "sd_kill_signal"}
<1>1. DOMAIN SectionDefaults = ints \cup strs
    BY DEF SectionDefaults
<1>2. \A f \in ints : Kind[f] = "int"
    BY DEF Kind
<1>3. \A f \in strs : Kind[f] = "str"
    BY DEF Kind
<1>4. \A f \in ints : SectionDefaults[f] \in Nat \ {0}
    <2>1. SectionDefaults.hc_period \in Nat \ {0}
        BY DEF SectionDefaults
    <2>2. SectionDefaults.sd_timeout \in Nat \ {0}
        BY DEF SectionDefaults
    <2>3. SectionDefaults.sd_kill_timeout \in Nat \ {0}
        BY DEF SectionDefaults
    <2> QED BY <2>1, <2>2, <2>3
<1>5. \A f \in strs : SectionDefaults[f] # ""
    <2>1. SectionDefaults.hc_mode # ""
        BY DEF SectionDefaults
    <2>2. SectionDefaults.sd_signal # ""
        BY DEF SectionDefaults
    <2>3. SectionDefaults.sd_kill_signal # ""
        BY DEF SectionDefaults
    <2> QED BY <2>1, <2>2, <2>3
<1>6. ints \cup strs \subseteq DOMAIN Kind
    BY DEF Kind
<1>7. \A f \in ints \cup strs : Section(f) # ""
    BY DEF Section
<1> QED BY <1>1, <1>2, <1>3, <1>4, <1>5, <1>6, <1>7 DEF Sensible, Fields

(* A sensible set of defaults fits where its sections are.                 *)
LEMMA SensibleFits ==
    ASSUME NEW kinds, NEW def, NEW defaults, Sensible(kinds, defaults),
           \A f \in DOMAIN defaults : Section(f) # "" => def[Section(f)]
    PROVE  Fitting(def, kinds, defaults)
<1>1. ASSUME NEW f \in DOMAIN kinds \cap DOMAIN defaults, kinds[f] = "int"
      PROVE  defaults[f] # Zero("int") /\ defaults[f] \in Int
    <2>1. defaults[f] \in Nat \ {0}
        BY <1>1 DEF Sensible
    <2>2. defaults[f] # 0 /\ defaults[f] \in Int
        BY ONLY <2>1
    <2> QED BY <2>2, ZeroInt
<1>2. ASSUME NEW f \in DOMAIN kinds \cap DOMAIN defaults, kinds[f] = "str"
      PROVE  defaults[f] # Zero("str")
    <2>1. Zero("str") = ""
        BY ZeroFacts
    <2> QED BY <1>2, <2>1 DEF Sensible
<1> QED BY <1>1, <1>2 DEF Fitting, Sensible

(* What SetDefaults leaves in the global section and in a process.         *)
GlobalComplete(g) == \A f \in DOMAIN GlobalDefaults : g[f] # Zero(GlobalKind[f])

LoggedBy(def) == IF def.stdout = <<>> THEN TRUE ELSE def.stdout[1]

Complete(def) ==
    /\ \A f \in DOMAIN ProcessDefaults : def[f] # Zero(Kind[f])
    /\ \A f \in DOMAIN SectionDefaults : def[Section(f)] => def[f] # Zero(Kind[f])
    /\ def.restart # "" /\ def.logging = TRUE /\ def.lg_stdout = LoggedBy(def)

LEMMA GlobalDefaulted ==
    ASSUME NEW g, Struct(g, GlobalKind)
    PROVE  /\ Struct(setGlobalDefaults(g), GlobalKind) /\ GlobalComplete(setGlobalDefaults(g))
           /\ setGlobalDefaults(g).restart_policy # ""
<1>1. Fitting(g, GlobalKind, GlobalDefaults)
    BY GlobalSensible, GlobalKindFacts, SensibleFits
<1>2. /\ Struct(setGlobalDefaults(g), GlobalKind) /\ GlobalComplete(setGlobalDefaults(g))
    <2>1. /\ Struct(setGlobalDefaults(g), GlobalKind)
          /\ \A f \in DOMAIN GlobalKind :
                f \in DOMAIN GlobalDefaults => setGlobalDefaults(g)[f] # Zero(GlobalKind[f])
        <3>1. Sections(GlobalKind)
            BY GlobalKindFacts
        <3>2. /\ Struct(Filled(g, GlobalKind, GlobalDefaults), GlobalKind)
              /\ \A f \in DOMAIN GlobalKind :
                    f \in DOMAIN GlobalDefaults =>
                        Filled(g, GlobalKind, GlobalDefaults)[f] # Zero(GlobalKind[f])
            BY <1>1, <3>1, FilledStruct
        <3> QED BY <3>2 DEF setGlobalDefaults
    <2> QED BY <2>1, GlobalSensible DEF GlobalComplete
<1>3. GlobalKind["restart_policy"] = "str"
    BY DEF GlobalKind
<1>4. Zero("str") = ""
    BY ZeroFacts
<1> QED BY <1>2, <1>3, <1>4, GlobalSensible DEF GlobalComplete

LEMMA KindOf ==
    /\ Kind["restart"] = "str" /\ Kind["logging"] = "section" /\ Kind["stdout"] = "ptr"
    /\ Kind["lg_stdout"] = "bool" /\ Kind["lg_labels"] = "map"
    /\ Kind["health_check"] = "section" /\ Kind["shutdown"] = "section"
    /\ {"restart", "logging", "stdout", "lg_stdout", "lg_labels", "health_check", "shutdown"}
          \subseteq Fields
BY DEF Kind, Fields

LEMMA SectionOf ==
    /\ Section("restart") = "" /\ Section("logging") = "" /\ Section("stdout") = ""
    /\ Section("lg_stdout") = "logging" /\ Section("lg_labels") = "logging"
    /\ \A f : Section(f) \in {"", "health_check", "shutdown", "logging"} /\ Section(Section(f)) = ""
    /\ \A f \in DOMAIN SectionDefaults : Section(f) \in {"health_check", "shutdown"}
<1>1. \A f \in DOMAIN SectionDefaults : Section(f) \in {"health_check", "shutdown"}
    BY SectionSensible DEF Section
<1>2. \A f : Section(f) \in {"", "health_check", "shutdown", "logging"}
    BY DEF Section
<1>3. \A s \in {"", "health_check", "shutdown", "logging", "restart", "stdout"} : Section(s) = ""
    BY DEF Section
<1>4. Section("lg_stdout") = "logging" /\ Section("lg_labels") = "logging"
    BY DEF Section
<1> QED BY <1>1, <1>2, <1>3, <1>4

(* The restart policy, the process's own or the global one.                *)
LEMMA RestartDefault ==
    ASSUME NEW g, NEW def, Struct(def, Kind)
    PROVE  /\ Struct(setProcessRestart(g, def), Kind)
           /\ \A f \in Fields \ {"restart"} : setProcessRestart(g, def)[f] = def[f]
           /\ def.restart # "" => setProcessRestart(g, def).restart = def.restart
           /\ g.restart_policy # "" => setProcessRestart(g, def).restart # ""
<1> DEFINE res == setProcessRestart(g, def)
<1>1. DOMAIN res = Fields
    BY DEF setProcessRestart, Struct, Fields
<1>2. \A f \in Fields \ {"restart"} : res[f] = def[f]
    BY DEF setProcessRestart, Struct, Fields
<1>3. /\ def.restart # "" => res.restart = def.restart
      /\ g.restart_policy # "" => res.restart # ""
    BY KindOf DEF setProcessRestart, Struct, Fields
<1> HIDE DEF res
<1>4. \A f \in Fields : Section(f) # "restart"
    BY SectionOf
<1>5. Struct(res, Kind)
    BY <1>1, <1>2, <1>4, KindOf, SectionOf, KindFacts DEF Struct, Fields, Sections
<1> QED BY <1>2, <1>3, <1>5 DEF res

(* Logging, which every process has.                                       *)
LEMMA LoggingDefault ==
    ASSUME NEW def, Struct(def, Kind)
    PROVE  LET res == setProcessLoggingDefaults(def)
           IN  /\ Struct(res, Kind)
               /\ res.logging = TRUE /\ res.lg_stdout = LoggedBy(res)
               /\ \A f \in Fields \ {"logging", "lg_stdout", "lg_labels"} : res[f] = def[f]
               /\ def.logging = TRUE => res.lg_labels = def.lg_labels
<1> DEFINE res == setProcessLoggingDefaults(def)
<1>0. def.logging \in BOOLEAN /\ DOMAIN def = Fields
    BY KindOf DEF Struct, Fields
<1>1. DOMAIN res = Fields
    BY <1>0 DEF setProcessLoggingDefaults
<1>2. \A f \in Fields \ {"logging", "lg_stdout", "lg_labels"} : res[f] = def[f]
    BY <1>0 DEF setProcessLoggingDefaults
<1>3. res.logging = TRUE
    BY <1>0, KindOf DEF setProcessLoggingDefaults
<1>4. res.lg_stdout = LoggedBy(def)
    BY <1>0, KindOf DEF setProcessLoggingDefaults, LoggedBy
<1>5. def.logging = TRUE => res.lg_labels = def.lg_labels
    BY <1>0, KindOf DEF setProcessLoggingDefaults
<1> HIDE DEF res
<1>6. LoggedBy(res) = LoggedBy(def)
    BY <1>2, KindOf DEF LoggedBy
<1>7. ASSUME NEW f \in Fields
      PROVE  /\ Kind[f] = "int" => res[f] \in Int
             /\ Kind[f] = "section" => res[f] \in BOOLEAN
             /\ Kind[f] = "ptr" => res[f] = <<>> \/ res[f] = <<res[f][1]>>
    BY <1>2, <1>3, KindOf DEF Struct, Fields
<1>8. ASSUME NEW f \in Fields, Section(f) # ""
      PROVE  res[Section(f)] \/ res[f] = Zero(Kind[f])
    <2>1. CASE Section(f) = "logging"
        BY <1>3, <2>1
    <2>2. CASE Section(f) # "logging"
        <3>1. f \notin {"logging", "lg_stdout", "lg_labels"} /\ Section(f) \in Fields
            BY <1>8, <2>2, SectionOf, KindOf
        <3>2. res[f] = def[f] /\ res[Section(f)] = def[Section(f)]
            BY <1>2, <2>2, <3>1, SectionOf
        <3> QED BY <1>8, <3>2 DEF Struct, Fields
    <2> QED BY <2>1, <2>2
<1>9. Struct(res, Kind)
    BY <1>1, <1>7, <1>8 DEF Struct, Fields
<1> QED BY <1>2, <1>3, <1>4, <1>5, <1>6, <1>9 DEF res

(* setProcessDefaults: what it sets, and what it leaves alone.             *)
LeftAlone(def, f) ==
    /\ f \notin {"restart", "logging", "lg_stdout", "lg_labels"}
    /\ \/ f \notin DOMAIN ProcessDefaults /\ f \notin DOMAIN SectionDefaults
       \/ def[f] # Zero(Kind[f])
       \/ Section(f) # "" /\ ~def[Section(f)]

LEMMA ProcessDefaulted ==
    ASSUME NEW g, NEW def, Struct(def, Kind)
    PROVE  LET res == setProcessDefaults(g, def)
           IN  /\ Struct(res, Kind)
               /\ g.restart_policy # "" => Complete(res)
               /\ \A f \in Fields : LeftAlone(def, f) => res[f] = def[f]
               /\ def.restart # "" => res.restart = def.restart
               /\ res.lg_stdout = LoggedBy(res)
               /\ def.logging = TRUE => res.logging = TRUE /\ res.lg_labels = def.lg_labels
<1> DEFINE one   == Filled(def, Kind, ProcessDefaults)
           two   == setProcessRestart(g, one)
           three == Filled(two, Kind, InSections(def))
           res   == setProcessLoggingDefaults(three)
<1>1. setProcessDefaults(g, def) = res
    BY DEF setProcessDefaults
<1>2. Sections(Kind)
    BY KindFacts
<1>3. /\ Struct(one, Kind)
      /\ \A f \in Fields :
            /\ f \in DOMAIN ProcessDefaults => one[f] # Zero(Kind[f])
            /\ f \notin DOMAIN ProcessDefaults \/ def[f] # Zero(Kind[f]) => one[f] = def[f]
    <2>1. Fitting(def, Kind, ProcessDefaults)
        BY ProcessSensible, SensibleFits
    <2> QED BY <1>2, <2>1, FilledStruct DEF Fields
<1> HIDE DEF one
<1>4. /\ Struct(two, Kind)
      /\ \A f \in Fields \ {"restart"} : two[f] = one[f]
      /\ one.restart # "" => two.restart = one.restart
      /\ g.restart_policy # "" => two.restart # ""
    BY <1>3, RestartDefault
<1> HIDE DEF two
<1>5. DOMAIN InSections(def) = {s \in DOMAIN SectionDefaults : def[Section(s)]}
    BY DEF InSections
<1>6. ASSUME NEW s \in {"health_check", "shutdown", "logging"}
      PROVE  s \in Fields /\ two[s] = def[s]
    <2>1. s \in Fields /\ s # "restart" /\ s \notin DOMAIN ProcessDefaults
        BY KindOf, ProcessSensible
    <2> QED BY <1>3, <1>4, <2>1
<1>7. Fitting(two, Kind, InSections(def))
    <2>1. Sensible(Kind, InSections(def))
        BY SectionSensible DEF Sensible, InSections
    <2>2. ASSUME NEW f \in DOMAIN InSections(def)
          PROVE  two[Section(f)]
        <3>1. def[Section(f)] /\ Section(f) \in {"health_check", "shutdown"}
            BY <1>5, <2>2, SectionOf
        <3> QED BY <1>6, <3>1
    <2> QED BY <2>1, <2>2, SensibleFits
<1>8. /\ Struct(three, Kind)
      /\ \A f \in Fields :
            /\ f \in DOMAIN InSections(def) => three[f] # Zero(Kind[f])
            /\ f \notin DOMAIN InSections(def) \/ two[f] # Zero(Kind[f]) => three[f] = two[f]
    <2>1. Struct(two, Kind) /\ Fitting(two, Kind, InSections(def))
        BY <1>4, <1>7
    <2>2. /\ Struct(Filled(two, Kind, InSections(def)), Kind)
          /\ \A f \in DOMAIN Kind :
                /\ f \in DOMAIN InSections(def) =>
                      Filled(two, Kind, InSections(def))[f] # Zero(Kind[f])
                /\ f \notin DOMAIN InSections(def) \/ two[f] # Zero(Kind[f]) =>
                      Filled(two, Kind, InSections(def))[f] = two[f]
        BY <1>2, <2>1, FilledStruct
    <2> QED BY <2>2 DEF Fields
<1> HIDE DEF three
<1>9. /\ Struct(res, Kind)
      /\ res.logging = TRUE /\ res.lg_stdout = LoggedBy(res)
      /\ \A f \in Fields \ {"logging", "lg_stdout", "lg_labels"} : res[f] = three[f]
      /\ three.logging = TRUE => res.lg_labels = three.lg_labels
    BY <1>8, LoggingDefault
<1> HIDE DEF res
<1>10. \A f : f \in DOMAIN InSections(def) => f \in DOMAIN SectionDefaults
    BY <1>5
<1>11. /\ {"restart", "logging", "lg_stdout", "lg_labels"} \subseteq Fields
       /\ \A f \in {"restart", "logging", "lg_stdout", "lg_labels"} :
             f \notin DOMAIN ProcessDefaults /\ f \notin DOMAIN SectionDefaults
    BY KindOf, ProcessSensible, SectionSensible
<1>12. ASSUME NEW f \in Fields, LeftAlone(def, f)
       PROVE  res[f] = def[f]
    <2>1. f \notin {"restart", "logging", "lg_stdout", "lg_labels"}
        BY <1>12 DEF LeftAlone
    <2>2. CASE f \notin DOMAIN InSections(def) /\ f \notin DOMAIN ProcessDefaults
        BY <1>3, <1>4, <1>8, <1>9, <2>1, <2>2
    <2>3. CASE def[f] # Zero(Kind[f])
        BY <1>3, <1>4, <1>8, <1>9, <2>1, <2>3
    <2>4. CASE Section(f) # "" /\ ~def[Section(f)]
        BY <1>5, <2>2, <2>4, ProcessSensible
    <2> QED BY <1>10, <1>12, <2>2, <2>3, <2>4 DEF LeftAlone
<1>13. def.restart # "" => res.restart = def.restart
    BY <1>3, <1>4, <1>8, <1>9, <1>10, <1>11
<1>14. def.logging = TRUE => res.logging = TRUE /\ res.lg_labels = def.lg_labels
    BY <1>3, <1>4, <1>6, <1>8, <1>9, <1>10, <1>11
<1>15. ASSUME g.restart_policy # ""
       PROVE  Complete(res)
    <2>1. ASSUME NEW f \in DOMAIN ProcessDefaults
          PROVE  res[f] # Zero(Kind[f])
        <3>1. /\ f \in Fields \ {"restart", "logging", "lg_stdout", "lg_labels"}
              /\ f \notin DOMAIN SectionDefaults
            BY ProcessSensible, SectionSensible
        <3> QED BY <1>3, <1>4, <1>8, <1>9, <1>10, <3>1
    <2>2. ASSUME NEW f \in DOMAIN SectionDefaults, res[Section(f)]
          PROVE  res[f] # Zero(Kind[f])
        <3>1. f \in Fields \ {"restart", "logging", "lg_stdout", "lg_labels"}
            BY SectionSensible
        <3>2. Section(f) \in {"health_check", "shutdown"}
            BY SectionOf
        <3>3. res[Section(f)] = three[Section(f)] /\ three[Section(f)] = two[Section(f)]
            BY <1>6, <1>8, <1>9, <1>10, <3>2, SectionSensible
        <3>4. def[Section(f)]
            BY <1>6, <2>2, <3>2, <3>3
        <3>5. f \in DOMAIN InSections(def)
            BY <1>5, <3>4
        <3> QED BY <1>8, <1>9, <3>1, <3>5
    <2>3. res.restart # ""
        BY <1>4, <1>8, <1>9, <1>10, <1>11, <1>15
    <2> QED BY <1>9, <2>1, <2>2, <2>3 DEF Complete
<1> QED BY <1>1, <1>9, <1>12, <1>13, <1>14, <1>15

-----------------------------------------------------------------------------
(* Writing a body and reading it again.                                    *)

(* The value of a field as it is written, by the kind of the field.        *)
LEMMA PtrWritten ==
    ASSUME NEW v
    PROVE  MarshalledValue("ptr", v) = IF v = <<>> THEN Null ELSE <<"bool", v[1]>>
BY DEF MarshalledValue

LEMMA MapWritten ==
    ASSUME NEW v
    PROVE  MarshalledValue("map", v) = <<"map", IF v = "nil" THEN "empty" ELSE v>>
BY DEF MarshalledValue

LEMMA SectionWritten ==
    /\ MarshalledValue("section", TRUE) = <<"section", TRUE>>
    /\ MarshalledValue("section", FALSE) = Null
BY DEF MarshalledValue

LEMMA OtherWritten ==
    ASSUME NEW kind \in Kinds \ {"ptr", "map", "section"}, NEW v
    PROVE  MarshalledValue(kind, v) = <<kind, v>>
BY DEF MarshalledValue

LEMMA FieldsWritten ==
    ASSUME NEW kinds, NEW def, Struct(def, kinds)
    PROVE  /\ DOMAIN Marshalled(def, kinds) =
                {f \in DOMAIN kinds : Section(f) = "" \/ def[Section(f)]}
           /\ \A f \in DOMAIN Marshalled(def, kinds) :
                Marshalled(def, kinds)[f] = MarshalledValue(kinds[f], def[f])
BY DEF Marshalled, Struct

(* What is written is a body.                                              *)
LEMMA MarshalledRaw ==
    ASSUME NEW kinds, Sections(kinds), NEW def, Struct(def, kinds)
    PROVE  FileBody(Marshalled(def, kinds))
<1> DEFINE body == Marshalled(def, kinds)
<1>1. /\ DOMAIN body = {f \in DOMAIN kinds : Section(f) = "" \/ def[Section(f)]}
      /\ \A f \in DOMAIN body : body[f] = MarshalledValue(kinds[f], def[f])
    BY FieldsWritten
<1> HIDE DEF body
<1>2. SUFFICES ASSUME NEW f \in DOMAIN body
      PROVE  /\ body[f][1] = "int" => body[f][2] \in Int
             /\ body[f][1] = "section" => body[f][2] = TRUE
             /\ body[f][1] = "null" => body[f] = Null
             /\ Section(f) # "" => /\ Section(f) \in DOMAIN body /\ body[Section(f)] # Null
                                   /\ body[Section(f)] = <<"section", TRUE>>
    BY DEF FileBody, RawBody, body
<1>3. f \in DOMAIN kinds /\ kinds[f] \in Kinds /\ (Section(f) = "" \/ def[Section(f)])
    BY <1>1, <1>2 DEF Sections
<1>4. ASSUME Section(f) # ""
      PROVE  /\ Section(f) \in DOMAIN body /\ body[Section(f)] # Null
             /\ body[Section(f)] = <<"section", TRUE>>
    <2>1. Section(f) \in DOMAIN kinds /\ kinds[Section(f)] = "section" /\ def[Section(f)]
        BY <1>3, <1>4 DEF Sections
    <2>2. Section(Section(f)) = ""
        BY SectionOf
    <2>3. Section(f) \in DOMAIN body /\ body[Section(f)] = MarshalledValue("section", def[Section(f)])
        BY <1>1, <2>1, <2>2
    <2>4. def[Section(f)] = TRUE
        BY <2>1 DEF Struct
    <2>5. body[Section(f)] = <<"section", TRUE>>
        BY <2>3, <2>4, SectionWritten
    <2>6. <<"section", TRUE>> # Null
        BY DEF Null
    <2> QED BY <2>3, <2>5, <2>6
<1>5. /\ body[f][1] = "int" => body[f][2] \in Int
      /\ body[f][1] = "section" => body[f][2] = TRUE
      /\ body[f][1] = "null" => body[f] = Null
    <2>1. CASE kinds[f] = "ptr"
        <3>1. body[f] = MarshalledValue("ptr", def[f])
            BY <1>1, <2>1
        <3>2. body[f] = Null \/ body[f] = <<"bool", def[f][1]>>
            BY <3>1, PtrWritten
        <3>3. body[f][1] \in {"null", "bool"} /\ (body[f][1] = "null" => body[f] = Null)
            BY ONLY <3>2 DEF Null
        <3> QED BY ONLY <3>3
    <2>2. CASE kinds[f] = "map"
        <3>1. body[f] = MarshalledValue("map", def[f])
            BY <1>1, <2>2
        <3>2. body[f][1] = "map"
            BY <3>1, MapWritten
        <3> QED BY ONLY <3>2
    <2>3. CASE kinds[f] = "section"
        <3>1. body[f] = MarshalledValue("section", def[f])
            BY <1>1, <2>3
        <3>2. def[f] = TRUE \/ def[f] = FALSE
            BY <1>3, <2>3 DEF Struct
        <3>3. body[f] = Null \/ body[f] = <<"section", TRUE>>
            BY <3>1, <3>2, SectionWritten
        <3>4. CASE body[f] = Null
            <4>1. body[f][1] = "null"
                BY ONLY <3>4 DEF Null
            <4> QED BY ONLY <3>4, <4>1
        <3>5. CASE body[f] = <<"section", TRUE>>
            <4>1. body[f][1] = "section" /\ body[f][2] = TRUE
                BY ONLY <3>5
            <4> QED BY ONLY <4>1
        <3> QED BY <3>3, <3>4, <3>5
    <2>4. CASE kinds[f] \notin {"ptr", "map", "section"}
        <3>1. body[f] = <<kinds[f], def[f]>>
            BY <1>1, <1>3, <2>4, OtherWritten
        <3>2. body[f][1] = kinds[f] /\ body[f][2] = def[f]
            BY ONLY <3>1
        <3>3. kinds[f] = "int" => def[f] \in Int
            BY <1>3 DEF Struct
        <3>4. kinds[f] # "null" /\ kinds[f] # "section"
            BY <1>3, <2>4 DEF Kinds
        <3> QED BY ONLY <3>2, <3>3, <3>4
    <2> QED BY <2>1, <2>2, <2>3, <2>4
<1> QED BY <1>4, <1>5

(* Expanding what was written changes text that is a reference, and no     *)
(* other field.                                                            *)
LEMMA OnlyTextExpands ==
    ASSUME NEW kinds, Sections(kinds), NEW def, Struct(def, kinds)
    PROVE  /\ DOMAIN ExpandEnv(Marshalled(def, kinds)) =
                {f \in DOMAIN kinds : Section(f) = "" \/ def[Section(f)]}
           /\ \A f \in DOMAIN ExpandEnv(Marshalled(def, kinds)) \ Referring(def, kinds) :
                ExpandEnv(Marshalled(def, kinds))[f] = MarshalledValue(kinds[f], def[f])
<1> DEFINE body == Marshalled(def, kinds)
<1>1. /\ DOMAIN body = {f \in DOMAIN kinds : Section(f) = "" \/ def[Section(f)]}
      /\ \A f \in DOMAIN body : body[f] = MarshalledValue(kinds[f], def[f])
    BY FieldsWritten
<1> HIDE DEF body
<1>2. /\ DOMAIN ExpandEnv(body) = DOMAIN body
      /\ \A f \in DOMAIN body : body[f] # EnvReference => ExpandEnv(body)[f] = body[f]
    BY DEF ExpandEnv
<1>3. ASSUME NEW f \in DOMAIN body, body[f] = EnvReference
      PROVE  f \in Referring(def, kinds)
    <2>1. f \in DOMAIN kinds /\ kinds[f] \in Kinds
        BY <1>1 DEF Sections
    <2>2. body[f][1] = "str" /\ body[f][2] = EnvReference[2] /\ body[f] # Null
        BY <1>3 DEF EnvReference, Null
    <2>3. CASE kinds[f] = "ptr"
        <3>1. body[f] = Null \/ body[f] = <<"bool", def[f][1]>>
            BY <1>1, <2>3, PtrWritten
        <3>2. body[f][1] # "str"
            BY ONLY <2>2, <3>1
        <3> QED BY <2>2, <3>2
    <2>4. CASE kinds[f] = "map"
        <3>1. body[f] = MarshalledValue("map", def[f])
            BY <1>1, <2>4
        <3>2. body[f][1] = "map"
            BY <3>1, MapWritten
        <3> QED BY <2>2, <3>2
    <2>5. CASE kinds[f] = "section"
        <3>1. def[f] = TRUE \/ def[f] = FALSE
            BY <2>1, <2>5 DEF Struct
        <3>2. body[f] = Null \/ body[f] = <<"section", TRUE>>
            BY <1>1, <2>5, <3>1, SectionWritten
        <3>3. <<"section", TRUE>>[1] = "section"
            OBVIOUS
        <3> QED BY <2>2, <3>2, <3>3
    <2>6. CASE kinds[f] \notin {"ptr", "map", "section"}
        <3>1. body[f] = <<kinds[f], def[f]>>
            BY <1>1, <2>1, <2>6, OtherWritten
        <3>2. kinds[f] = "str" /\ def[f] = EnvReference[2]
            BY ONLY <2>2, <3>1
        <3> QED BY <2>1, <3>2 DEF Referring
    <2> QED BY <2>3, <2>4, <2>5, <2>6
<1> QED BY <1>1, <1>2, <1>3 DEF body

(* Reading gives back what was written, a nil map and text that is a       *)
(* reference excepted.                                                     *)
LEMMA RoundTrip ==
    ASSUME NEW kinds, Sections(kinds), NEW def, Struct(def, kinds)
    PROVE  Same(def, Decoded(ExpandEnv(Marshalled(def, kinds)), kinds), kinds)
<1> DEFINE body == ExpandEnv(Marshalled(def, kinds))
           res  == Decoded(body, kinds)
<1>1. /\ DOMAIN body = {f \in DOMAIN kinds : Section(f) = "" \/ def[Section(f)]}
      /\ \A f \in DOMAIN body \ Referring(def, kinds) :
            body[f] = MarshalledValue(kinds[f], def[f])
    BY OnlyTextExpands
<1> HIDE DEF body
<1>2. \A f \in DOMAIN kinds :
          f \notin DOMAIN body \/ body[f] = Null => res[f] = Zero(kinds[f])
    BY DEF Decoded
<1>3. \A f \in DOMAIN kinds :
          f \in DOMAIN body /\ body[f] # Null =>
              res[f] = IF kinds[f] = "ptr" THEN <<body[f][2]>> ELSE body[f][2]
    BY DEF Decoded
<1> HIDE DEF res
<1>4. SUFFICES ASSUME NEW f \in DOMAIN kinds \ Referring(def, kinds)
      PROVE  \/ def[f] = res[f]
             \/ kinds[f] = "map" /\ {def[f], res[f]} = {"nil", "empty"}
    BY DEF Same, res, body
<1>5. CASE f \notin DOMAIN body
    BY <1>1, <1>2, <1>5 DEF Struct
<1>6. CASE f \in DOMAIN body /\ kinds[f] = "ptr"
    <2>1. body[f] = IF def[f] = <<>> THEN Null ELSE <<"bool", def[f][1]>>
        <3>1. body[f] = MarshalledValue("ptr", def[f])
            BY <1>1, <1>6
        <3> QED BY <3>1, PtrWritten
    <2>2. CASE def[f] = <<>>
        <3>1. res[f] = Zero("ptr")
            BY <1>2, <1>6, <2>1, <2>2
        <3> QED BY <2>2, <3>1, ZeroFacts
    <2>3. CASE def[f] # <<>>
        <3>1. body[f] # Null /\ body[f][2] = def[f][1]
            BY <2>1, <2>3 DEF Null
        <3>2. res[f] = <<def[f][1]>>
            BY <1>3, <1>6, <3>1
        <3> QED BY <1>6, <2>3, <3>2 DEF Struct
    <2> QED BY <2>2, <2>3
<1>7. CASE f \in DOMAIN body /\ kinds[f] = "map"
    <2>1. body[f] = <<"map", IF def[f] = "nil" THEN "empty" ELSE def[f]>>
        <3>1. body[f] = MarshalledValue("map", def[f])
            BY <1>1, <1>7
        <3> QED BY <3>1, MapWritten
    <2>2. body[f] # Null /\ body[f][2] = IF def[f] = "nil" THEN "empty" ELSE def[f]
        BY <2>1 DEF Null
    <2>3. res[f] = IF def[f] = "nil" THEN "empty" ELSE def[f]
        BY <1>3, <1>7, <2>2
    <2> QED BY <1>7, <2>3
<1>8. CASE f \in DOMAIN body /\ kinds[f] = "section"
    <2>1. body[f] = MarshalledValue("section", def[f])
        BY <1>1, <1>8
    <2>2. def[f] = TRUE \/ def[f] = FALSE
        BY <1>8 DEF Struct
    <2>3. CASE def[f] = TRUE
        <3>0. body[f] = <<"section", TRUE>>
            BY <2>1, <2>3, SectionWritten
        <3>1. body[f] # Null /\ body[f][2] = TRUE
            BY ONLY <3>0 DEF Null
        <3>2. res[f] = TRUE
            BY <1>3, <1>8, <3>1
        <3> QED BY <2>3, <3>2
    <2>4. CASE def[f] = FALSE
        <3>1. res[f] = Zero("section")
            BY <1>2, <1>8, <2>1, <2>4, SectionWritten
        <3> QED BY <2>4, <3>1, ZeroFacts
    <2> QED BY <2>2, <2>3, <2>4
<1>9. CASE f \in DOMAIN body /\ kinds[f] \notin {"ptr", "map", "section"}
    <2>1. kinds[f] \in Kinds
        BY DEF Sections
    <2>2. body[f] = <<kinds[f], def[f]>>
        BY <1>1, <1>9, <2>1, OtherWritten
    <2>3. body[f] # Null /\ body[f][2] = def[f]
        BY <2>2 DEF Null
    <2> QED BY <1>3, <1>9, <2>3
<1> QED BY <1>5, <1>6, <1>7, <1>8, <1>9

(* A written body says whether it is enabled and where its output goes, so *)
(* that the defaults of the raw map leave it alone.                        *)
LEMMA WrittenIsExplicit ==
    ASSUME NEW def, Struct(def, Kind)
    PROVE  /\ defaultProcessEnabled(ExpandEnv(Marshalled(def, Kind))) =
                  ExpandEnv(Marshalled(def, Kind))
           /\ ExpandEnv(Marshalled(def, Kind)) # Hollow
<1> DEFINE body == ExpandEnv(Marshalled(def, Kind))
<1>1. "enabled" \in DOMAIN body /\ "stdout" \in DOMAIN body
    <2>1. Section("enabled") = "" /\ Section("stdout") = ""
        BY DEF Section
    <2>2. "enabled" \in DOMAIN Kind /\ "stdout" \in DOMAIN Kind
        BY DEF Kind
    <2> QED BY <2>1, <2>2, KindFacts, OnlyTextExpands
<1>2. body = [f \in DOMAIN body |-> body[f]]
    BY DEF ExpandEnv
<1> HIDE DEF body
<1>3. body # Hollow
    BY <1>1 DEF Hollow
<1>4. Over(Empty, body) = body
    BY <1>2 DEF Over, Empty
<1>5. defaultProcessEnabled(body) = Over(Empty, Over(Empty, body))
    BY <1>1, <1>3 DEF defaultProcessEnabled
<1> QED BY <1>3, <1>4, <1>5 DEF body

(* Defaults change nothing in what a complete configuration was read from. *)
LEMMA DefaultsKeep ==
    ASSUME NEW g, NEW def, Struct(def, Kind), Complete(def), NEW other, Struct(other, Kind),
           Same(def, other, Kind)
    PROVE  Same(def, setProcessDefaults(g, other), Kind)
<1> DEFINE res == setProcessDefaults(g, other)
<1>1. /\ \A f \in Fields : LeftAlone(other, f) => res[f] = other[f]
      /\ other.restart # "" => res.restart = other.restart
      /\ res.lg_stdout = LoggedBy(res)
      /\ other.logging = TRUE => res.logging = TRUE /\ res.lg_labels = other.lg_labels
    BY ProcessDefaulted
<1> HIDE DEF res
<1>2. \A f \in Fields \ Referring(def, Kind) : Kind[f] # "map" => other[f] = def[f]
    BY DEF Same, Fields
<1>3. /\ "restart" \notin Referring(def, Kind) => res.restart = def.restart
      /\ res.logging = def.logging /\ res.lg_labels = other.lg_labels
    <2>1. "logging" \notin Referring(def, Kind)
        BY KindOf DEF Referring
    <2>2. other.logging = def.logging
        BY <1>2, <2>1, KindOf
    <2> QED BY <1>1, <1>2, <2>2, KindOf DEF Complete
<1>4. res.stdout = def.stdout
    <2>1. LeftAlone(other, "stdout")
        BY ProcessSensible, SectionSensible DEF LeftAlone
    <2>2. "stdout" \notin Referring(def, Kind)
        BY KindOf DEF Referring
    <2> QED BY <1>1, <1>2, <2>1, <2>2, KindOf
<1>5. res.lg_stdout = def.lg_stdout
    BY <1>1, <1>4 DEF LoggedBy, Complete
<1>6. ASSUME NEW f \in (Fields \ Referring(def, Kind)) \ {"restart", "logging", "lg_stdout", "lg_labels"}
      PROVE  res[f] = other[f]
    <2>1. CASE LeftAlone(other, f)
        BY <1>1, <2>1
    <2>2. CASE f \in DOMAIN ProcessDefaults
        <3>1. Kind[f] \in {"int", "str"} /\ def[f] # Zero(Kind[f])
            BY <2>2, ProcessSensible DEF Sensible, Complete
        <3> QED BY <1>1, <1>2, <3>1 DEF LeftAlone
    <2>3. CASE f \in DOMAIN SectionDefaults /\ ~LeftAlone(other, f)
        <3>1. Kind[f] \in {"int", "str"} /\ Section(f) \in {"health_check", "shutdown"}
            BY <2>3, SectionSensible, SectionOf DEF Sensible
        <3>2. other[f] = Zero(Kind[f]) /\ def[f] = Zero(Kind[f])
            BY <1>2, <2>3, <3>1 DEF LeftAlone
        <3>3. ~def[Section(f)]
            BY <2>3, <3>2 DEF Complete
        <3>4. ~other[Section(f)]
            <4>1. Section(f) \in Fields \ Referring(def, Kind) /\ Kind[Section(f)] # "map"
                BY <3>1, KindOf DEF Referring
            <4> QED BY <1>2, <3>3, <4>1
        <3> QED BY <2>3, <3>1, <3>4 DEF LeftAlone
    <2> QED BY <2>1, <2>2, <2>3 DEF LeftAlone
<1>7. ASSUME NEW f \in DOMAIN Kind \ Referring(def, Kind)
      PROVE  def[f] = res[f] \/ (Kind[f] = "map" /\ {def[f], res[f]} = {"nil", "empty"})
    BY <1>3, <1>5, <1>6, <1>7 DEF Same, Fields
<1> QED BY <1>7 DEF Same, res

-----------------------------------------------------------------------------
(* The environment over the file: bodies stay bodies.                      *)
Tagged(v) ==
    /\ v[1] = "int" => v[2] \in Int
    /\ v[1] = "section" => v[2] = TRUE
    /\ v[1] = "null" => v = Null

LEMMA RawTagged ==
    ASSUME NEW body
    PROVE  RawBody(body) <=>
             \A f \in DOMAIN body :
                /\ Tagged(body[f])
                /\ Section(f) # "" => Section(f) \in DOMAIN body /\ body[Section(f)] # Null
BY DEF RawBody, Tagged

LEMMA OverFacts ==
    ASSUME NEW top, NEW base
    PROVE  /\ DOMAIN Over(top, base) = DOMAIN top \cup DOMAIN base
           /\ \A x \in DOMAIN top : Over(top, base)[x] = top[x]
           /\ \A x \in DOMAIN base \ DOMAIN top : Over(top, base)[x] = base[x]
BY DEF Over

LEMMA OverRaw ==
    ASSUME NEW top, NEW base, RawBody(base),
           \A f \in DOMAIN top : /\ Tagged(top[f]) /\ top[f] # Null
                                 /\ Section(f) # "" =>
                                      \/ Section(f) \in DOMAIN top
                                      \/ Section(f) \in DOMAIN base /\ base[Section(f)] # Null
    PROVE  RawBody(Over(top, base))
<1> DEFINE res == Over(top, base)
<1>1. /\ DOMAIN res = DOMAIN top \cup DOMAIN base
      /\ \A x \in DOMAIN top : res[x] = top[x]
      /\ \A x \in DOMAIN base \ DOMAIN top : res[x] = base[x]
    BY OverFacts
<1> HIDE DEF res
<1>2. \A f \in DOMAIN base :
        /\ Tagged(base[f])
        /\ Section(f) # "" => Section(f) \in DOMAIN base /\ base[Section(f)] # Null
    BY RawTagged
<1>3. ASSUME NEW f \in DOMAIN res
      PROVE  /\ Tagged(res[f])
             /\ Section(f) # "" => Section(f) \in DOMAIN res /\ res[Section(f)] # Null
    <2>1. CASE f \in DOMAIN top
        BY <1>1, <2>1
    <2>2. CASE f \in DOMAIN base \ DOMAIN top
        BY <1>1, <1>2, <2>2
    <2> QED BY <1>1, <1>3, <2>1, <2>2
<1> QED BY <1>3, RawTagged DEF res

(* An expanded body is a body.                                             *)
LEMMA ExpandedRaw ==
    ASSUME NEW body, FileBody(body), env \in Envs
    PROVE  RawBody(ExpandEnv(body))
<1> DEFINE res == ExpandEnv(body)
<1>1. /\ DOMAIN res = DOMAIN body
      /\ \A f \in DOMAIN body : res[f] = IF body[f] = EnvReference THEN env.var ELSE body[f]
    BY DEF ExpandEnv
<1> HIDE DEF res
<1>2. Tagged(env.var)
    <2>1. CASE env.var = Null
        <3>1. env.var[1] = "null"
            BY ONLY <2>1 DEF Null
        <3> QED BY <2>1, <3>1 DEF Tagged
    <2>2. CASE env.var[1] = "str"
        BY <2>2 DEF Tagged
    <2> QED BY <2>1, <2>2, LoadAssumption
<1>3. \A f \in DOMAIN body :
          /\ Tagged(body[f])
          /\ Section(f) # "" => /\ Section(f) \in DOMAIN body
                                /\ body[Section(f)] = <<"section", TRUE>>
    BY RawTagged DEF FileBody
<1>4. <<"section", TRUE>> # EnvReference /\ <<"section", TRUE>> # Null
    BY DEF EnvReference, Null
<1>5. \A f \in DOMAIN res :
          /\ Tagged(res[f])
          /\ Section(f) # "" => Section(f) \in DOMAIN res /\ res[Section(f)] # Null
    BY <1>1, <1>2, <1>3, <1>4
<1> QED BY <1>5, RawTagged DEF res

LEMMA BoolTagged ==
    ASSUME NEW v, v[1] \in {"list", "bool", "map", "str"}
    PROVE  Tagged(v) /\ v # Null
BY DEF Tagged, Null

(* The text of a variable becomes a value of some kind, never null.        *)
LEMMA ParsedTagged ==
    ASSUME NEW f, NEW text
    PROVE  Tagged(parseEnvValueFor(f, text)) /\ parseEnvValueFor(f, text) # Null
<1> DEFINE v == parseEnvValueFor(f, text)
           number == Kind[f] = "int" /\ text \in {"0", "1", "40"}
<1>1. CASE f = "command"
    <2>1. Kind[f] = "list"
        BY <1>1 DEF Kind
    <2>2. v = parseCommandValue(text)
        BY <1>1, <2>1 DEF parseEnvValueFor
    <2>3. parseCommandValue(text)[1] = "list"
        BY DEF parseCommandValue
    <2> QED BY <2>2, <2>3, BoolTagged
<1>2. CASE f # "command" /\ Kind[f] = "list" /\ text = "[cmd]"
    <2>1. v[1] = "list"
        BY <1>2 DEF parseEnvValueFor
    <2> QED BY <2>1, BoolTagged
<1>3. CASE f # "command" /\ number
    <2>1. v = <<"int", CASE text = "0" -> 0 [] text = "1" -> 1 [] OTHER -> 40>>
        BY <1>3 DEF parseEnvValueFor
    <2>2. v[1] = "int" /\ v[2] \in Int /\ v # Null
        BY ONLY <2>1 DEF Null
    <2> QED BY <2>2 DEF Tagged
<1>4. CASE f # "command" /\ Kind[f] \in {"bool", "ptr"} /\ text \in {"1", "true", "0", "false"}
    <2>1. v = <<"bool", TRUE>> \/ v = <<"bool", FALSE>>
        BY <1>4 DEF parseEnvValueFor
    <2>2. CASE v = <<"bool", TRUE>>
        <3>1. v[1] = "bool"
            BY ONLY <2>2
        <3> QED BY <3>1, BoolTagged
    <2>3. CASE v = <<"bool", FALSE>>
        <3>1. v[1] = "bool"
            BY ONLY <2>3
        <3> QED BY <3>1, BoolTagged
    <2> QED BY <2>1, <2>2, <2>3
<1>5. CASE f # "command" /\ Kind[f] = "map"
    <2>1. v[1] = "map"
        BY <1>5 DEF parseEnvValueFor
    <2> QED BY <2>1, BoolTagged
<1>6. CASE /\ f # "command" /\ ~(Kind[f] = "list" /\ text = "[cmd]") /\ ~number /\ Kind[f] # "map"
           /\ ~(Kind[f] \in {"bool", "ptr"} /\ text \in {"1", "true", "0", "false"})
    <2>1. v[1] = "str"
        BY <1>6 DEF parseEnvValueFor
    <2> QED BY <2>1, BoolTagged
<1> QED BY <1>1, <1>2, <1>3, <1>4, <1>5, <1>6

LEMMA OverKey ==
    ASSUME NEW x, NEW v, NEW base
    PROVE  /\ DOMAIN Over(Key(x, v), base) = DOMAIN base \cup {x}
           /\ Over(Key(x, v), base)[x] = v
           /\ \A y \in DOMAIN base \ {x} : Over(Key(x, v), base)[y] = base[y]
BY DEF Over, Key

LEMMA OverKeyRaw ==
    ASSUME NEW f, NEW v, Tagged(v), v # Null, NEW base, RawBody(base),
           Section(f) # "" => Section(f) \in DOMAIN base /\ base[Section(f)] # Null
    PROVE  RawBody(Over(Key(f, v), base))
<1> DEFINE top == Key(f, v)
<1>1. DOMAIN top = {f} /\ top[f] = v
    BY DEF Key
<1> HIDE DEF top
<1>2. \A x \in DOMAIN top : /\ Tagged(top[x]) /\ top[x] # Null
                            /\ Section(x) # "" => \/ Section(x) \in DOMAIN top
                                                  \/ /\ Section(x) \in DOMAIN base
                                                     /\ base[Section(x)] # Null
    BY <1>1
<1>3. RawBody(Over(top, base))
    BY <1>2, OverRaw
<1> QED BY <1>3 DEF top

LEMMA EmptyRaw == RawBody(Empty) /\ DOMAIN Empty = {}
BY DEF RawBody, Empty

LEMMA NestedRaw ==
    ASSUME NEW body, RawBody(body), NEW f, NEW v, Tagged(v), v # Null
    PROVE  RawBody(setNestedValue(body, f, v))
<1>1. CASE Section(f) = ""
    <2>1. setNestedValue(body, f, v) = Over(Key(f, v), Over(Empty, body))
        BY <1>1 DEF setNestedValue
    <2>2. RawBody(Over(Empty, body))
        BY EmptyRaw, OverRaw
    <2>3. RawBody(Over(Key(f, v), Over(Empty, body)))
        BY <1>1, <2>2, OverKeyRaw
    <2> QED BY <2>1, <2>3
<1>2. CASE Section(f) # ""
    <2> DEFINE mark  == <<"section", TRUE>>
               inner == Over(Key(Section(f), mark), body)
    <2>1. setNestedValue(body, f, v) = Over(Key(f, v), inner)
        BY <1>2 DEF setNestedValue
    <2>2. Tagged(mark) /\ mark # Null
        <3>1. mark[1] = "section" /\ mark[2] = TRUE
            OBVIOUS
        <3> QED BY <3>1 DEF Tagged, Null
    <2> HIDE DEF mark
    <2>3. Section(Section(f)) = ""
        BY SectionOf
    <2>4. RawBody(inner)
        BY <2>2, <2>3, OverKeyRaw
    <2>5. Section(f) \in DOMAIN inner /\ inner[Section(f)] = mark
        <3>1. DOMAIN inner = DOMAIN body \cup {Section(f)} /\ inner[Section(f)] = mark
            BY OverKey
        <3> QED BY <3>1
    <2> HIDE DEF inner
    <2>6. RawBody(Over(Key(f, v), inner))
        BY <2>2, <2>4, <2>5, OverKeyRaw
    <2> QED BY <2>1, <2>6
<1> QED BY <1>1, <1>2

(* Finitely many processes, each with a body.                              *)
Bodies(processes) ==
    IsFiniteSet(DOMAIN processes) /\ \A p \in DOMAIN processes : RawBody(processes[p])

LEMMA OverridesKeepBodies ==
    ASSUME NEW processes, Bodies(processes), NEW seg, NEW text
    PROVE  Bodies(applyProcessEnvOverride(processes, seg, text))
<1>1. ASSUME NEW name, NEW f
      PROVE  Bodies(setProcessField(processes, name, f, text))
    <2> DEFINE body == ensureMap(processes, name)
               res  == setNestedValue(body, f, parseEnvValueFor(f, text))
    <2>1. RawBody(body)
        BY EmptyRaw DEF ensureMap, Bodies
    <2> HIDE DEF body
    <2>2. RawBody(res)
        BY <2>1, NestedRaw, ParsedTagged
    <2>3. setProcessField(processes, name, f, text) = Over(Key(name, res), processes)
        BY DEF setProcessField, body
    <2> HIDE DEF res
    <2>4. IsFiniteSet(DOMAIN processes \cup {name})
        BY FS_AddElement DEF Bodies
    <2>5. DOMAIN Over(Key(name, res), processes) = DOMAIN processes \cup {name}
        BY OverKey
    <2>6. ASSUME NEW p \in DOMAIN processes \cup {name}
          PROVE  RawBody(Over(Key(name, res), processes)[p])
        <3>1. CASE p = name
            BY <2>2, <3>1, OverKey
        <3>2. CASE p # name
            <4>1. Over(Key(name, res), processes)[p] = processes[p]
                <5>1. \A y \in DOMAIN processes \ {name} :
                          Over(Key(name, res), processes)[y] = processes[y]
                    BY DEF Over, Key
                <5> QED BY <2>6, <3>2, <5>1
            <4> QED BY <2>6, <3>2, <4>1 DEF Bodies
        <3> QED BY <3>1, <3>2
    <2> QED BY <2>3, <2>4, <2>5, <2>6 DEF Bodies
<1>2. \/ applyProcessEnvOverride(processes, seg, text) = processes
      \/ \E name, f :
            applyProcessEnvOverride(processes, seg, text) = setProcessField(processes, name, f, text)
    BY DEF applyProcessEnvOverride
<1> QED BY <1>1, <1>2

LEMMA DefaultEnabledRaw ==
    ASSUME NEW body, RawBody(body)
    PROVE  RawBody(defaultProcessEnabled(body))
<1>1. Section("enabled") = "" /\ Section("stdout") = ""
    BY DEF Section
<1>2. ASSUME NEW b \in BOOLEAN PROVE Tagged(<<"bool", b>>) /\ <<"bool", b>> # Null
    <2>1. <<"bool", b>>[1] = "bool"
        OBVIOUS
    <2> QED BY <2>1, BoolTagged
<1>3. ASSUME NEW base, RawBody(base), NEW f \in {"enabled", "stdout"}, NEW v, Tagged(v), v # Null
      PROVE  RawBody(Over(Key(f, v), base)) /\ RawBody(Over(Empty, base))
    <2>1. RawBody(Over(Empty, base))
        BY <1>3, EmptyRaw, OverRaw
    <2>2. RawBody(Over(Key(f, v), base))
        BY <1>1, <1>3, OverKeyRaw
    <2> QED BY <2>1, <2>2
<1> DEFINE on(b)  == Over(Key("enabled", <<"bool", TRUE>>), b)
           off(b) == Over(Key("stdout", <<"bool", FALSE>>), b)
<1>4. \A b : RawBody(b) => RawBody(on(b)) /\ RawBody(off(b)) /\ RawBody(Over(Empty, b))
    BY <1>2, <1>3
<1>5. defaultProcessEnabled(body) \in
          {body, Over(Empty, Over(Empty, body)), on(Over(Empty, body)), Over(Empty, off(body)),
           on(off(body))}
    BY DEF defaultProcessEnabled
<1> HIDE DEF on, off
<1> QED BY <1>4, <1>5

-----------------------------------------------------------------------------
(* What an accepted configuration satisfies.                               *)

(* A finite set of numbers has a largest one.  By least counterexample:    *)
(* without one element it has one.                                         *)
Topped(S) == \E x \in S : \A y \in S : x >= y

LEMMA LeastNat ==
    ASSUME NEW T, T \subseteq Nat, T # {}
    PROVE  \E x \in T : \A y \in T : x <= y
<1>1. PICK x \in T : \A y \in T : ~(<<y, x>> \in OpToRel(<, Nat))
    BY NatLessThanWellFounded, WFMin
<1>2. \A y \in T : ~(y < x)
    BY <1>1 DEF OpToRel
<1> QED BY <1>2

LEMMA FiniteTopped ==
    ASSUME NEW S \in SUBSET Int, IsFiniteSet(S), S # {}
    PROVE  Topped(S)
<1> DEFINE Bare(R) == IsFiniteSet(R) /\ R # {} /\ ~Topped(R)
           sizes   == {n \in Nat : \E R \in SUBSET Int : Bare(R) /\ Cardinality(R) = n}
<1>1. SUFFICES ASSUME Bare(S) PROVE FALSE
    OBVIOUS
<1>2. Cardinality(S) \in sizes
    BY <1>1, FS_CardinalityType
<1>3. PICK n \in sizes : \A m \in sizes : n <= m
    BY <1>2, LeastNat
<1>4. PICK R \in SUBSET Int : Bare(R) /\ Cardinality(R) = n
    BY <1>3
<1>5. PICK x : x \in R
    BY <1>4
<1>6. R \ {x} \in SUBSET Int /\ IsFiniteSet(R \ {x}) /\ Cardinality(R \ {x}) = n - 1
    BY <1>4, <1>5, FS_RemoveElement
<1>7. n \in Nat /\ n - 1 < n
    BY <1>3
<1>8. n - 1 \in Nat
    BY <1>6, FS_CardinalityType
<1>9. ~Bare(R \ {x})
    BY <1>3, <1>6, <1>7, <1>8
<1>10. CASE R \ {x} = {}
    <2>1. R = {x} /\ x \in Int
        BY <1>5, <1>10
    <2>2. Topped(R)
        BY <2>1 DEF Topped
    <2> QED BY <1>4, <2>2
<1>11. CASE R \ {x} # {}
    <2>1. Topped(R \ {x})
        BY <1>6, <1>9, <1>11
    <2>2. PICK m \in R \ {x} : \A y \in R \ {x} : m >= y
        BY <2>1 DEF Topped
    <2>3. m \in Int /\ x \in Int /\ R \subseteq Int
        BY <1>5
    <2>4. CASE m >= x
        <3>1. \A y \in R : m >= y
            BY <2>2, <2>4
        <3> QED BY <1>4, <2>2, <3>1 DEF Topped
    <2>5. CASE x >= m
        <3>1. \A y \in R : x >= y
            <4> SUFFICES ASSUME NEW y \in R PROVE x >= y
                OBVIOUS
            <4>1. CASE y = x
                BY <2>3, <4>1
            <4>2. CASE y # x
                <5>1. m >= y /\ y \in Int
                    BY <2>2, <2>3, <4>2
                <5> QED BY <2>3, <2>5, <5>1
            <4> QED BY <4>1, <4>2
        <3> QED BY <1>4, <1>5, <3>1 DEF Topped
    <2> QED BY <2>3, <2>4, <2>5
<1> QED BY <1>10, <1>11

(* The deadline covers every stop, or is the longest there may be.         *)
LEMMA DeadlineCovers ==
    ASSUME NEW c, Struct(c.global, GlobalKind), IsFiniteSet(DOMAIN c.processes),
           \A p \in DOMAIN c.processes : Struct(c.processes[p], Kind)
    PROVE  /\ ShutdownDeadline(c) \in 1..MaxShutdownTimeout
           /\ \A p \in DOMAIN c.processes :
                c.processes[p].enabled /\ c.processes[p].shutdown =>
                    \/ ShutdownDeadline(c) >= StopTime(c.processes[p])
                    \/ ShutdownDeadline(c) = MaxShutdownTimeout
<1> DEFINE some    == {q \in DOMAIN c.processes : /\ c.processes[q].enabled
                                                  /\ c.processes[q].shutdown}
           asked   == {StopTime(c.processes[p]) : p \in some}
           all     == asked \cup {c.global.shutdown_timeout}
           longest == Max(all)
<1>1. \A p \in DOMAIN c.processes : StopTime(c.processes[p]) \in Int
    <2> SUFFICES ASSUME NEW p \in DOMAIN c.processes PROVE StopTime(c.processes[p]) \in Int
        OBVIOUS
    <2>1. Kind["sd_timeout"] = "int" /\ Kind["sd_kill_timeout"] = "int"
        BY DEF Kind
    <2>2. "sd_timeout" \in DOMAIN Kind /\ "sd_kill_timeout" \in DOMAIN Kind
        BY DEF Kind
    <2>3. c.processes[p].sd_timeout \in Int /\ c.processes[p].sd_kill_timeout \in Int
        BY <2>1, <2>2 DEF Struct
    <2> QED BY <2>3 DEF StopTime
<1>2. c.global.shutdown_timeout \in Int
    <2>1. "shutdown_timeout" \in DOMAIN GlobalKind /\ GlobalKind["shutdown_timeout"] = "int"
        BY DEF GlobalKind
    <2> QED BY <2>1 DEF Struct
<1>3. IsFiniteSet(all) /\ all \in SUBSET Int /\ all # {}
    <2>1. IsFiniteSet(some)
        BY FS_Subset
    <2>2. IsFiniteSet(asked)
        <3> DEFINE stops == [p \in some |-> StopTime(c.processes[p])]
        <3>1. stops \in Surjection(some, asked)
            BY DEF Surjection
        <3> QED BY <2>1, <3>1, FS_Surjection
    <2>3. IsFiniteSet(all)
        BY <2>2, FS_AddElement
    <2> QED BY <1>1, <1>2, <2>3
<1>4. PICK x \in all : \A y \in all : x >= y
    BY <1>3, FiniteTopped DEF Topped
<1>5. longest \in all /\ \A y \in all : longest >= y
    BY <1>4 DEF Max
<1>6. ShutdownDeadline(c) = CASE longest > MaxShutdownTimeout -> MaxShutdownTimeout
                              [] longest <= 0 -> 30
                              [] OTHER -> longest
    BY DEF ShutdownDeadline
<1>7. \A p \in some : StopTime(c.processes[p]) \in all
    OBVIOUS
<1> HIDE DEF all, longest
<1>8. longest \in Int
    BY <1>3, <1>5
<1>9. ShutdownDeadline(c) \in 1..MaxShutdownTimeout
    BY <1>6, <1>8 DEF MaxShutdownTimeout
<1>10. ASSUME NEW t \in Int, longest >= t
       PROVE  ShutdownDeadline(c) >= t \/ ShutdownDeadline(c) = MaxShutdownTimeout
    BY <1>6, <1>8, <1>10 DEF MaxShutdownTimeout
<1> QED BY <1>1, <1>5, <1>7, <1>9, <1>10

(* A configuration whose whole graph is sound can be sorted whichever of   *)
(* its processes are enabled.                                              *)
LEMMA SortableWhenValid ==
    ASSUME NEW ps, validateDependencies(ps), NEW on, on \subseteq DOMAIN ps
    PROVE  LET g == NewGraph([present |-> DOMAIN ps, enabled |-> on, depends |-> Dependencies(ps)])
           IN  Validate(g) /\ ~HasCycle(g)
<1> DEFINE full == [p \in DOMAIN ps |-> ToSet(Dependencies(ps)[p])]
           g == NewGraph([present |-> DOMAIN ps, enabled |-> on, depends |-> Dependencies(ps)])
<1>1. ~HasCycle(full) /\ \A p \in DOMAIN ps : full[p] \subseteq DOMAIN ps
    BY DEF validateDependencies
<1>2. DOMAIN full = DOMAIN ps
    OBVIOUS
<1>3. /\ DOMAIN g = on
      /\ \A p \in on : g[p] = {dep \in full[p] : ~(dep \in DOMAIN ps /\ dep \notin on)}
    BY DEF NewGraph, KeepsEdge
<1> HIDE DEF full, g
<1>4. \A p \in on : g[p] \subseteq full[p]
    BY <1>3
<1>5. ~HasCycle(g)
    <2> SUFFICES ASSUME NEW S \in (SUBSET Nodes(g)) \ {{}}, \A p \in S : g[p] \cap S # {}
                 PROVE  FALSE
        BY DEF HasCycle
    <2>1. S \in (SUBSET Nodes(full)) \ {{}}
        BY <1>2, <1>3 DEF Nodes
    <2>2. \A p \in S : full[p] \cap S # {}
        BY <1>3, <1>4 DEF Nodes
    <2> QED BY <1>1, <2>1, <2>2 DEF HasCycle
<1>6. ASSUME NEW p \in on, NEW dep \in g[p]
      PROVE  dep \in on /\ dep # p
    <2>1. dep \in on
        BY <1>1, <1>3, <1>6
    <2>2. ASSUME dep = p PROVE FALSE
        <3>1. {p} \in (SUBSET Nodes(g)) \ {{}} /\ \A q \in {p} : g[q] \cap {p} # {}
            BY <1>3, <1>6, <2>2 DEF Nodes
        <3> QED BY <1>5, <3>1 DEF HasCycle
    <2> QED BY <2>1, <2>2
<1> QED BY <1>3, <1>5, <1>6 DEF Validate, Nodes, g

-----------------------------------------------------------------------------
(* The inductive invariant: what a load has read, decoded or completed has *)
(* the shape its stage calls for, and so have the file and the             *)
(* configuration in force.                                                 *)
Parts == {"global", "hooks", "processes", "hollow"}

Listed(hooks) == \E S : hooks \in Seq(S)

Written(r) == RawBody(r.global) /\ Bodies(r.processes) /\ Listed(r.hooks)

OnDisk(content) ==
    /\ FileBody(content.global) /\ Listed(content.hooks)
    /\ IsFiniteSet(DOMAIN content.processes)
    /\ \A p \in DOMAIN content.processes : FileBody(content.processes[p])

Built(c) ==
    /\ DOMAIN c = Parts /\ Listed(c.hooks)
    /\ Struct(c.global, GlobalKind)
    /\ IsFiniteSet(DOMAIN c.processes) /\ \A p \in DOMAIN c.processes : Struct(c.processes[p], Kind)

Full(c) ==
    /\ GlobalComplete(c.global) /\ c.global.restart_policy # ""
    /\ \A p \in DOMAIN c.processes : Complete(c.processes[p])

LoadInv ==
    /\ OnDisk(file) /\ env \in Envs
    /\ loading \in {"override", "decode"} => DOMAIN raw = Parts /\ Written(raw)
    /\ loading \in {"default", "validate"} => Built(new)
    /\ loading = "validate" => Full(new)
    /\ cfg # <<>> => cfg = <<cfg[1]>> /\ Built(cfg[1]) /\ Full(cfg[1])

LEMMA ConcatListed ==
    ASSUME NEW a, Listed(a), NEW b, Listed(b)
    PROVE  Listed(a \o b)
<1>1. PICK A : a \in Seq(A)
    BY DEF Listed
<1>2. PICK B : b \in Seq(B)
    BY DEF Listed
<1>3. a \in Seq(A \cup B) /\ b \in Seq(A \cup B)
    BY <1>1, <1>2
<1>4. a \o b \in Seq(A \cup B)
    BY <1>3
<1> QED BY <1>4 DEF Listed

LEMMA LoadKeeps ==
    ASSUME LoadInv, Load
    PROVE  LoadInv'
<1>1. CASE ~file.keys
    BY <1>1 DEF Load, Refuse, LoadInv
<1>2. CASE file.keys
    <2> DEFINE global    == ExpandEnv(file.global)
               processes == [p \in DOMAIN file.processes |-> ExpandEnv(file.processes[p])]
    <2>1. /\ raw' = [global |-> Over(env.global, global), hooks |-> file.hooks,
                     processes |-> processes, hollow |-> {}]
          /\ loading' = "override" /\ UNCHANGED <<new, cfg, file, env>>
        BY <1>2 DEF Load
    <2>0. RawBody(global) /\ Bodies(processes)
        BY ExpandedRaw DEF LoadInv, OnDisk, Bodies
    <2> HIDE DEF global, processes
    <2>2. RawBody(env.global) /\ \A f \in DOMAIN env.global : env.global[f] # Null
        BY LoadAssumption DEF LoadInv
    <2>3. \A f \in DOMAIN env.global :
              /\ Tagged(env.global[f]) /\ env.global[f] # Null
              /\ Section(f) # "" => \/ Section(f) \in DOMAIN env.global
                                    \/ /\ Section(f) \in DOMAIN global
                                       /\ global[Section(f)] # Null
        BY <2>2, RawTagged
    <2>4. RawBody(Over(env.global, global))
        BY <2>0, <2>3, OverRaw
    <2>5. Written(raw') /\ DOMAIN raw' = Parts
        BY <2>0, <2>1, <2>4 DEF LoadInv, OnDisk, Written, Parts
    <2> QED BY <2>1, <2>5 DEF LoadInv
<1> QED BY <1>1, <1>2

LEMMA OverrideKeeps ==
    ASSUME LoadInv, Override
    PROVE  LoadInv'
<1>1. PICK o : raw' = [raw EXCEPT !.processes = applyProcessEnvOverride(@, Segment(o), o.text)]
    BY DEF Override
<1>2. UNCHANGED <<file, env, new, cfg, loading>> /\ loading = "override"
    BY DEF Override
<1>3. DOMAIN raw = Parts /\ Written(raw)
    BY <1>2 DEF LoadInv
<1>4. Bodies(applyProcessEnvOverride(raw.processes, Segment(o), o.text))
    BY <1>3, OverridesKeepBodies DEF Written
<1>5. /\ DOMAIN raw' = Parts /\ raw'.global = raw.global /\ raw'.hooks = raw.hooks
      /\ raw'.processes = applyProcessEnvOverride(raw.processes, Segment(o), o.text)
    BY <1>1, <1>3 DEF Parts
<1>6. Written(raw')
    BY <1>3, <1>4, <1>5 DEF Written
<1> QED BY <1>2, <1>5, <1>6 DEF LoadInv

LEMMA HooksKeep ==
    ASSUME LoadInv, applyHookEnvOverrides
    PROVE  LoadInv'
<1>1. /\ UNCHANGED <<file, env, new, cfg>> /\ loading = "override" /\ loading' = "decode"
      /\ raw' = [raw EXCEPT !.hooks = @ \o ByIndex(env.hooks),
                    !.processes = [p \in DOMAIN @ |-> defaultProcessEnabled(@[p])]]
    BY DEF applyHookEnvOverrides
<1>2. DOMAIN raw = Parts /\ Written(raw)
    BY <1>1 DEF LoadInv
<1>3. /\ DOMAIN raw' = Parts /\ raw'.global = raw.global
      /\ raw'.hooks = raw.hooks \o ByIndex(env.hooks)
      /\ raw'.processes = [p \in DOMAIN raw.processes |-> defaultProcessEnabled(raw.processes[p])]
    BY <1>1, <1>2 DEF Parts
<1>4. Cardinality(DOMAIN env.hooks) \in Nat
    BY LoadAssumption, FS_CardinalityType DEF LoadInv
<1>5. Listed(ByIndex(env.hooks))
    <2> DEFINE n == Cardinality(DOMAIN env.hooks)
               s == ByIndex(env.hooks)
    <2>1. s = [i \in 1..n |-> s[i]]
        BY DEF ByIndex
    <2> HIDE DEF n, s
    <2>2. n \in Nat
        BY <1>4 DEF n
    <2>3. s \in Seq({s[i] : i \in 1..n})
        BY <2>1, <2>2
    <2> QED BY <2>3 DEF Listed, s
<1>6. Listed(raw'.hooks)
    BY <1>2, <1>3, <1>5, ConcatListed DEF Written
<1>7. Bodies(raw'.processes)
    BY <1>2, <1>3, DefaultEnabledRaw DEF Bodies, Written
<1> QED BY <1>1, <1>2, <1>3, <1>6, <1>7 DEF LoadInv, Written

LEMMA DecodeKeeps ==
    ASSUME LoadInv, Decode
    PROVE  LoadInv'
<1> DEFINE hollow == {p \in DOMAIN raw.processes : raw.processes[p] = Hollow}
           bodies == DOMAIN raw.processes \ hollow
           good   == /\ WellTyped(raw.global, GlobalKind)
                     /\ \A p \in bodies : WellTyped(raw.processes[p], Kind)
<1>1. UNCHANGED <<file, env, cfg>> /\ loading = "decode"
    BY DEF Decode, Refuse
<1>2. CASE ~good
    <2>1. loading' = "refused"
        BY <1>2 DEF Decode, Refuse
    <2> QED BY <1>1, <2>1 DEF LoadInv
<1>3. CASE good
    <2>1. /\ new' = [global |-> Decoded(raw.global, GlobalKind), hooks |-> raw.hooks,
                     processes |-> [p \in bodies |-> Decoded(raw.processes[p], Kind)],
                     hollow |-> hollow]
          /\ loading' = "default"
        BY <1>3 DEF Decode
    <2>2. Written(raw)
        BY <1>1 DEF LoadInv
    <2>3. Struct(Decoded(raw.global, GlobalKind), GlobalKind)
        BY <1>3, <2>2, GlobalKindFacts, DecodedStruct DEF Written
    <2>4. ASSUME NEW p \in bodies
          PROVE  Struct(Decoded(raw.processes[p], Kind), Kind)
        <3>1. RawBody(raw.processes[p]) /\ WellTyped(raw.processes[p], Kind)
            BY <1>3, <2>2, <2>4 DEF Written, Bodies
        <3>2. Sections(Kind)
            BY KindFacts
        <3> QED BY <3>1, <3>2, DecodedStruct
    <2>5. IsFiniteSet(bodies)
        BY <2>2, FS_Subset DEF Written, Bodies
    <2> HIDE DEF hollow, bodies
    <2>6. Built(new')
        BY <2>1, <2>2, <2>3, <2>4, <2>5 DEF Built, Parts, Written
    <2> QED BY <1>1, <2>1, <2>6 DEF LoadInv
<1> QED BY <1>2, <1>3

LEMMA SetDefaultsKeeps ==
    ASSUME LoadInv, SetDefaults
    PROVE  LoadInv'
<1>1. UNCHANGED <<file, env, cfg>> /\ loading = "default"
    BY DEF SetDefaults
<1>2. CASE loading' = "crashed"
    BY <1>1, <1>2 DEF LoadInv
<1>3. CASE loading' # "crashed"
    <2> DEFINE g == setGlobalDefaults(new.global)
    <2>1. /\ loading' = "validate"
          /\ new' = [new EXCEPT !.global = g,
                        !.processes = [p \in DOMAIN @ |-> setProcessDefaults(g, @[p])]]
        BY <1>3 DEF SetDefaults
    <2>2. Built(new)
        BY <1>1 DEF LoadInv
    <2>3. Struct(g, GlobalKind) /\ GlobalComplete(g) /\ g.restart_policy # ""
        BY <2>2, GlobalDefaulted DEF Built
    <2> HIDE DEF g
    <2>4. /\ DOMAIN new' = Parts /\ new'.global = g /\ new'.hooks = new.hooks
          /\ new'.processes = [p \in DOMAIN new.processes |-> setProcessDefaults(g, new.processes[p])]
        BY <2>1, <2>2 DEF Built, Parts
    <2>5. \A p \in DOMAIN new.processes :
              /\ Struct(setProcessDefaults(g, new.processes[p]), Kind)
              /\ Complete(setProcessDefaults(g, new.processes[p]))
        BY <2>2, <2>3, ProcessDefaulted DEF Built
    <2>6. Built(new') /\ Full(new')
        BY <2>2, <2>3, <2>4, <2>5 DEF Built, Full
    <2> QED BY <1>1, <2>1, <2>6 DEF LoadInv
<1> QED BY <1>2, <1>3

LEMMA ValidationKeeps ==
    ASSUME LoadInv, Validation
    PROVE  LoadInv'
<1>1. UNCHANGED <<file, env>> /\ loading = "validate"
    BY DEF Validation
<1>2. CASE loading' = "refused" /\ UNCHANGED cfg
    BY <1>1, <1>2 DEF LoadInv
<1>3. CASE loading' = "idle" /\ cfg' = <<new>>
    <2>1. cfg'[1] = new /\ Built(new) /\ Full(new)
        BY <1>1, <1>3 DEF LoadInv
    <2> QED BY <1>1, <1>3, <2>1 DEF LoadInv
<1> QED BY <1>2, <1>3 DEF Validation, Refuse

LEMMA AddProcessKeeps ==
    ASSUME LoadInv, AddProcess
    PROVE  LoadInv'
<1>1. PICK a \in Added :
          cfg' = <<[cfg[1] EXCEPT !.processes =
                      Over(Key(a.name, setProcessDefaults(cfg[1].global, a.def)), @)]>>
    BY DEF AddProcess
<1>2. /\ UNCHANGED <<file, env, raw, new, loading>> /\ cfg # <<>>
    BY DEF AddProcess, Running
<1> DEFINE c   == cfg[1]
           def == setProcessDefaults(c.global, a.def)
           res == Over(Key(a.name, def), c.processes)
<1>3. Built(c) /\ Full(c)
    BY <1>2 DEF LoadInv
<1>4. Struct(def, Kind) /\ Complete(def)
    BY <1>3, LoadAssumption, ProcessDefaulted DEF Full
<1>5. cfg' = <<[c EXCEPT !.processes = res]>>
    BY <1>1
<1> HIDE DEF def, res
<1>6. /\ cfg' = <<cfg'[1]>> /\ cfg'[1] = [c EXCEPT !.processes = res]
    BY <1>5
<1> HIDE DEF c
<1>7. /\ DOMAIN cfg'[1] = Parts /\ cfg'[1].global = c.global /\ cfg'[1].hooks = c.hooks
      /\ cfg'[1].processes = res
    BY <1>3, <1>6 DEF Built, Parts
<1>8. /\ DOMAIN res = DOMAIN c.processes \cup {a.name} /\ res[a.name] = def
      /\ \A p \in DOMAIN c.processes \ {a.name} : res[p] = c.processes[p]
    BY DEF res, Over, Key
<1>9. IsFiniteSet(DOMAIN res)
    BY <1>3, <1>8, FS_AddElement DEF Built
<1>10. \A p \in DOMAIN res : Struct(res[p], Kind) /\ Complete(res[p])
    BY <1>3, <1>4, <1>8 DEF Built, Full
<1>11. Built(cfg'[1]) /\ Full(cfg'[1])
    BY <1>3, <1>7, <1>9, <1>10 DEF Built, Full
<1> QED BY <1>2, <1>6, <1>11 DEF LoadInv

(* What a configuration is written as can be read.                         *)
LEMMA SavedWritten ==
    ASSUME NEW c, Built(c)
    PROVE  OnDisk(Saved(c))
<1>1. FileBody(Marshalled(c.global, GlobalKind))
    BY GlobalKindFacts, MarshalledRaw DEF Built
<1>2. \A p \in DOMAIN c.processes : FileBody(Marshalled(c.processes[p], Kind))
    BY KindFacts, MarshalledRaw DEF Built
<1> QED BY <1>1, <1>2 DEF Saved, OnDisk, Built

(* What a load does keeps the invariant.                                   *)
THEOREM LoadInvariance == LoadSpec => []LoadInv
<1>1. LoadInit => LoadInv
    <2> SUFFICES ASSUME LoadInit PROVE LoadInv
        OBVIOUS
    <2>1. OnDisk(file)
        BY LoadAssumption DEF LoadInit, OnDisk, Listed
    <2> QED BY <2>1 DEF LoadInit, LoadInv
<1>2. LoadInv /\ [LoadNext]_loadVars => LoadInv'
    <2> SUFFICES ASSUME LoadInv, [LoadNext]_loadVars PROVE LoadInv'
        OBVIOUS
    <2>1. CASE Load
        BY <2>1, LoadKeeps
    <2>2. CASE Override
        BY <2>2, OverrideKeeps
    <2>3. CASE applyHookEnvOverrides
        BY <2>3, HooksKeep
    <2>4. CASE Decode
        BY <2>4, DecodeKeeps
    <2>5. CASE SetDefaults
        BY <2>5, SetDefaultsKeeps
    <2>6. CASE Validation
        BY <2>6, ValidationKeeps
    <2>7. CASE EditFile
        <3>1. OnDisk(file')
            BY <2>7, LoadAssumption DEF EditFile, OnDisk, Listed
        <3> QED BY <2>7, <3>1 DEF EditFile, LoadInv
    <2>8. CASE AddProcess
        BY <2>8, AddProcessKeeps
    <2>9. CASE SaveConfig
        <3>1. file' = Saved(cfg[1]) /\ Built(cfg[1])
            BY <2>9 DEF SaveConfig, Running, LoadInv
        <3>2. OnDisk(file')
            BY <3>1, SavedWritten
        <3> QED BY <2>9, <3>2 DEF SaveConfig, LoadInv
    <2>10. CASE UNCHANGED loadVars
        BY <2>10 DEF loadVars, LoadInv
    <2> QED BY <2>1, <2>2, <2>3, <2>4, <2>5, <2>6, <2>7, <2>8, <2>9, <2>10 DEF LoadNext
<1> QED BY <1>1, <1>2, PTL DEF LoadSpec

(* The configuration that a load accepts can be run: the checks are made   *)
(* after the defaults and so speak of what is going to be run.             *)
LEMMA ValidBoots ==
    ASSUME NEW c, Built(c), Full(c), ValidateConfig(c), ValidateComprehensive(c)
    PROVE  Bootable(c)
<1> DEFINE ps == c.processes
           on == {p \in DOMAIN ps : ps[p].enabled}
<1>1. Sortable(ps)
    <2> DEFINE g == NewGraph([present |-> DOMAIN ps, enabled |-> on, depends |-> Dependencies(ps)])
    <2>1. validateDependencies(ps) /\ on \subseteq DOMAIN ps
        BY DEF ValidateComprehensive
    <2> HIDE DEF on, ps
    <2>2. Validate(g) /\ ~HasCycle(g)
        BY <2>1, SortableWhenValid
    <2> QED BY <2>2 DEF Sortable, on
<1>2. ASSUME NEW p \in DOMAIN ps PROVE Startable(ps[p])
    <2> DEFINE def == ps[p]
    <2>1. Struct(def, Kind) /\ Complete(def)
        BY <1>2 DEF Built, Full
    <2>2. validateProcess(def) /\ validateSingleProcess(def)
        BY <1>2 DEF ValidateConfig, ValidateComprehensive
    <2> HIDE DEF def
    <2>3. /\ {"scale", "hc_period"} \subseteq DOMAIN Kind
          /\ Kind["scale"] = "int" /\ Kind["hc_period"] = "int"
        BY DEF Kind
    <2>4. def.scale \in Int /\ def.hc_period \in Int
        BY <2>1, <2>3 DEF Struct
    <2>5. def.command # <<>> /\ def.scale \in 1..MaxProcessScaleLimit
        <3>1. def.command # <<>>
            BY <2>2 DEF validateProcess, validateProcessBasics
        <3>2. def.scale >= 1
            BY <2>2 DEF validateProcess, validateProcessBasics
        <3>3. def.scale <= 1000
            BY <2>2 DEF validateSingleProcess, MaxProcessScaleLimit
        <3>4. def.scale \in 1..1000
            BY ONLY <2>4, <3>2, <3>3
        <3> QED BY <3>1, <3>4 DEF MaxProcessScaleLimit
    <2>6. def.type = "oneshot" => def.restart = "never"
        BY <2>2 DEF validateProcess, validateOneshotProcess
    <2>7. ASSUME def.health_check
          PROVE  def.hc_period > 0
        <3>1. Section("hc_period") = "health_check"
            BY DEF Section
        <3>2. def["hc_period"] # Zero("int")
            BY <2>1, <2>3, <2>7, <3>1, SectionSensible DEF Complete
        <3>3. def.hc_period # 0
            BY <3>2, ZeroInt
        <3>4. def.hc_period >= 0
            BY <2>2, <2>7 DEF validateProcess, validateProcessHealthCheck
        <3> QED BY <2>4, <3>3, <3>4
    <2> QED BY <2>5, <2>6, <2>7 DEF def, Startable
<1>3. StopsInTime(c)
    BY DeadlineCovers DEF Built, StopsInTime
<1>4. Guarded(c.global)
    BY DEF ValidateConfig, validateGlobal, validateAPIExposure, isLoopbackHost, Guarded
<1> QED BY <1>1, <1>2, <1>3, <1>4 DEF Bootable

(* The step that accepts a configuration is the one that validated it.     *)
LEMMA AcceptedIsValid ==
    ASSUME LoadInv, [LoadNext]_loadVars, Accepted
    PROVE  /\ Validation /\ cfg' = <<new>> /\ cfg'[1] = new
           /\ Built(new) /\ Full(new) /\ ValidateConfig(new) /\ ValidateComprehensive(new)
<1>1. Validation
    BY DEF Accepted, LoadNext, loadVars, Load, Override, applyHookEnvOverrides, Decode,
           SetDefaults, EditFile, AddProcess, SaveConfig, Running
<1>2. /\ cfg' = <<new>> /\ ValidateConfig(new) /\ ValidateComprehensive(new)
    BY <1>1 DEF Validation, Refuse, Accepted
<1>3. cfg'[1] = new
    BY <1>2
<1> QED BY <1>1, <1>2, <1>3 DEF LoadInv, Accepted

(* AcceptedBoots (internal/config, LoadWithEnvExpansion): what a load      *)
(* accepts can be run, for every file, environment and addition.           *)
THEOREM AcceptedConfigBoots == LoadSpec => AcceptedBoots
<1>1. ASSUME LoadInv, [LoadNext]_loadVars, Accepted
      PROVE  Bootable(cfg'[1])
    <2>1. /\ cfg'[1] = new
          /\ Built(new) /\ Full(new) /\ ValidateConfig(new) /\ ValidateComprehensive(new)
        BY <1>1, AcceptedIsValid
    <2>2. Built(cfg'[1]) /\ Full(cfg'[1]) /\ ValidateConfig(cfg'[1]) /\ ValidateComprehensive(cfg'[1])
        BY <2>1
    <2> QED BY <2>2, ValidBoots
<1> QED BY <1>1, LoadInvariance, PTL DEF LoadSpec, AcceptedBoots

-----------------------------------------------------------------------------
(* From saving to the next load: as long as the file holds what was saved, *)
(* it is what the configuration in force is written as, nothing overrides  *)
(* it, and what a load has made of it, its references expanded, means the  *)
(* same.                                                                   *)
AsSaved ==
    /\ raw.global = ExpandEnv(file.global) /\ raw.hooks = file.hooks
    /\ raw.processes = [p \in DOMAIN file.processes |-> ExpandEnv(file.processes[p])]

SaveInv ==
    saved => /\ cfg # <<>> /\ file = Saved(cfg[1])
             /\ env.process = {} /\ env.global = Empty /\ env.hooks = Empty
             /\ loading \in {"override", "decode"} => pending = {} /\ AsSaved
             /\ loading \in {"default", "validate"} => Kept(cfg[1], new)

LEMMA SavedParts ==
    ASSUME NEW c, Built(c)
    PROVE  /\ Saved(c).global = Marshalled(c.global, GlobalKind) /\ Saved(c).hooks = c.hooks
           /\ Saved(c).processes =
                  [p \in DOMAIN c.processes |-> Marshalled(c.processes[p], Kind)]
BY DEF Saved

(* What a load has read of a saved file, in terms of the configuration.    *)
LEMMA ReadBack ==
    ASSUME NEW c, Built(c), file = Saved(c), AsSaved
    PROVE  /\ raw.global = ExpandEnv(Marshalled(c.global, GlobalKind)) /\ raw.hooks = c.hooks
           /\ raw.processes = [p \in DOMAIN c.processes |-> ExpandEnv(Marshalled(c.processes[p], Kind))]
<1>1. /\ file.global = Marshalled(c.global, GlobalKind) /\ file.hooks = c.hooks
      /\ file.processes = [p \in DOMAIN c.processes |-> Marshalled(c.processes[p], Kind)]
    BY SavedParts
<1>2. /\ DOMAIN file.processes = DOMAIN c.processes
      /\ \A p \in DOMAIN c.processes : file.processes[p] = Marshalled(c.processes[p], Kind)
    BY <1>1
<1>3. [p \in DOMAIN file.processes |-> ExpandEnv(file.processes[p])] =
          [p \in DOMAIN c.processes |-> ExpandEnv(Marshalled(c.processes[p], Kind))]
    BY <1>2
<1> QED BY <1>1, <1>3 DEF AsSaved

LEMMA LoadSaves ==
    ASSUME LoadInv, SaveInv, Load
    PROVE  SaveInv'
<1> SUFFICES ASSUME saved PROVE SaveInv'
    BY DEF Load, SaveInv
<1>1. CASE ~file.keys
    BY <1>1 DEF Load, Refuse, SaveInv
<1>2. CASE file.keys
    <2> DEFINE global    == ExpandEnv(file.global)
               processes == [p \in DOMAIN file.processes |-> ExpandEnv(file.processes[p])]
    <2>1. /\ raw' = [global |-> Over(env.global, global), hooks |-> file.hooks,
                     processes |-> processes, hollow |-> {}]
          /\ pending' = env.process
          /\ loading' = "override" /\ UNCHANGED <<new, cfg, file, env, saved>>
        BY <1>2 DEF Load
    <2>2. global = [f \in DOMAIN global |-> global[f]]
        BY DEF ExpandEnv
    <2>3. Over(Empty, global) = global
        <3> HIDE DEF global
        <3> QED BY <2>2 DEF Over, Empty
    <2>4. AsSaved' /\ pending' = {}
        <3>1. /\ raw'.global = global /\ raw'.hooks = file.hooks /\ raw'.processes = processes
              /\ pending' = {} /\ file' = file /\ env' = env
            <4> HIDE DEF global, processes
            <4> QED BY <2>1, <2>3 DEF SaveInv
        <3> QED BY <3>1 DEF AsSaved, ExpandEnv
    <2> QED BY <2>1, <2>4 DEF SaveInv
<1> QED BY <1>1, <1>2

LEMMA HooksSave ==
    ASSUME LoadInv, SaveInv, applyHookEnvOverrides
    PROVE  SaveInv'
<1> SUFFICES ASSUME saved PROVE SaveInv'
    BY DEF applyHookEnvOverrides, SaveInv
<1>1. /\ UNCHANGED <<file, env, new, cfg, pending, saved>> /\ loading = "override"
      /\ loading' = "decode"
      /\ raw' = [raw EXCEPT !.hooks = @ \o ByIndex(env.hooks),
                    !.processes = [p \in DOMAIN @ |-> defaultProcessEnabled(@[p])]]
    BY DEF applyHookEnvOverrides
<1>2. DOMAIN raw = Parts /\ Written(raw) /\ AsSaved /\ pending = {} /\ env.hooks = Empty
    BY <1>1 DEF LoadInv, SaveInv
<1>3. /\ raw'.global = raw.global
      /\ raw'.hooks = raw.hooks \o ByIndex(env.hooks)
      /\ raw'.processes = [p \in DOMAIN raw.processes |-> defaultProcessEnabled(raw.processes[p])]
    BY <1>1, <1>2 DEF Parts
<1>4. raw'.hooks = raw.hooks
    <2>1. ByIndex(Empty) = <<>>
        <3>1. Cardinality(DOMAIN Empty) = 0
            BY EmptyRaw, FS_EmptySet
        <3>2. DOMAIN ByIndex(Empty) = 1..0 /\ ByIndex(Empty) = [i \in 1..0 |-> ByIndex(Empty)[i]]
            BY <3>1 DEF ByIndex
        <3>3. 1..0 = {}
            OBVIOUS
        <3> QED BY <3>2, <3>3
    <2>2. PICK S : raw.hooks \in Seq(S)
        BY <1>2 DEF Written, Listed
    <2>3. raw.hooks \o <<>> = raw.hooks
        BY <2>2
    <2> QED BY <1>2, <1>3, <2>1, <2>3
<1>5. raw'.processes = raw.processes
    <2> DEFINE c == cfg[1]
    <2>1. /\ Built(c)
          /\ raw.processes = [p \in DOMAIN c.processes |-> ExpandEnv(Marshalled(c.processes[p], Kind))]
        BY <1>2, ReadBack DEF LoadInv, SaveInv
    <2> HIDE DEF c
    <2>2. \A p \in DOMAIN c.processes :
              defaultProcessEnabled(ExpandEnv(Marshalled(c.processes[p], Kind))) =
                  ExpandEnv(Marshalled(c.processes[p], Kind))
        BY <2>1, WrittenIsExplicit DEF Built
    <2> QED BY <1>3, <2>1, <2>2
<1>6. AsSaved'
    BY <1>1, <1>2, <1>3, <1>4, <1>5 DEF AsSaved, ExpandEnv
<1> QED BY <1>1, <1>2, <1>6 DEF SaveInv

LEMMA DecodeSaves ==
    ASSUME LoadInv, SaveInv, Decode
    PROVE  SaveInv'
<1> SUFFICES ASSUME saved PROVE SaveInv'
    BY DEF Decode, SaveInv
<1> DEFINE hollow == {p \in DOMAIN raw.processes : raw.processes[p] = Hollow}
           bodies == DOMAIN raw.processes \ hollow
           good   == /\ WellTyped(raw.global, GlobalKind)
                     /\ \A p \in bodies : WellTyped(raw.processes[p], Kind)
<1>1. UNCHANGED <<file, env, cfg, saved>> /\ loading = "decode"
    BY DEF Decode, Refuse
<1>2. CASE ~good
    <2>1. loading' = "refused"
        BY <1>2 DEF Decode, Refuse
    <2> QED BY <1>1, <2>1 DEF SaveInv
<1>3. CASE good
    <2> DEFINE c == cfg[1]
    <2>1. /\ new' = [global |-> Decoded(raw.global, GlobalKind), hooks |-> raw.hooks,
                     processes |-> [p \in bodies |-> Decoded(raw.processes[p], Kind)],
                     hollow |-> hollow]
          /\ loading' = "default"
        BY <1>3 DEF Decode
    <2>2. /\ Built(c) /\ raw.global = ExpandEnv(Marshalled(c.global, GlobalKind))
          /\ raw.hooks = c.hooks
          /\ raw.processes = [p \in DOMAIN c.processes |-> ExpandEnv(Marshalled(c.processes[p], Kind))]
        BY <1>1, ReadBack DEF LoadInv, SaveInv
    <2> HIDE DEF c
    <2>3. \A p \in DOMAIN c.processes : ExpandEnv(Marshalled(c.processes[p], Kind)) # Hollow
        BY <2>2, WrittenIsExplicit DEF Built
    <2>4. bodies = DOMAIN c.processes
        BY <2>2, <2>3
    <2>5. /\ new'.global = Decoded(ExpandEnv(Marshalled(c.global, GlobalKind)), GlobalKind)
          /\ new'.hooks = c.hooks
          /\ new'.processes = [p \in DOMAIN c.processes |->
                                   Decoded(ExpandEnv(Marshalled(c.processes[p], Kind)), Kind)]
        BY <2>1, <2>2, <2>4
    <2>6. Same(c.global, Decoded(ExpandEnv(Marshalled(c.global, GlobalKind)), GlobalKind), GlobalKind)
        BY <2>2, GlobalKindFacts, RoundTrip DEF Built
    <2>7. \A p \in DOMAIN c.processes :
              Same(c.processes[p], Decoded(ExpandEnv(Marshalled(c.processes[p], Kind)), Kind), Kind)
        BY <2>2, KindFacts, RoundTrip DEF Built
    <2>8. Kept(c, new')
        BY <2>5, <2>6, <2>7 DEF Kept
    <2> QED BY <1>1, <2>1, <2>8 DEF SaveInv, c
<1> QED BY <1>2, <1>3

LEMMA GlobalDefaultsKeep ==
    ASSUME NEW g, GlobalComplete(g), NEW h, Struct(h, GlobalKind), Same(g, h, GlobalKind)
    PROVE  Same(g, setGlobalDefaults(h), GlobalKind)
<1>1. \A f \in DOMAIN GlobalKind :
          setGlobalDefaults(h)[f] = IF f \in DOMAIN GlobalDefaults /\ h[f] = Zero(GlobalKind[f])
                                    THEN GlobalDefaults[f] ELSE h[f]
    BY DEF setGlobalDefaults, Filled, Struct
<1>2. ASSUME NEW f \in DOMAIN GlobalDefaults \ Referring(g, GlobalKind)
      PROVE  h[f] # Zero(GlobalKind[f])
    <2>1. f \in DOMAIN GlobalKind /\ GlobalKind[f] \in {"int", "str"}
        BY <1>2, GlobalSensible DEF Sensible
    <2> QED BY <1>2, <2>1 DEF GlobalComplete, Same
<1>3. \A f \in DOMAIN GlobalKind \ Referring(g, GlobalKind) : setGlobalDefaults(h)[f] = h[f]
    BY <1>1, <1>2
<1> QED BY <1>3 DEF Same

LEMMA SetDefaultsSaves ==
    ASSUME LoadInv, SaveInv, SetDefaults
    PROVE  SaveInv'
<1> SUFFICES ASSUME saved PROVE SaveInv'
    BY DEF SetDefaults, SaveInv
<1>1. UNCHANGED <<file, env, cfg, saved>> /\ loading = "default"
    BY DEF SetDefaults
<1>2. CASE loading' = "crashed"
    BY <1>1, <1>2 DEF SaveInv
<1>3. CASE loading' # "crashed"
    <2> DEFINE g == setGlobalDefaults(new.global)
               c == cfg[1]
    <2>1. /\ loading' = "validate"
          /\ new' = [new EXCEPT !.global = g,
                        !.processes = [p \in DOMAIN @ |-> setProcessDefaults(g, @[p])]]
        BY <1>3 DEF SetDefaults
    <2>2. Built(new) /\ Built(c) /\ Full(c) /\ Kept(c, new)
        BY <1>1 DEF LoadInv, SaveInv
    <2> HIDE DEF c
    <2>3. Same(c.global, g, GlobalKind)
        BY <2>2, GlobalDefaultsKeep DEF Built, Full, Kept
    <2> HIDE DEF g
    <2>4. /\ new'.global = g /\ new'.hooks = new.hooks
          /\ new'.processes = [p \in DOMAIN new.processes |-> setProcessDefaults(g, new.processes[p])]
        BY <2>1, <2>2 DEF Built, Parts
    <2>5. ASSUME NEW p \in DOMAIN c.processes
          PROVE  Same(c.processes[p], setProcessDefaults(g, new.processes[p]), Kind)
        <3>1. /\ Struct(c.processes[p], Kind) /\ Complete(c.processes[p])
              /\ Struct(new.processes[p], Kind) /\ Same(c.processes[p], new.processes[p], Kind)
            BY <2>2, <2>5 DEF Built, Full, Kept
        <3> QED BY <3>1, DefaultsKeep
    <2>6. Kept(c, new')
        BY <2>2, <2>3, <2>4, <2>5 DEF Kept
    <2> QED BY <1>1, <2>1, <2>6 DEF SaveInv, c
<1> QED BY <1>2, <1>3

(* SaveKeepsMeaning (Manager.SaveConfig, config.Save): a load of the saved *)
(* file that is accepted gives every setting back, text that reads as a    *)
(* reference excepted, whatever the variable is.                           *)
THEOREM SavingKeepsMeaning == LoadSpec => SaveKeepsMeaning
<1>1. LoadInit => SaveInv
    BY DEF LoadInit, SaveInv
<1>2. LoadInv /\ SaveInv /\ [LoadNext]_loadVars => SaveInv'
    <2> SUFFICES ASSUME LoadInv, SaveInv, [LoadNext]_loadVars PROVE SaveInv'
        OBVIOUS
    <2>1. CASE Load
        BY <2>1, LoadSaves
    <2>2. CASE Override
        BY <2>2 DEF Override, Foremost, SaveInv
    <2>3. CASE applyHookEnvOverrides
        BY <2>3, HooksSave
    <2>4. CASE Decode
        BY <2>4, DecodeSaves
    <2>5. CASE SetDefaults
        BY <2>5, SetDefaultsSaves
    <2>6. CASE Validation
        BY <2>6 DEF Validation, Refuse, SaveInv
    <2>7. CASE EditFile
        BY <2>7 DEF EditFile, SaveInv
    <2>8. CASE AddProcess
        BY <2>8 DEF AddProcess, SaveInv
    <2>9. CASE SaveConfig
        BY <2>9 DEF SaveConfig, Running, SaveInv
    <2>10. CASE UNCHANGED loadVars
        BY <2>10 DEF loadVars, SaveInv, AsSaved, ExpandEnv
    <2> QED BY <2>1, <2>2, <2>3, <2>4, <2>5, <2>6, <2>7, <2>8, <2>9, <2>10 DEF LoadNext
<1>3. ASSUME LoadInv, SaveInv, [LoadNext]_loadVars, Accepted /\ saved
      PROVE  Kept(cfg[1], cfg'[1])
    <2>1. cfg'[1] = new /\ loading = "validate"
        BY <1>3, AcceptedIsValid DEF Accepted
    <2> QED BY <1>3, <2>1 DEF SaveInv
<1> QED BY <1>1, <1>2, <1>3, LoadInvariance, PTL DEF LoadSpec, SaveKeepsMeaning
=============================================================================
