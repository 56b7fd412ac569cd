----------------------------- MODULE HeapProofs -----------------------------
(***************************************************************************)
(* Proofs about Heap as kernel_main uses it uninterrupted, for pools,      *)
(* headers and requests of any size.                                       *)
(*                                                                         *)
(* The free list is given by its blocks, list[1] to list[n], and the place *)
(* i in it at which malloc looks; the invariant says that there are such.  *)
(***************************************************************************)
EXTENDS Heap, WellFoundedInduction, FiniteSetTheorems, TLAPS

P     == pc["main"]
B     == block["main"]
Q     == req["main"]
Cut    == Rest("main")

-----------------------------------------------------------------------------
(* The invariant.                                                          *)

Typed ==
  /\ size \in [Addresses -> Nat] /\ next \in [Addresses -> Addresses \cup {NULL}]
  /\ DOMAIN pc = Actors /\ DOMAIN req = Actors /\ DOMAIN prev_block = Actors
  /\ DOMAIN block = Actors /\ DOMAIN reg = Actors /\ DOMAIN after = Actors
  /\ pc["irq"] = "idle" /\ P \in Steps

\* A chain without a cycle: from the block at head along nx.
Chain(n, list, head, nx) ==
  /\ n \in Nat /\ list \in [1 .. n -> Addresses]
  /\ \A j, k \in 1 .. n : list[j] = list[k] => j = k
  /\ head = (IF n = 0 THEN NULL ELSE list[1])
  /\ \A j \in 1 .. n : nx[list[j]] = (IF j = n THEN NULL ELSE list[j + 1])

Listed(n, list)    == Chain(n, list, free_list, next)
InList(n, list, a) == \E j \in 1 .. n : list[j] = a
InUse(a)           == \E h \in held : h.at = a

\* A block on its way: one that is being freed, or was cut off another.
Loose(a) ==
  \/ P \in {"free_link", "free_head"} /\ a = B
  \/ P = "split_link" /\ a = Cut

\* The blocks in S, of sizes sz, lie one behind the other and fill the pool.
Tiles(S, sz) ==
  /\ \A a \in S : a + HDR + sz[a] =< POOL_SIZE
  /\ \A a, b \in S : a < b => a + HDR + sz[a] =< b
  /\ \A x \in Addresses : \E a \in S : a =< x /\ x < a + HDR + sz[a]

Blocks(n, list) == {a \in Addresses : InList(n, list, a) \/ InUse(a) \/ Loose(a)}

Tiled(n, list) == Tiles(Blocks(n, list), size)

\* A block is in use once, free, or on its way.
Apart(n, list) ==
  /\ \A h \in held : /\ h.at \in Addresses /\ h.len \in Nat /\ h.len =< size[h.at] /\ h.by = "main"
                     /\ ~InList(n, list, h.at)
  /\ \A h, k \in held : h.at = k.at => h = k
  /\ P \in {"free_link", "free_head"} => B \in Addresses
  /\ \A a \in Addresses : Loose(a) => ~InList(n, list, a) /\ ~InUse(a)

\* Where malloc is in the list: the blocks it passed are too small.
Looking(n, list, i) ==
  P \in MallocSteps =>
    /\ Q \in Nat /\ i \in 1 .. n + 1
    /\ B = (IF i = n + 1 THEN NULL ELSE list[i])
    /\ prev_block["main"] = (IF i = 1 THEN NULL ELSE list[i - 1])
    /\ \A j \in 1 .. i - 1 : size[list[j]] < Q
    /\ after["main"] = NULL \/ InUse(after["main"])
    /\ P = "advance" => i =< n /\ size[B] < Q
    /\ P = "none" => i = n + 1
    /\ P \in MallocSteps \ {"scan", "advance", "none"} => i =< n /\ size[B] >= Q

\* How far the block is split: the tail's header is written into the block
\* before the block is cut.
Split ==
  /\ P \in {"split_size", "split_next", "split_cut"} => size[B] > Q + HDR
  /\ P \in {"split_next", "split_cut"} => size[Cut] = size[B] - HDR - Q
  /\ P \in {"split_cut", "split_link"} => next[Cut] = next[B]
  /\ P = "split_link" => Cut \in Addresses /\ size[B] = Q
  /\ P = "relink" => reg["main"] = next[B]
  /\ P = "free_head" => next[B] = free_list

InvAt(n, list, i) ==
  /\ Listed(n, list) /\ Tiled(n, list) /\ Apart(n, list) /\ Looking(n, list, i) /\ Split

HeapInv == Typed /\ \E n, list, i : InvAt(n, list, i)

-----------------------------------------------------------------------------
(* Chains.                                                                 *)

LEMMA Sizes ==
  /\ HDR \in Nat /\ HDR >= 1 /\ POOL_SIZE \in Nat /\ POOL_SIZE > HDR
  /\ Addresses = 0 .. POOL_SIZE - 1 /\ 0 \in Addresses /\ NULL \notin Addresses
BY HeapAssumption DEF Addresses

\* The block c behind the i-th; the chain without the i-th.
Insert(n, list, i, c) ==
  [j \in 1 .. n + 1 |-> IF j =< i THEN list[j] ELSE IF j = i + 1 THEN c ELSE list[j - 1]]

Remove(n, list, i) == [j \in 1 .. n - 1 |-> IF j < i THEN list[j] ELSE list[j + 1]]

LEMMA InsertHolds ==
  ASSUME NEW n \in Nat, NEW list \in [1 .. n -> Addresses], NEW i \in 0 .. n, NEW c
  PROVE  \A a : InList(n + 1, Insert(n, list, i, c), a) <=> InList(n, list, a) \/ a = c
<1> DEFINE long == Insert(n, list, i, c)
<1>1. \A j \in 1 .. n + 1 : long[j] = (IF j =< i THEN list[j] ELSE IF j = i + 1 THEN c ELSE list[j - 1])
  BY DEF Insert
<1> HIDE DEF long
<1>2. ASSUME NEW a, NEW j \in 1 .. n + 1, long[j] = a PROVE InList(n, list, a) \/ a = c
  <2>1. CASE j =< i
    BY <1>1, <1>2, <2>1 DEF InList
  <2>2. CASE j = i + 1
    BY <1>1, <1>2, <2>2
  <2>3. CASE j > i + 1
    <3>1. j - 1 \in 1 .. n /\ list[j - 1] = a
      BY <1>1, <1>2, <2>3
    <3>2. QED
      BY <3>1 DEF InList
  <2>4. QED
    BY <2>1, <2>2, <2>3
<1>3. ASSUME NEW a, NEW j \in 1 .. n, list[j] = a PROVE InList(n + 1, long, a)
  <2>1. CASE j =< i
    <3>1. j \in 1 .. n + 1 /\ long[j] = a
      BY <1>1, <1>3, <2>1
    <3>2. QED
      BY <3>1 DEF InList
  <2>2. CASE j > i
    <3>1. j + 1 \in 1 .. n + 1 /\ long[j + 1] = a
      BY <1>1, <1>3, <2>2
    <3>2. QED
      BY <3>1 DEF InList
  <2>3. QED
    BY <2>1, <2>2
<1>4. InList(n + 1, long, c)
  <2>1. i + 1 \in 1 .. n + 1 /\ long[i + 1] = c
    BY <1>1
  <2>2. QED
    BY <2>1 DEF InList
<1>5. QED
  BY <1>2, <1>3, <1>4 DEF InList, long

LEMMA InsertChain ==
  ASSUME NEW n, NEW list, NEW head, NEW nx, Chain(n, list, head, nx),
         NEW i \in 0 .. n, NEW c \in Addresses, ~InList(n, list, c),
         NEW nx2, NEW head2,
         head2 = (IF i = 0 THEN c ELSE head),
         nx2[c] = (IF i = n THEN NULL ELSE list[i + 1]),
         i > 0 => nx2[list[i]] = c,
         \A j \in 1 .. n : j # i => nx2[list[j]] = nx[list[j]]
  PROVE  Chain(n + 1, Insert(n, list, i, c), head2, nx2)
<1> DEFINE long == Insert(n, list, i, c)
<1>1. \A j \in 1 .. n + 1 : long[j] = (IF j =< i THEN list[j] ELSE IF j = i + 1 THEN c ELSE list[j - 1])
  BY DEF Insert
<1>2. n \in Nat /\ list \in [1 .. n -> Addresses] /\ n + 1 \in Nat
  BY DEF Chain
<1>3. long \in [1 .. n + 1 -> Addresses]
  BY <1>2 DEF Insert
<1> HIDE DEF long
<1>4. \A j \in 1 .. n : list[j] # c
  BY DEF InList
<1>5. ASSUME NEW j \in 1 .. n + 1, NEW k \in 1 .. n + 1, long[j] = long[k] PROVE j = k
  <2>1. \A l, m \in 1 .. n : list[l] = list[m] => l = m
    BY DEF Chain
  <2>2. QED
    BY <1>1, <1>2, <1>4, <1>5, <2>1
<1>6. head2 = (IF n + 1 = 0 THEN NULL ELSE long[1])
  BY <1>1, <1>2 DEF Chain
<1>7. ASSUME NEW j \in 1 .. n + 1
      PROVE  nx2[long[j]] = (IF j = n + 1 THEN NULL ELSE long[j + 1])
  <2>1. \A l \in 1 .. n : nx[list[l]] = (IF l = n THEN NULL ELSE list[l + 1])
    BY DEF Chain
  <2>2. CASE j < i
    BY <1>1, <1>2, <2>1, <2>2
  <2>3. CASE j = i
    BY <1>1, <1>2, <2>3
  <2>4. CASE j = i + 1
    BY <1>1, <1>2, <2>4
  <2>5. CASE j > i + 1
    BY <1>1, <1>2, <2>1, <2>5
  <2>6. QED
    BY <1>2, <2>2, <2>3, <2>4, <2>5
<1>8. QED
  BY <1>2, <1>3, <1>5, <1>6, <1>7 DEF Chain, long

LEMMA RemoveHolds ==
  ASSUME NEW n \in Nat, NEW list \in [1 .. n -> Addresses], NEW i \in 1 .. n,
         \A j, k \in 1 .. n : list[j] = list[k] => j = k
  PROVE  \A a : InList(n - 1, Remove(n, list, i), a) <=> InList(n, list, a) /\ a # list[i]
<1> DEFINE short == Remove(n, list, i)
<1>1. \A j \in 1 .. n - 1 : short[j] = (IF j < i THEN list[j] ELSE list[j + 1])
  BY DEF Remove
<1> HIDE DEF short
<1>2. ASSUME NEW a, NEW j \in 1 .. n - 1, short[j] = a PROVE InList(n, list, a) /\ a # list[i]
  <2>1. PICK k \in 1 .. n : k # i /\ list[k] = a
    <3>1. CASE j < i
      BY <1>1, <1>2, <3>1
    <3>2. CASE j >= i
      <4>1. j + 1 \in 1 .. n /\ j + 1 # i /\ list[j + 1] = a
        BY <1>1, <1>2, <3>2
      <4>2. QED
        BY <4>1
    <3>3. QED
      BY <3>1, <3>2
  <2>2. QED
    BY <2>1 DEF InList
<1>3. ASSUME NEW a, NEW j \in 1 .. n, list[j] = a, a # list[i] PROVE InList(n - 1, short, a)
  <2>1. CASE j < i
    <3>1. j \in 1 .. n - 1 /\ short[j] = a
      BY <1>1, <1>3, <2>1
    <3>2. QED
      BY <3>1 DEF InList
  <2>2. CASE j > i
    <3>1. j - 1 \in 1 .. n - 1 /\ short[j - 1] = a
      BY <1>1, <1>3, <2>2
    <3>2. QED
      BY <3>1 DEF InList
  <2>3. QED
    BY <1>3, <2>1, <2>2
<1>4. QED
  BY <1>2, <1>3 DEF InList, short

LEMMA RemoveChain ==
  ASSUME NEW n, NEW list, NEW head, NEW nx, Chain(n, list, head, nx),
         NEW i \in 1 .. n, NEW nx2, NEW head2,
         head2 = (IF i = 1 THEN nx[list[1]] ELSE head),
         i > 1 => nx2[list[i - 1]] = nx[list[i]],
         \A j \in 1 .. n : j # i - 1 => nx2[list[j]] = nx[list[j]]
  PROVE  Chain(n - 1, Remove(n, list, i), head2, nx2)
<1> DEFINE short == Remove(n, list, i)
<1>1. \A j \in 1 .. n - 1 : short[j] = (IF j < i THEN list[j] ELSE list[j + 1])
  BY DEF Remove
<1>2. n \in Nat /\ list \in [1 .. n -> Addresses] /\ n - 1 \in Nat
  BY DEF Chain
<1>3. short \in [1 .. n - 1 -> Addresses]
  BY <1>2 DEF Remove
<1> HIDE DEF short
<1>4. \A l \in 1 .. n : nx[list[l]] = (IF l = n THEN NULL ELSE list[l + 1])
  BY DEF Chain
<1>5. ASSUME NEW j \in 1 .. n - 1, NEW k \in 1 .. n - 1, short[j] = short[k] PROVE j = k
  <2>1. \A l, m \in 1 .. n : list[l] = list[m] => l = m
    BY DEF Chain
  <2>2. QED
    BY <1>1, <1>2, <1>5, <2>1
<1>6. head2 = (IF n - 1 = 0 THEN NULL ELSE short[1])
  BY <1>1, <1>2, <1>4 DEF Chain
<1>7. ASSUME NEW j \in 1 .. n - 1
      PROVE  nx2[short[j]] = (IF j = n - 1 THEN NULL ELSE short[j + 1])
  <2>1. CASE j < i - 1
    BY <1>1, <1>2, <1>4, <2>1
  <2>2. CASE j = i - 1
    BY <1>1, <1>2, <1>4, <2>2
  <2>3. CASE j >= i
    BY <1>1, <1>2, <1>4, <2>3
  <2>4. QED
    BY <1>2, <2>1, <2>2, <2>3
<1>8. QED
  BY <1>2, <1>3, <1>5, <1>6, <1>7 DEF Chain, short

-----------------------------------------------------------------------------
(* Tiles.                                                                  *)

LEMMA TilesKept ==
  ASSUME NEW S, NEW sz, NEW sz2, Tiles(S, sz), \A a \in S : sz2[a] = sz[a]
  PROVE  Tiles(S, sz2)
BY DEF Tiles

LEMMA CutArith ==
  ASSUME NEW b \in Nat, NEW z \in Nat, NEW q \in Nat, NEW d \in Nat, z > q + d, d >= 1
  PROVE  /\ b + d + q \in Nat /\ b + d + q > b /\ b + d + q < b + d + z
         /\ z - d - q \in Nat /\ b + d + q + d + (z - d - q) = b + d + z
OBVIOUS

\* A block that is larger than q and a header can be cut: the cut is inside it.
LEMMA CutInside ==
  ASSUME NEW S \in SUBSET Addresses, NEW sz \in [Addresses -> Nat], Tiles(S, sz),
         NEW b \in S, NEW q \in Nat, sz[b] > q + HDR
  PROVE  /\ b + HDR + q \in Addresses \ S /\ b + HDR + q > b
         /\ sz[b] - HDR - q \in Nat
<1> DEFINE c == b + HDR + q
<1>1. b \in Nat /\ sz[b] \in Nat /\ b + HDR + sz[b] =< POOL_SIZE
  BY Sizes DEF Tiles
<1>2. c \in Nat /\ c > b /\ c < b + HDR + sz[b] /\ sz[b] - HDR - q \in Nat
  BY <1>1, CutArith, Sizes
<1> HIDE DEF c
<1>3. ASSUME c \in S PROVE FALSE
  <2>1. b + HDR + sz[b] =< c
    BY <1>2, <1>3 DEF Tiles
  <2>2. QED
    BY <1>1, <1>2, <2>1, Sizes
<1>4. c \in Addresses
  BY <1>1, <1>2, Sizes
<1>5. QED
  BY <1>2, <1>3, <1>4 DEF c

LEMMA TilesCut ==
  ASSUME NEW S \in SUBSET Addresses, NEW sz \in [Addresses -> Nat], Tiles(S, sz),
         NEW b \in S, NEW q \in Nat, sz[b] > q + HDR,
         NEW c, c = b + HDR + q, NEW sz2, sz2[b] = q, sz2[c] = sz[b] - HDR - q,
         \A a \in S : a # b => sz2[a] = sz[a]
  PROVE  Tiles(S \cup {c}, sz2)
<1>1. c \in Addresses \ S /\ c > b /\ sz[b] - HDR - q \in Nat
  BY CutInside
<1>2. b \in Nat /\ c \in Nat /\ sz[b] \in Nat
  BY <1>1, Sizes
<1>3. c + HDR + sz2[c] = b + HDR + sz[b] /\ b + HDR + sz2[b] = c
  BY <1>2, CutArith, Sizes
<1>4. ASSUME NEW a \in S \cup {c} PROVE a + HDR + sz2[a] =< POOL_SIZE
  <2>1. b + HDR + sz[b] =< POOL_SIZE
    BY DEF Tiles
  <2>2. POOL_SIZE \in Nat /\ HDR \in Nat
    BY Sizes
  <2>3. CASE a = b \/ a = c
    BY <1>1, <1>2, <1>3, <2>1, <2>2, <2>3
  <2>4. CASE a \in S /\ a # b
    BY <2>4 DEF Tiles
  <2>5. QED
    BY <2>3, <2>4
<1>5. ASSUME NEW a \in S, a # b PROVE a \in Nat /\ sz[a] \in Nat /\ sz2[a] = sz[a]
  <2>1. a \in Addresses /\ sz2[a] = sz[a]
    BY <1>5
  <2>2. QED
    BY <2>1, Sizes
<1>6. ASSUME NEW a \in S \cup {c}, NEW d \in S \cup {c}, a < d PROVE a + HDR + sz2[a] =< d
  <2>1. CASE a = c
    <3>1. d \in S /\ d \in Nat /\ b < d
      BY <1>1, <1>2, <1>6, <2>1, Sizes
    <3>2. b + HDR + sz[b] =< d
      BY <3>1 DEF Tiles
    <3>3. QED
      BY <1>3, <2>1, <3>2
  <2>2. CASE a = b
    <3>1. CASE d = c
      BY <1>3, <2>2, <3>1, <1>2
    <3>2. CASE d # c
      <4>1. d \in S /\ d \in Nat /\ b + HDR + sz[b] =< d
        BY <1>6, <2>2, <3>2, Sizes DEF Tiles
      <4>2. HDR \in Nat /\ sz2[c] \in Nat
        BY <1>1, Sizes
      <4>4. c =< b + HDR + sz[b] /\ b + HDR + sz[b] \in Nat
        BY <1>2, <1>3, <4>2
      <4>3. QED
        BY <4>1, <4>4, <1>2, <1>3, <2>2
    <3>3. QED
      BY <3>1, <3>2
  <2>3. CASE a \in S /\ a # b
    <3>1. CASE d \in S
      BY <1>5, <1>6, <2>3, <3>1 DEF Tiles
    <3>2. CASE d = c
      <4>1. CASE a < b
        <5>1. a + HDR + sz[a] =< b
          BY <2>3, <4>1 DEF Tiles
        <5>2. QED
          BY <5>1, <1>5, <2>3, <3>2, <1>1, <1>2, Sizes
      <4>2. CASE b < a
        <5>1. b + HDR + sz[b] =< a
          BY <2>3, <4>2 DEF Tiles
        <5>2. QED
          BY <5>1, <1>2, <1>5, <1>6, <2>3, <3>2, Sizes
      <4>3. QED
        BY <1>2, <1>5, <2>3, <4>1, <4>2
    <3>3. QED
      BY <3>1, <3>2
  <2>4. QED
    BY <2>1, <2>2, <2>3
<1>7. ASSUME NEW x \in Addresses PROVE \E a \in S \cup {c} : a =< x /\ x < a + HDR + sz2[a]
  <2>1. PICK a \in S : a =< x /\ x < a + HDR + sz[a]
    BY DEF Tiles
  <2>2. CASE a # b
    BY <1>5, <2>1, <2>2
  <2>3. CASE a = b /\ x < c
    BY <1>3, <2>1, <2>3
  <2>4. CASE a = b /\ x >= c
    <3>1. c =< x /\ x < c + HDR + sz2[c]
      BY <1>2, <1>3, <2>1, <2>4, Sizes
    <3>2. QED
      BY <3>1
  <2>5. QED
    BY <2>2, <2>3, <2>4, <1>2, Sizes
<1>8. QED
  BY <1>4, <1>6, <1>7 DEF Tiles

-----------------------------------------------------------------------------
(* What the steps keep.                                                    *)

Calm == P \notin {"free_link", "free_head", "split_link"}

LEMMA Went ==
  ASSUME Typed, NEW s, Goto("main", s)
  PROVE  P' = s /\ pc'["irq"] = "idle" /\ DOMAIN pc' = Actors
BY DEF Typed, Goto, P, Actors

LEMMA NothingLoose ==
  Calm => \A a : ~Loose(a)
BY DEF Calm, Loose

LEMMA InListBlock ==
  ASSUME NEW n, NEW list, Listed(n, list), NEW j \in 1 .. n
  PROVE  list[j] \in Blocks(n, list) /\ InList(n, list, list[j])
BY DEF Listed, Chain, Blocks, InList

LEMMA HeldBlock ==
  ASSUME NEW n, NEW list, Apart(n, list), NEW h \in held
  PROVE  h.at \in Blocks(n, list) /\ InUse(h.at)
BY DEF Apart, Blocks, InUse

\* A step that writes no header of a block and moves none.
LEMMA Kept ==
  ASSUME NEW n, NEW list, Listed(n, list), Tiled(n, list), Apart(n, list),
         free_list' = free_list, held' = held,
         \A j \in 1 .. n : next'[list[j]] = next[list[j]],
         \A a \in Blocks(n, list) : size'[a] = size[a],
         \A a \in Addresses : Loose(a)' <=> Loose(a),
         P' \in {"free_link", "free_head"} => B' \in Addresses
  PROVE  Listed(n, list)' /\ Tiled(n, list)' /\ Apart(n, list)'
<1>1. Listed(n, list)'
  BY DEF Listed, Chain
<1>2. \A a : InUse(a)' <=> InUse(a)
  BY DEF InUse
<1>3. Blocks(n, list)' = Blocks(n, list)
  BY <1>2 DEF Blocks
<1>4. Tiles(Blocks(n, list), size')
  BY TilesKept DEF Tiled
<1>5. Tiled(n, list)'
  BY <1>3, <1>4 DEF Tiled
<1>6. \A h \in held : size'[h.at] = size[h.at]
  BY HeldBlock
<1>7. Apart(n, list)'
  BY <1>2, <1>6 DEF Apart
<1>8. QED
  BY <1>1, <1>5, <1>7

LEMMA KeptCalm ==
  ASSUME NEW n, NEW list, Listed(n, list), Tiled(n, list), Apart(n, list), Calm, Calm',
         UNCHANGED <<heap, held>>
  PROVE  Listed(n, list)' /\ Tiled(n, list)' /\ Apart(n, list)'
<1>1. (\A a : ~Loose(a)) /\ (\A a : ~Loose(a))'
  BY NothingLoose, PTL
<1>2. P' \notin {"free_link", "free_head"}
  BY DEF Calm
<1>3. QED
  BY <1>1, <1>2, Kept DEF heap

\* Once malloc has found a block.
Found == {"fit", "split_size", "split_next", "split_cut", "split_link", "unlink", "relink"}

LEMMA AtBlock ==
  ASSUME Typed, NEW n, NEW list, NEW i, InvAt(n, list, i), P \in Found
  PROVE  /\ i \in 1 .. n /\ B = list[i] /\ B \in Addresses /\ B \in Blocks(n, list)
         /\ InList(n, list, B) /\ Q \in Nat /\ size[B] \in Nat /\ size[B] >= Q
<1>1. P \in MallocSteps /\ P \in MallocSteps \ {"scan", "advance", "none"}
  BY DEF Found, MallocSteps
<1>2. Q \in Nat /\ i \in 1 .. n + 1 /\ i =< n /\ size[B] >= Q
      /\ B = (IF i = n + 1 THEN NULL ELSE list[i])
  BY <1>1 DEF InvAt, Looking
<1>3. n \in Nat /\ list \in [1 .. n -> Addresses] /\ Listed(n, list)
  BY DEF InvAt, Listed, Chain
<1>4. i \in 1 .. n /\ B = list[i]
  BY <1>2, <1>3
<1>5. QED
  BY <1>2, <1>3, <1>4, InListBlock DEF Typed

\* While the tail is cut off, its header lies inside the block.
LEMMA CutFree ==
  ASSUME Typed, NEW n, NEW list, NEW i, InvAt(n, list, i),
         P \in {"split_size", "split_next", "split_cut"}
  PROVE  /\ Cut \in Addresses \ Blocks(n, list) /\ Cut = B + HDR + Q
         /\ size[B] - HDR - Q \in Nat /\ Cut # B
<1>1. P \in Found
  BY DEF Found
<1>2. B \in Addresses /\ B \in Blocks(n, list) /\ Q \in Nat
  BY <1>1, AtBlock
<1>3. size[B] > Q + HDR /\ Tiles(Blocks(n, list), size)
  BY DEF InvAt, Split, Tiled
<1>4. size \in [Addresses -> Nat] /\ Blocks(n, list) \in SUBSET Addresses
  BY DEF Typed, Blocks
<1>5. B + HDR + Q \in Addresses \ Blocks(n, list) /\ size[B] - HDR - Q \in Nat
  BY <1>2, <1>3, <1>4, CutInside
<1>6. Cut = B + HDR + Q
  BY DEF Cut, Rest, B, Q
<1>7. QED
  BY <1>2, <1>5, <1>6

-----------------------------------------------------------------------------
(* The steps, one lemma each.                                              *)

LEMMA StepMallocCall ==
  ASSUME HeapInv, NEW m \in Nat, P = "idle", Malloc("main", m),
         after' = [after EXCEPT !["main"] = after'["main"]],
         after'["main"] = NULL \/ InUse(after'["main"])
  PROVE  HeapInv'
<1>1. PICK n, list, i : InvAt(n, list, i)
  BY DEF HeapInv
<1>2. Typed /\ n \in Nat
  BY <1>1 DEF HeapInv, InvAt, Listed, Chain
<1>3. P' = "scan" /\ pc'["irq"] = "idle" /\ DOMAIN pc' = Actors
  BY <1>2, Went DEF Malloc
<1>4. UNCHANGED <<heap, held, reg>> /\ Q' = m /\ B' = free_list /\ prev_block'["main"] = NULL
      /\ DOMAIN req' = Actors /\ DOMAIN block' = Actors /\ DOMAIN prev_block' = Actors
  BY <1>2 DEF Malloc, Typed, Q, B, Actors
<1>5. DOMAIN after' = Actors
  BY <1>2 DEF Typed
<1>6. Typed'
  BY <1>2, <1>3, <1>4, <1>5 DEF Typed, heap, Steps, MallocSteps
<1>7. Listed(n, list)' /\ Tiled(n, list)' /\ Apart(n, list)'
  <2>1. Calm /\ Calm'
    BY <1>3 DEF Calm
  <2>2. QED
    BY <1>1, <1>4, <2>1, KeptCalm DEF InvAt
<1>8. Looking(n, list, 1)'
  <2>1. free_list = (IF 1 = n + 1 THEN NULL ELSE list[1])
    BY <1>1, <1>2 DEF InvAt, Listed, Chain
  <2>2. InUse(after'["main"]) => InUse(after["main"])'
    BY <1>4 DEF InUse
  <2>3. QED
    BY <1>2, <1>3, <1>4, <2>1, <2>2 DEF Looking, MallocSteps
<1>9. Split'
  BY <1>3 DEF Split
<1>10. QED
  BY <1>6, <1>7, <1>8, <1>9 DEF HeapInv, InvAt

\* Steps that only look.
LEMMA StepLook ==
  ASSUME HeapInv, MallocScan("main") \/ MallocAdvance("main") \/ MallocNull("main")
                  \/ MallocFit("main")
  PROVE  HeapInv'
<1>1. PICK n, list, i : InvAt(n, list, i)
  BY DEF HeapInv
<1>2. Typed /\ n \in Nat /\ list \in [1 .. n -> Addresses]
  BY <1>1 DEF HeapInv, InvAt, Listed, Chain
<1>3. NULL \notin Addresses
  BY Sizes
<1>4. P \in {"scan", "advance", "none", "fit"} /\ UNCHANGED <<heap, req, reg, after, held>>
      /\ DOMAIN block' = Actors /\ DOMAIN prev_block' = Actors
  BY <1>2 DEF MallocScan, MallocAdvance, MallocNull, MallocFit, At, P, Typed
<1>5. /\ Q \in Nat /\ i \in 1 .. n + 1
      /\ B = (IF i = n + 1 THEN NULL ELSE list[i])
      /\ prev_block["main"] = (IF i = 1 THEN NULL ELSE list[i - 1])
      /\ \A j \in 1 .. i - 1 : size[list[j]] < Q
      /\ after["main"] = NULL \/ InUse(after["main"])
      /\ P = "advance" => i =< n /\ size[B] < Q
      /\ P = "none" => i = n + 1
      /\ P = "fit" => i =< n /\ size[B] >= Q
  BY <1>1, <1>4 DEF InvAt, Looking, MallocSteps
<1>6. P' \in {"scan", "advance", "none", "fit", "idle", "split_size", "unlink"}
      /\ pc'["irq"] = "idle" /\ DOMAIN pc' = Actors
  BY <1>2, Went DEF MallocScan, MallocAdvance, MallocNull, MallocFit
<1>7. Typed'
  BY <1>2, <1>4, <1>6 DEF Typed, heap, Steps, MallocSteps
<1>8. Listed(n, list)' /\ Tiled(n, list)' /\ Apart(n, list)'
  <2>1. Calm /\ Calm'
    BY <1>4, <1>6 DEF Calm
  <2>2. QED
    BY <1>1, <1>4, <2>1, KeptCalm DEF InvAt
<1>9. Q' = Q /\ size' = size /\ after' = after /\ (InUse(after["main"])' <=> InUse(after["main"]))
  BY <1>4 DEF Q, heap, InUse
<1>10. CASE MallocScan("main")
  <2>1. B' = B /\ prev_block' = prev_block
    BY <1>10 DEF MallocScan, B
  <2>2. P' = (IF B = NULL THEN "none" ELSE IF size[B] < Q THEN "advance" ELSE "fit")
    BY <1>2, <1>10, Went DEF MallocScan, B, Q
  <2>3. B = NULL <=> i = n + 1
    BY <1>2, <1>3, <1>5
  <2>4. B # NULL => B \in Addresses /\ size[B] \in Nat
    BY <1>2, <1>5, <2>3 DEF Typed
  <2>5. Looking(n, list, i)'
    BY <1>2, <1>5, <1>9, <2>1, <2>2, <2>3, <2>4 DEF Looking, MallocSteps
  <2>6. Split'
    BY <2>2 DEF Split
  <2>7. QED
    BY <1>7, <1>8, <2>5, <2>6 DEF HeapInv, InvAt
<1>11. CASE MallocAdvance("main")
  <2>1. P = "advance" /\ P' = "scan"
    BY <1>2, <1>11, Went DEF MallocAdvance, At, P
  <2>2. i \in 1 .. n /\ B = list[i] /\ size[B] < Q
    BY <1>2, <1>5, <2>1
  <2>3. B' = next[B] /\ prev_block'["main"] = B
    BY <1>2, <1>11 DEF MallocAdvance, B, Typed, Actors
  <2>4. next[B] = (IF i = n THEN NULL ELSE list[i + 1])
    BY <1>1, <2>2 DEF InvAt, Listed, Chain
  <2>5. Looking(n, list, i + 1)'
    <3>1. \A j \in 1 .. i : size[list[j]] < Q
      BY <1>2, <1>5, <2>2
    <3>2. i + 1 \in 1 .. n + 1 /\ (i + 1 = n + 1 <=> i = n) /\ i + 1 # 1 /\ i + 1 - 1 = i
      BY <1>2, <2>2
    <3>3. QED
      BY <1>5, <1>9, <2>1, <2>2, <2>3, <2>4, <3>1, <3>2 DEF Looking
  <2>6. Split'
    BY <2>1 DEF Split
  <2>7. QED
    BY <1>7, <1>8, <2>5, <2>6 DEF HeapInv, InvAt
<1>12. CASE MallocNull("main")
  <2>1. P' = "idle"
    BY <1>2, <1>12, Went DEF MallocNull
  <2>2. Looking(n, list, i)' /\ Split'
    BY <2>1 DEF Looking, Split, MallocSteps
  <2>3. QED
    BY <1>7, <1>8, <2>2 DEF HeapInv, InvAt
<1>13. CASE MallocFit("main")
  <2>1. P = "fit" /\ P' = (IF size[B] > Q + HDR THEN "split_size" ELSE "unlink")
    BY <1>2, <1>13, Went DEF MallocFit, At, P, B, Q
  <2>2. B' = B /\ prev_block' = prev_block
    BY <1>13 DEF MallocFit, B
  <2>3. Looking(n, list, i)'
    BY <1>2, <1>5, <1>9, <2>1, <2>2 DEF Looking, MallocSteps
  <2>4. Split'
    BY <1>9, <2>1, <2>2 DEF Split
  <2>5. QED
    BY <1>7, <1>8, <2>3, <2>4 DEF HeapInv, InvAt
<1>14. QED
  BY <1>10, <1>11, <1>12, <1>13

LEMMA StepSplitSize ==
  ASSUME HeapInv, SplitSize("main") PROVE HeapInv'
<1>1. PICK n, list, i : InvAt(n, list, i)
  BY DEF HeapInv
<1>2. Typed /\ n \in Nat /\ list \in [1 .. n -> Addresses]
  BY <1>1 DEF HeapInv, InvAt, Listed, Chain
<1>3. P = "split_size" /\ P' = "split_next" /\ pc'["irq"] = "idle" /\ DOMAIN pc' = Actors
  BY <1>2, Went DEF SplitSize, At, P
<1>4. UNCHANGED <<free_list, next, req, prev_block, block, reg, after, held>>
  BY DEF SplitSize
<1>5. B' = B /\ Q' = Q /\ Cut' = Cut
  BY <1>4 DEF B, Q, Cut, Rest
<1>6. Cut \in Addresses \ Blocks(n, list) /\ size[B] - HDR - Q \in Nat /\ Cut # B
  BY <1>1, <1>2, <1>3, CutFree
<1>7. B \in Blocks(n, list) /\ B = list[i]
  BY <1>1, <1>2, <1>3, AtBlock DEF Found
<1>8. size' = [size EXCEPT ![Cut] = size[B] - HDR - Q]
  BY DEF SplitSize, Cut, B, Q
<1>9. size' \in [Addresses -> Nat] /\ size'[Cut] = size[B] - HDR - Q
      /\ \A a \in Addresses : a # Cut => size'[a] = size[a]
  BY <1>2, <1>6, <1>8 DEF Typed
<1>10. \A a \in Blocks(n, list) : size'[a] = size[a]
  BY <1>6, <1>9 DEF Blocks
<1>11. Typed'
  BY <1>2, <1>3, <1>4, <1>9 DEF Typed, Steps, MallocSteps
<1>12. Listed(n, list)' /\ Tiled(n, list)' /\ Apart(n, list)'
  <2>1. Calm /\ Calm'
    BY <1>3 DEF Calm
  <2>2. (\A a : ~Loose(a)) /\ (\A a : ~Loose(a))'
    BY <2>1, NothingLoose, PTL
  <2>3. QED
    BY <1>1, <1>3, <1>4, <1>10, <2>2, Kept DEF InvAt
<1>13. Looking(n, list, i)'
  <2>1. \A j \in 1 .. n : size'[list[j]] = size[list[j]]
    BY <1>1, <1>10, InListBlock DEF InvAt
  <2>2. size'[B] = size[B]
    BY <1>7, <1>10
  <2>3. InUse(after["main"])' <=> InUse(after["main"])
    BY <1>4 DEF InUse
  <2>4. \A j \in 1 .. i - 1 : i \in 1 .. n + 1 => j \in 1 .. n
    BY <1>2
  <2>5. QED
    BY <1>1, <1>3, <1>4, <1>5, <2>1, <2>2, <2>3, <2>4 DEF InvAt, Looking, MallocSteps
<1>14. Split'
  BY <1>1, <1>3, <1>5, <1>7, <1>9, <1>10 DEF InvAt, Split
<1>15. QED
  BY <1>11, <1>12, <1>13, <1>14 DEF HeapInv, InvAt

LEMMA StepSplitNext ==
  ASSUME HeapInv, SplitNext("main") PROVE HeapInv'
<1>1. PICK n, list, i : InvAt(n, list, i)
  BY DEF HeapInv
<1>2. Typed /\ n \in Nat /\ list \in [1 .. n -> Addresses]
  BY <1>1 DEF HeapInv, InvAt, Listed, Chain
<1>3. P = "split_next" /\ P' = "split_cut" /\ pc'["irq"] = "idle" /\ DOMAIN pc' = Actors
  BY <1>2, Went DEF SplitNext, At, P
<1>4. UNCHANGED <<free_list, size, req, prev_block, block, reg, after, held>>
  BY DEF SplitNext
<1>5. B' = B /\ Q' = Q /\ Cut' = Cut
  BY <1>4 DEF B, Q, Cut, Rest
<1>6. Cut \in Addresses \ Blocks(n, list) /\ Cut # B
  BY <1>1, <1>2, <1>3, CutFree
<1>7. B \in Addresses
  BY <1>1, <1>2, <1>3, AtBlock DEF Found
<1>8. next' = [next EXCEPT ![Cut] = next[B]]
  BY DEF SplitNext, Cut, B
<1>9. next' \in [Addresses -> Addresses \cup {NULL}] /\ next'[Cut] = next'[B]
      /\ \A a \in Addresses : a # Cut => next'[a] = next[a]
  BY <1>2, <1>6, <1>7, <1>8 DEF Typed
<1>10. \A j \in 1 .. n : next'[list[j]] = next[list[j]]
  <2>1. \A j \in 1 .. n : list[j] \in Addresses /\ list[j] # Cut
    BY <1>1, <1>2, <1>6, InListBlock DEF InvAt
  <2>2. QED
    BY <1>9, <2>1
<1>11. Typed'
  BY <1>2, <1>3, <1>4, <1>9 DEF Typed, Steps, MallocSteps
<1>12. Listed(n, list)' /\ Tiled(n, list)' /\ Apart(n, list)'
  <2>1. Calm /\ Calm'
    BY <1>3 DEF Calm
  <2>2. (\A a : ~Loose(a)) /\ (\A a : ~Loose(a))'
    BY <2>1, NothingLoose, PTL
  <2>3. QED
    BY <1>1, <1>3, <1>4, <1>10, <2>2, Kept DEF InvAt
<1>13. Looking(n, list, i)'
  <2>1. InUse(after["main"])' <=> InUse(after["main"])
    BY <1>4 DEF InUse
  <2>2. QED
    BY <1>1, <1>3, <1>4, <1>5, <2>1 DEF InvAt, Looking, MallocSteps
<1>14. Split'
  BY <1>1, <1>3, <1>4, <1>5, <1>9 DEF InvAt, Split
<1>15. QED
  BY <1>11, <1>12, <1>13, <1>14 DEF HeapInv, InvAt

\* The block becomes two: its front, and the tail that is on no list yet.
LEMMA StepSplitCut ==
  ASSUME HeapInv, SplitCut("main") PROVE HeapInv'
<1>1. PICK n, list, i : InvAt(n, list, i)
  BY DEF HeapInv
<1>2. Typed /\ n \in Nat /\ list \in [1 .. n -> Addresses] /\ Listed(n, list) /\ Apart(n, list)
  BY <1>1 DEF HeapInv, InvAt, Listed, Chain
<1>3. P = "split_cut" /\ P' = "split_link" /\ pc'["irq"] = "idle" /\ DOMAIN pc' = Actors
  BY <1>2, Went DEF SplitCut, At, P
<1>4. UNCHANGED <<free_list, next, req, prev_block, block, reg, after, held>>
  BY DEF SplitCut
<1>5. B' = B /\ Q' = Q /\ Cut' = Cut
  BY <1>4 DEF B, Q, Cut, Rest
<1>6. Cut \in Addresses \ Blocks(n, list) /\ Cut # B /\ Cut = B + HDR + Q
  BY <1>1, <1>2, <1>3, CutFree
<1>7. B \in Addresses /\ B \in Blocks(n, list) /\ B = list[i] /\ i \in 1 .. n /\ Q \in Nat
      /\ InList(n, list, B)
  BY <1>1, <1>2, <1>3, AtBlock DEF Found
<1>8. size' = [size EXCEPT ![B] = Q]
  BY DEF SplitCut, B, Q
<1>9. size' \in [Addresses -> Nat] /\ size'[B] = Q
      /\ \A a \in Addresses : a # B => size'[a] = size[a]
  BY <1>2, <1>7, <1>8 DEF Typed
<1>10. \A a : Loose(a)' <=> a = Cut
  BY <1>3, <1>5 DEF Loose
<1>11. \A a : ~Loose(a)
  BY <1>3 DEF Loose
<1>12. \A a : InUse(a)' <=> InUse(a)
  BY <1>4 DEF InUse
<1>13. ~InList(n, list, Cut) /\ ~InUse(Cut)
  BY <1>6 DEF Blocks
<1>14. Typed'
  BY <1>2, <1>3, <1>4, <1>9 DEF Typed, Steps, MallocSteps
<1>15. Listed(n, list)'
  BY <1>2, <1>4 DEF Listed
<1>16. Tiled(n, list)'
  <2>1. Blocks(n, list)' = Blocks(n, list) \cup {Cut}
    BY <1>6, <1>10, <1>11, <1>12 DEF Blocks
  <2>2. size[B] > Q + HDR /\ size[Cut] = size[B] - HDR - Q /\ Tiles(Blocks(n, list), size)
    BY <1>1, <1>3 DEF InvAt, Split, Tiled
  <2>3. size'[Cut] = size[B] - HDR - Q /\ \A a \in Blocks(n, list) : a # B => size'[a] = size[a]
    BY <1>6, <1>9, <2>2 DEF Blocks
  <2>4. Blocks(n, list) \in SUBSET Addresses /\ size \in [Addresses -> Nat]
    BY <1>2 DEF Blocks, Typed
  <2>5. Tiles(Blocks(n, list) \cup {Cut}, size')
    BY <1>6, <1>7, <1>9, <2>2, <2>3, <2>4, TilesCut
  <2>6. QED
    BY <2>1, <2>5 DEF Tiled
<1>17. Apart(n, list)'
  <2>1. \A h \in held : h.at \in Addresses /\ h.at # B
    BY <1>2, <1>7 DEF Apart
  <2>2. \A h \in held : size'[h.at] = size[h.at]
    BY <1>9, <2>1
  <2>3. QED
    BY <1>2, <1>3, <1>4, <1>10, <1>12, <1>13, <2>2 DEF Apart
<1>18. Looking(n, list, i)'
  <2>1. \A j \in 1 .. i - 1 : list[j] \in Addresses /\ list[j] # B
    BY <1>2, <1>7 DEF Listed, Chain
  <2>2. \A j \in 1 .. i - 1 : size'[list[j]] = size[list[j]]
    BY <1>9, <2>1
  <2>3. QED
    BY <1>1, <1>3, <1>4, <1>5, <1>7, <1>9, <1>12, <2>2 DEF InvAt, Looking, MallocSteps
<1>19. Split'
  BY <1>1, <1>3, <1>4, <1>5, <1>6, <1>9 DEF InvAt, Split
<1>20. QED
  BY <1>14, <1>15, <1>16, <1>17, <1>18, <1>19 DEF HeapInv, InvAt

\* The tail goes on the list behind its front.
LEMMA StepSplitLink ==
  ASSUME HeapInv, SplitLink("main") PROVE HeapInv'
<1>1. PICK n, list, i : InvAt(n, list, i)
  BY DEF HeapInv
<1>2. Typed /\ n \in Nat /\ list \in [1 .. n -> Addresses] /\ Listed(n, list) /\ Apart(n, list)
  BY <1>1 DEF HeapInv, InvAt, Listed, Chain
<1>3. P = "split_link"
  BY DEF SplitLink, At, P
<1>4. UNCHANGED <<free_list, size, req, prev_block, block, reg, after, held>>
  BY DEF SplitLink
<1>5. B' = B /\ Q' = Q /\ Cut' = Cut
  BY <1>4 DEF B, Q, Cut, Rest
<1>6. B \in Addresses /\ B = list[i] /\ i \in 1 .. n /\ Q \in Nat /\ InList(n, list, B)
  BY <1>1, <1>2, <1>3, AtBlock DEF Found
<1>7. Cut \in Addresses /\ Loose(Cut) /\ ~InList(n, list, Cut) /\ ~InUse(Cut) /\ size[B] = Q
      /\ next[Cut] = next[B]
  BY <1>1, <1>2, <1>3 DEF InvAt, Split, Loose, Apart
<1>8. after["main"] # B
  <2>1. after["main"] = NULL \/ InUse(after["main"])
    BY <1>1, <1>3 DEF InvAt, Looking, MallocSteps
  <2>2. ~InUse(B) /\ B # NULL
    BY <1>2, <1>6, Sizes DEF Apart, InUse
  <2>3. QED
    BY <2>1, <2>2
<1>9. P' = "unlink" /\ pc'["irq"] = "idle" /\ DOMAIN pc' = Actors
  BY <1>2, <1>8, Went DEF SplitLink, B
<1>10. next' = [next EXCEPT ![B] = Cut]
  BY DEF SplitLink, Cut, B
<1>11. next' \in [Addresses -> Addresses \cup {NULL}] /\ next'[B] = Cut
      /\ \A a \in Addresses : a # B => next'[a] = next[a]
  BY <1>2, <1>6, <1>7, <1>10 DEF Typed
<1>12. Typed'
  BY <1>2, <1>4, <1>9, <1>11 DEF Typed, Steps, MallocSteps
<1>0. PICK c \in Addresses : c = Cut
  BY <1>7
<1> DEFINE m == n + 1
           long == Insert(n, list, i, c)
<1>13. Listed(m, long)'
  <2>1. next[B] = (IF i = n THEN NULL ELSE list[i + 1])
    BY <1>2, <1>6 DEF Listed, Chain
  <2>2. Cut # B
    BY <1>6, <1>7
  <2>3. \A j \in 1 .. n : j # i => next'[list[j]] = next[list[j]]
    BY <1>2, <1>6, <1>11 DEF Listed, Chain
  <2>4. next'[Cut] = (IF i = n THEN NULL ELSE list[i + 1])
    BY <1>7, <1>11, <2>1, <2>2
  <2>5. free_list' = (IF i = 0 THEN Cut ELSE free_list) /\ i \in 0 .. n /\ next'[list[i]] = Cut
    BY <1>4, <1>6, <1>11
  <2>6. Chain(n, list, free_list, next)
    BY <1>2 DEF Listed
  <2>7. Chain(m, long, free_list', next')
    BY <1>0, <1>7, <2>3, <2>4, <2>5, <2>6, InsertChain
  <2>8. QED
    BY <2>7 DEF Listed
<1>14. \A a : InList(m, long, a) <=> InList(n, list, a) \/ a = Cut
  BY <1>0, <1>2, <1>6, InsertHolds
<1>15. \A a : InUse(a)' <=> InUse(a)
  BY <1>4 DEF InUse
<1>16. \A a : Loose(a) <=> a = Cut
  BY <1>3 DEF Loose
<1>17. \A a : ~Loose(a)'
  BY <1>9 DEF Loose
<1>18. Tiled(m, long)'
  <2>1. Blocks(m, long)' = Blocks(n, list)
    BY <1>7, <1>14, <1>15, <1>16, <1>17 DEF Blocks
  <2>2. QED
    BY <1>1, <1>4, <2>1 DEF InvAt, Tiled
<1>19. Apart(m, long)'
  <2>1. \A h \in held : h.at # Cut
    BY <1>7 DEF InUse
  <2> HIDE DEF m, long
  <2>2. QED
    BY <1>2, <1>4, <1>9, <1>14, <1>15, <1>17, <2>1 DEF Apart
<1>20. Looking(m, long, i)'
  <2>1. \A j \in 1 .. i : long[j] = list[j] /\ j \in 1 .. m
    BY <1>2, <1>6 DEF Insert
  <2>2. i \in 1 .. m + 1 /\ i # m + 1 /\ i # n + 1 /\ i \in 1 .. i /\ i =< m
        /\ \A j \in 1 .. i - 1 : j \in 1 .. i
    BY <1>2, <1>6
  <2>3. i # 1 => i - 1 \in 1 .. i
    BY <1>2, <1>6
  <2>4. size[B] >= Q
    BY <1>6, <1>7
  <2>5. /\ prev_block["main"] = (IF i = 1 THEN NULL ELSE list[i - 1])
        /\ \A j \in 1 .. i - 1 : size[list[j]] < Q
        /\ after["main"] = NULL \/ InUse(after["main"])
    BY <1>1, <1>3 DEF InvAt, Looking, MallocSteps
  <2>6. prev_block["main"] = (IF i = 1 THEN NULL ELSE long[i - 1])
        /\ \A j \in 1 .. i - 1 : size[long[j]] < Q
    BY <2>1, <2>2, <2>3, <2>5
  <2>7. B = (IF i = m + 1 THEN NULL ELSE long[i])
    BY <1>6, <2>1, <2>2
  <2> HIDE DEF m, long
  <2>8. QED
    BY <1>4, <1>5, <1>6, <1>9, <1>15, <2>2, <2>4, <2>5, <2>6, <2>7 DEF Looking
<1>21. Split'
  BY <1>9 DEF Split
<1>22. QED
  BY <1>12, <1>13, <1>18, <1>19, <1>20, <1>21 DEF HeapInv, InvAt

LEMMA StepUnlink ==
  ASSUME HeapInv, Unlink("main") PROVE HeapInv'
<1>1. PICK n, list, i : InvAt(n, list, i)
  BY DEF HeapInv
<1>2. Typed
  BY DEF HeapInv
<1>3. P = "unlink" /\ P' = "relink" /\ pc'["irq"] = "idle" /\ DOMAIN pc' = Actors
  BY <1>2, Went DEF Unlink, At, P
<1>4. UNCHANGED <<heap, req, prev_block, block, after, held>> /\ B' = B /\ Q' = Q
  BY DEF Unlink, B, Q
<1>5. DOMAIN reg' = Actors /\ reg'["main"] = next[B]
  BY <1>2 DEF Unlink, B, Typed, Actors
<1>6. Typed'
  BY <1>2, <1>3, <1>4, <1>5 DEF Typed, heap, Steps, MallocSteps
<1>7. Listed(n, list)' /\ Tiled(n, list)' /\ Apart(n, list)'
  <2>1. Calm /\ Calm'
    BY <1>3 DEF Calm
  <2>2. QED
    BY <1>1, <1>4, <2>1, KeptCalm DEF InvAt
<1>8. Looking(n, list, i)'
  <2>1. InUse(after["main"])' <=> InUse(after["main"])
    BY <1>4 DEF InUse
  <2>2. QED
    BY <1>1, <1>3, <1>4, <2>1 DEF InvAt, Looking, MallocSteps, heap
<1>9. Split'
  BY <1>3, <1>4, <1>5 DEF Split, heap
<1>10. QED
  BY <1>6, <1>7, <1>8, <1>9 DEF HeapInv, InvAt

\* The block leaves the list for the client; the one realloc replaces is
\* nobody's until it is on the list.
LEMMA StepRelink ==
  ASSUME HeapInv, Relink("main") PROVE HeapInv'
<1>1. PICK n, list, i : InvAt(n, list, i)
  BY DEF HeapInv
<1>2. Typed /\ n \in Nat /\ list \in [1 .. n -> Addresses] /\ Listed(n, list) /\ Apart(n, list)
  BY <1>1 DEF HeapInv, InvAt, Listed, Chain
<1>3. P = "relink"
  BY DEF Relink, At, P
<1>4. UNCHANGED <<size, req, prev_block, reg, after>>
  BY DEF Relink
<1>5. B \in Addresses /\ B = list[i] /\ i \in 1 .. n /\ Q \in Nat /\ size[B] >= Q
      /\ InList(n, list, B) /\ B \in Blocks(n, list)
  BY <1>1, <1>2, <1>3, AtBlock DEF Found
<1>6. PICK b, s : b \in Addresses /\ b = B /\ s = after["main"]
  BY <1>5
<1>7. s = NULL \/ InUse(s)
  BY <1>1, <1>3, <1>6 DEF InvAt, Looking, MallocSteps
<1>8. reg["main"] = next[b] /\ prev_block["main"] = (IF i = 1 THEN NULL ELSE list[i - 1])
  BY <1>1, <1>3, <1>6 DEF InvAt, Looking, MallocSteps, Split
<1>9. held' = {h \in held : h.at # s} \cup {[at |-> b, len |-> Q, by |-> "main"]}
  BY <1>6 DEF Relink, B, Q
<1>10. NULL \notin Addresses /\ \A j \in 1 .. n : list[j] # NULL
  BY <1>2, Sizes
<1>11. s # b /\ ~InUse(b)
  BY <1>2, <1>5, <1>6, <1>7, Sizes DEF Apart, InUse
<1>12. s # NULL => s \in Addresses /\ ~InList(n, list, s)
  BY <1>2, <1>7 DEF Apart, InUse
<1>13. pc'["irq"] = "idle" /\ DOMAIN pc' = Actors /\ P' = (IF s = NULL THEN "idle" ELSE "free_link")
       /\ DOMAIN block' = Actors /\ (s # NULL => B' = s)
  <2>1. CASE s = NULL
    <3>1. Goto("main", "idle") /\ block' = block
      BY <1>6, <2>1 DEF Relink
    <3>2. QED
      BY <1>2, <2>1, <3>1, Went DEF Typed
  <2>2. CASE s # NULL
    <3>1. Goto("main", "free_link") /\ block' = [block EXCEPT !["main"] = s]
      BY <1>6, <2>2 DEF Relink
    <3>2. QED
      BY <1>2, <2>2, <3>1, Went DEF Typed, B, Actors
  <2>3. QED
    BY <2>1, <2>2
<1>14. IF i = 1 THEN free_list' = next[b] /\ next' = next
       ELSE next' = [next EXCEPT ![list[i - 1]] = next[b]] /\ free_list' = free_list
  <2>1. i # 1 => i - 1 \in 1 .. n
    BY <1>2, <1>5
  <2>2. prev_block["main"] = NULL <=> i = 1
    BY <1>8, <1>10, <2>1
  <2>3. QED
    BY <1>8, <2>2 DEF Relink
<1>15. next' \in [Addresses -> Addresses \cup {NULL}]
  BY <1>2, <1>6, <1>14 DEF Typed
<1>16. Typed'
  BY <1>2, <1>4, <1>13, <1>15 DEF Typed, Steps, FreeSteps
<1> DEFINE m == n - 1
           short == Remove(n, list, i)
<1>17. Listed(m, short)'
  <2>1. Chain(n, list, free_list, next)
    BY <1>2 DEF Listed
  <2>2. free_list' = (IF i = 1 THEN next[list[1]] ELSE free_list)
    BY <1>5, <1>6, <1>14
  <2>3. i > 1 => next'[list[i - 1]] = next[list[i]]
    <3>1. i > 1 => i - 1 \in 1 .. n /\ list[i - 1] \in Addresses
      BY <1>2, <1>5
    <3>2. QED
      BY <1>2, <1>5, <1>6, <1>14, <3>1 DEF Typed
  <2>4. ASSUME NEW j \in 1 .. n, j # i - 1 PROVE next'[list[j]] = next[list[j]]
    <3>1. CASE i = 1
      BY <1>14, <3>1
    <3>2. CASE i # 1
      <4>1. i - 1 \in 1 .. n
        BY <1>2, <1>5, <3>2
      <4>2. list[j] # list[i - 1] /\ list[j] \in Addresses
        BY <1>2, <2>4, <4>1 DEF Listed, Chain
      <4>3. QED
        BY <1>2, <1>14, <3>2, <4>2 DEF Typed
    <3>3. QED
      BY <3>1, <3>2
  <2>5. Chain(m, short, free_list', next')
    BY <1>5, <2>1, <2>2, <2>3, <2>4, RemoveChain
  <2>6. QED
    BY <2>5 DEF Listed
<1>18. \A a : InList(m, short, a) <=> InList(n, list, a) /\ a # b
  BY <1>2, <1>5, <1>6, RemoveHolds DEF Listed, Chain
<1> HIDE DEF m, short
<1>19. \A a : InUse(a)' <=> (InUse(a) /\ a # s) \/ a = b
  <2>1. ASSUME NEW a, InUse(a)' PROVE (InUse(a) /\ a # s) \/ a = b
    BY <1>9, <2>1 DEF InUse
  <2>2. ASSUME NEW a, InUse(a), a # s PROVE InUse(a)'
    BY <1>9, <2>2 DEF InUse
  <2>3. InUse(b)'
    <3>1. [at |-> b, len |-> Q, by |-> "main"] \in held'
      BY <1>9
    <3>2. QED
      BY <3>1 DEF InUse
  <2>4. QED
    BY <2>1, <2>2, <2>3
<1>20. \A a \in Addresses : Loose(a)' <=> a = s
  BY <1>12, <1>13, Sizes DEF Loose
<1>21. \A a : ~Loose(a)
  BY <1>3 DEF Loose
<1>22. Tiled(m, short)'
  <2>1. Blocks(m, short)' = Blocks(n, list)
    <3>1. \A a \in Addresses : InList(m, short, a) \/ InUse(a)' \/ Loose(a)'
                                <=> InList(n, list, a) \/ InUse(a) \/ Loose(a)
      BY <1>5, <1>6, <1>7, <1>12, <1>18, <1>19, <1>20, <1>21, Sizes
    <3>2. QED
      BY <3>1 DEF Blocks
  <2>2. QED
    BY <1>1, <1>4, <2>1 DEF InvAt, Tiled
<1>23. Apart(m, short)'
  <2>1. \A h \in held : h \in held => h.at # b
    BY <1>11 DEF InUse
  <2>2. ASSUME NEW h \in held'
        PROVE  /\ h.at \in Addresses /\ h.len \in Nat /\ h.len =< size'[h.at] /\ h.by = "main"
               /\ ~InList(m, short, h.at)
    <3>1. CASE h \in held
      BY <1>2, <1>4, <1>18, <3>1 DEF Apart
    <3>2. CASE h = [at |-> b, len |-> Q, by |-> "main"]
      BY <1>4, <1>5, <1>6, <1>18, <3>2
    <3>3. QED
      BY <1>9, <2>2, <3>1, <3>2
  <2>3. ASSUME NEW h \in held', NEW k \in held', h.at = k.at PROVE h = k
    <3>1. CASE h \in held /\ k \in held
      BY <1>2, <2>3, <3>1 DEF Apart
    <3>2. CASE ~(h \in held /\ k \in held)
      BY <1>9, <2>1, <2>3, <3>2
    <3>3. QED
      BY <3>1, <3>2
  <2>4. P' \in {"free_link", "free_head"} => B' \in Addresses
    BY <1>12, <1>13
  <2>5. \A a \in Addresses : Loose(a)' => ~InList(m, short, a) /\ ~InUse(a)'
    BY <1>11, <1>12, <1>18, <1>19, <1>20, Sizes
  <2>6. QED
    BY <2>2, <2>3, <2>4, <2>5 DEF Apart
<1>24. Looking(m, short, i)'
  BY <1>13 DEF Looking, MallocSteps
<1>25. Split'
  BY <1>13 DEF Split
<1>26. QED
  BY <1>16, <1>17, <1>22, <1>23, <1>24, <1>25 DEF HeapInv, InvAt

LEMMA StepFreeCall ==
  ASSUME HeapInv, NEW h \in held, FreeCall(h) PROVE HeapInv'
<1>1. PICK n, list, i : InvAt(n, list, i)
  BY DEF HeapInv
<1>2. Typed /\ Listed(n, list) /\ Apart(n, list)
  BY <1>1 DEF HeapInv, InvAt
<1>3. P = "idle" /\ P' = "free_link" /\ pc'["irq"] = "idle" /\ DOMAIN pc' = Actors
  BY <1>2, Went DEF FreeCall, Free, At, P
<1>4. UNCHANGED <<heap, req, prev_block, reg, after>> /\ held' = held \ {h} /\ B' = h.at
      /\ DOMAIN block' = Actors
  BY <1>2 DEF FreeCall, Free, B, Typed, Actors
<1>5. Typed'
  BY <1>2, <1>3, <1>4 DEF Typed, heap, Steps, FreeSteps
<1>6. h.at \in Addresses /\ ~InList(n, list, h.at) /\ InUse(h.at)
  BY <1>2, HeldBlock DEF Apart
<1>7. \A a : InUse(a)' <=> InUse(a) /\ a # h.at
  BY <1>2, <1>4 DEF InUse, Apart
<1>8. \A a : (Loose(a)' <=> a = h.at) /\ ~Loose(a)
  BY <1>3, <1>4 DEF Loose
<1>9. Listed(n, list)'
  BY <1>2, <1>4 DEF Listed, heap
<1>10. Tiled(n, list)'
  <2>1. Blocks(n, list)' = Blocks(n, list)
    BY <1>6, <1>7, <1>8 DEF Blocks
  <2>2. QED
    BY <1>1, <1>4, <2>1 DEF InvAt, Tiled, heap
<1>11. Apart(n, list)'
  <2>1. size' = size /\ \A k \in held' : k \in held
    BY <1>4 DEF heap
  <2>2. \A a \in Addresses : Loose(a)' => ~InList(n, list, a) /\ ~InUse(a)'
    BY <1>6, <1>7, <1>8
  <2>3. QED
    BY <1>2, <1>4, <1>6, <2>1, <2>2 DEF Apart
<1>12. Looking(n, list, i)' /\ Split'
  BY <1>3 DEF Looking, Split, MallocSteps
<1>13. QED
  BY <1>5, <1>9, <1>10, <1>11, <1>12 DEF HeapInv, InvAt

LEMMA StepFreeLink ==
  ASSUME HeapInv, FreeLink("main") PROVE HeapInv'
<1>1. PICK n, list, i : InvAt(n, list, i)
  BY DEF HeapInv
<1>2. Typed /\ n \in Nat /\ list \in [1 .. n -> Addresses] /\ Listed(n, list) /\ Apart(n, list)
  BY <1>1 DEF HeapInv, InvAt, Listed, Chain
<1>3. P = "free_link" /\ P' = "free_head" /\ pc'["irq"] = "idle" /\ DOMAIN pc' = Actors
  BY <1>2, Went DEF FreeLink, At, P
<1>4. UNCHANGED <<free_list, size, req, prev_block, block, reg, after, held>> /\ B' = B
  BY DEF FreeLink, B
<1>5. B \in Addresses /\ ~InList(n, list, B)
  BY <1>2, <1>3 DEF Apart, Loose
<1>6. free_list \in Addresses \cup {NULL}
  BY <1>2 DEF Listed, Chain
<1>7. next' = [next EXCEPT ![B] = free_list]
  BY DEF FreeLink, B
<1>8. next' \in [Addresses -> Addresses \cup {NULL}] /\ next'[B] = free_list
      /\ \A j \in 1 .. n : next'[list[j]] = next[list[j]]
  BY <1>2, <1>5, <1>6, <1>7 DEF Typed, InList
<1>9. Typed'
  BY <1>2, <1>3, <1>4, <1>8 DEF Typed, Steps, FreeSteps
<1>10. Listed(n, list)' /\ Tiled(n, list)' /\ Apart(n, list)'
  <2>1. \A a : Loose(a)' <=> Loose(a)
    BY <1>3, <1>4 DEF Loose
  <2>2. Tiled(n, list)
    BY <1>1 DEF InvAt
  <2>3. QED
    BY <1>2, <1>4, <1>5, <1>8, <2>1, <2>2, Kept
<1>11. Looking(n, list, i)'
  BY <1>3 DEF Looking, MallocSteps
<1>12. Split'
  BY <1>3, <1>4, <1>8 DEF Split
<1>13. QED
  BY <1>9, <1>10, <1>11, <1>12 DEF HeapInv, InvAt

LEMMA StepFreeHead ==
  ASSUME HeapInv, FreeHead("main") PROVE HeapInv'
<1>1. PICK n, list, i : InvAt(n, list, i)
  BY DEF HeapInv
<1>2. Typed /\ n \in Nat /\ list \in [1 .. n -> Addresses] /\ Listed(n, list) /\ Apart(n, list)
  BY <1>1 DEF HeapInv, InvAt, Listed, Chain
<1>3. P = "free_head" /\ P' = "idle" /\ pc'["irq"] = "idle" /\ DOMAIN pc' = Actors
  BY <1>2, Went DEF FreeHead, At, P
<1>4. UNCHANGED <<size, next, req, prev_block, block, reg, after, held>> /\ free_list' = B
  BY DEF FreeHead, B
<1>5. PICK b \in Addresses : b = B /\ ~InList(n, list, b) /\ ~InUse(b)
  BY <1>2, <1>3 DEF Apart, Loose
<1>6. next[b] = free_list
  BY <1>1, <1>3, <1>5 DEF InvAt, Split
<1>7. Typed'
  BY <1>2, <1>3, <1>4 DEF Typed, Steps
<1> DEFINE m == n + 1
           long == Insert(n, list, 0, b)
<1>8. 0 \in 0 .. n
  BY <1>2
<1>9. Listed(m, long)'
  <2>1. free_list = (IF 0 = n THEN NULL ELSE list[0 + 1]) /\ Chain(n, list, free_list, next)
    BY <1>2 DEF Listed, Chain
  <2>2. next'[b] = (IF 0 = n THEN NULL ELSE list[0 + 1])
    BY <1>4, <1>6, <2>1
  <2>3. Chain(m, long, free_list', next')
    BY <1>4, <1>5, <1>8, <2>1, <2>2, InsertChain
  <2>4. QED
    BY <2>3 DEF Listed
<1>10. \A a : InList(m, long, a) <=> InList(n, list, a) \/ a = b
  BY <1>2, <1>8, InsertHolds
<1> HIDE DEF m, long
<1>11. \A a : InUse(a)' <=> InUse(a)
  BY <1>4 DEF InUse
<1>12. \A a : (Loose(a) <=> a = b) /\ ~Loose(a)'
  BY <1>3, <1>5 DEF Loose
<1>13. Tiled(m, long)'
  <2>1. Blocks(m, long)' = Blocks(n, list)
    BY <1>10, <1>11, <1>12 DEF Blocks
  <2>2. QED
    BY <1>1, <1>4, <2>1 DEF InvAt, Tiled
<1>14. Apart(m, long)'
  <2>1. \A h \in held : h.at # b
    BY <1>5 DEF InUse
  <2>2. QED
    BY <1>2, <1>3, <1>4, <1>10, <1>11, <1>12, <2>1 DEF Apart
<1>15. Looking(m, long, i)' /\ Split'
  BY <1>3 DEF Looking, Split, MallocSteps
<1>16. QED
  BY <1>7, <1>9, <1>13, <1>14, <1>15 DEF HeapInv, InvAt

-----------------------------------------------------------------------------
(* The invariant holds.                                                    *)

LEMMA HeapStarts == Init => HeapInv
<1> SUFFICES ASSUME Init PROVE HeapInv
  OBVIOUS
<1> USE Sizes
<1> DEFINE one == [j \in 1 .. 1 |-> 0]
<1>1. POOL_SIZE - HDR \in Nat /\ 0 \in Nat
  OBVIOUS
<1>2. size \in [Addresses -> Nat] /\ size[0] = POOL_SIZE - HDR
  BY <1>1 DEF Init
<1>3. Typed
  BY <1>2 DEF Init, Typed, P, Steps, Actors
<1>4. P = "idle" /\ held = {} /\ free_list = 0 /\ next[0] = NULL
  BY DEF Init, P, Actors
<1>5. Listed(1, one)
  BY <1>4 DEF Listed, Chain
<1>6. Blocks(1, one) = {0}
  BY <1>4 DEF Blocks, InList, InUse, Loose
<1>7. Tiled(1, one)
  <2>1. 0 + HDR + size[0] = POOL_SIZE
    BY <1>2
  <2>2. \A x \in Addresses : 0 =< x /\ x < POOL_SIZE
    OBVIOUS
  <2>3. QED
    BY <1>6, <2>1, <2>2 DEF Tiled, Tiles
<1>8. Apart(1, one)
  BY <1>4 DEF Apart, Loose
<1>9. Looking(1, one, 1) /\ Split
  BY <1>4 DEF Looking, Split, MallocSteps
<1>10. QED
  BY <1>3, <1>5, <1>7, <1>8, <1>9 DEF HeapInv, InvAt

LEMMA HeapSteps ==
  ASSUME HeapInv, [Next]_vars PROVE HeapInv'
<1>1. \A m \in Requests : m \in Nat
  BY HeapAssumption
<1>2. ASSUME NEW m \in Requests, MallocCall("main", m) PROVE HeapInv'
  <2>1. P = "idle" /\ Malloc("main", m) /\ after' = [after EXCEPT !["main"] = NULL]
    BY <1>2 DEF MallocCall, At, P
  <2>2. after'["main"] = NULL
    BY <2>1 DEF HeapInv, Typed, Actors
  <2>3. QED
    BY <1>1, <2>1, <2>2, StepMallocCall
<1>3. ASSUME NEW h \in held, NEW m \in Requests, ReallocGrow(h, m) PROVE HeapInv'
  <2>1. P = "idle" /\ Malloc("main", m) /\ after' = [after EXCEPT !["main"] = h.at]
    BY <1>3 DEF ReallocGrow, At, P
  <2>2. after'["main"] = h.at /\ InUse(h.at)
    BY <2>1 DEF HeapInv, Typed, Actors, InUse
  <2>3. QED
    BY <1>1, <2>1, <2>2, StepMallocCall
<1>4. CASE Calls
  BY <1>2, <1>4, StepFreeCall DEF Calls
<1>5. CASE Grows
  BY <1>3, <1>5 DEF Grows
<1>6. CASE Step("main")
  BY <1>6, StepLook, StepSplitSize, StepSplitNext, StepSplitCut, StepSplitLink,
     StepUnlink, StepRelink, StepFreeLink, StepFreeHead DEF Step
<1>7. CASE UNCHANGED vars
  <2>1. PICK n, list, i : InvAt(n, list, i)
    BY DEF HeapInv
  <2>2. UNCHANGED <<free_list, size, next, pc, req, prev_block, block, reg, after, held>>
    BY <1>7 DEF vars, heap, locals
  <2>3. P' = P /\ B' = B /\ Q' = Q /\ Cut' = Cut
    BY <2>2 DEF P, B, Q, Cut, Rest
  <2>4. \A a : (InUse(a)' <=> InUse(a)) /\ (Loose(a)' <=> Loose(a))
    BY <2>2, <2>3 DEF InUse, Loose
  <2>5. Listed(n, list)' /\ Tiled(n, list)' /\ Apart(n, list)'
    <3>1. P \in {"free_link", "free_head"} => B \in Addresses
      BY <2>1 DEF InvAt, Apart
    <3>2. QED
      BY <2>1, <2>2, <2>3, <2>4, <3>1, Kept DEF InvAt
  <2>6. Looking(n, list, i)' /\ Split'
    BY <2>1, <2>2, <2>3, <2>4 DEF InvAt, Looking, Split
  <2>7. Typed'
    BY <2>2, <2>3 DEF HeapInv, Typed
  <2>8. QED
    BY <2>5, <2>6, <2>7 DEF HeapInv, InvAt
<1>8. QED
  BY <1>4, <1>5, <1>6, <1>7 DEF Next

\* The header of every block, the free list and the place at which malloc
\* looks agree after every load and store of malloc, free and realloc, whatever
\* the size of the pool and of the requests, as long as nothing interrupts
\* kernel_main.
THEOREM HeapInvariant == Spec => []HeapInv
<1>1. HeapInv /\ [Next]_vars => HeapInv'
  BY HeapSteps
<1>2. QED
  BY HeapStarts, <1>1, PTL DEF Spec

-----------------------------------------------------------------------------
(* What FreeWalk finds.                                                    *)

LEMMA Least ==
  ASSUME NEW T \in SUBSET Nat, T # {}
  PROVE  \E m \in T : \A n \in T : m =< n
<1>1. PICK m \in T : \A n \in T : <<n, m>> \notin OpToRel(<, Nat)
  BY NatLessThanWellFounded, WFMin, Zenon
<1>2. ASSUME NEW n \in T PROVE m =< n
  <2>1. <<n, m>> \notin {ss \in Nat \X Nat : ss[1] < ss[2]}
    BY <1>1 DEF OpToRel
  <2>2. n \in Nat /\ m \in Nat
    OBVIOUS
  <2>3. QED
    BY <2>1, <2>2
<1>3. QED
  BY <1>2

\* FreeWalk satisfies the equation that defines it, when some function does.
LEMMA Unfold ==
  ASSUME NEW W, W = [k \in 0 .. POOL_SIZE |->
                       IF k = 0 THEN {free_list} \ {NULL}
                       ELSE {next[a] : a \in W[k - 1]} \ {NULL}]
  PROVE  FreeWalk = [k \in 0 .. POOL_SIZE |->
                       IF k = 0 THEN {free_list} \ {NULL}
                       ELSE {next[a] : a \in FreeWalk[k - 1]} \ {NULL}]
BY Zenon DEF FreeWalk

Walked(n, list) ==
  [k \in 0 .. POOL_SIZE |-> IF k < n THEN {list[k + 1]} ELSE {}]

\* One step of the walk of a chain.
LEMMA WalkStep ==
  ASSUME NEW n, NEW list, Listed(n, list), NEW k \in 0 .. POOL_SIZE
  PROVE  Walked(n, list)[k] = IF k = 0 THEN {free_list} \ {NULL}
                              ELSE {next[a] : a \in Walked(n, list)[k - 1]} \ {NULL}
<1>1. n \in Nat /\ list \in [1 .. n -> Addresses]
      /\ free_list = (IF n = 0 THEN NULL ELSE list[1])
      /\ \A j \in 1 .. n : next[list[j]] = (IF j = n THEN NULL ELSE list[j + 1])
  BY DEF Listed, Chain
<1>2. \A j \in 1 .. n : list[j] # NULL
  BY <1>1, Sizes
<1>3. Walked(n, list)[k] = IF k < n THEN {list[k + 1]} ELSE {}
  BY DEF Walked
<1>4. CASE k = 0
  <2>1. CASE n = 0
    BY <1>1, <1>3, <1>4, <2>1
  <2>2. CASE n # 0
    BY <1>1, <1>2, <1>3, <1>4, <2>2
  <2>3. QED
    BY <2>1, <2>2
<1>5. CASE k # 0
  <2>1. k - 1 \in 0 .. POOL_SIZE /\ k - 1 + 1 = k
    BY <1>5, Sizes
  <2>2. Walked(n, list)[k - 1] = IF k - 1 < n THEN {list[k]} ELSE {}
    BY <2>1 DEF Walked
  <2>3. CASE k < n
    <3>1. k \in 1 .. n /\ k + 1 \in 1 .. n /\ k # n /\ k - 1 < n
      BY <1>1, <1>5, <2>3
    <3>2. next[list[k]] = list[k + 1] /\ list[k + 1] # NULL
      BY <1>1, <1>2, <3>1
    <3>3. QED
      BY <1>3, <1>5, <2>2, <2>3, <3>1, <3>2
  <2>4. CASE k = n
    <3>1. k \in 1 .. n /\ k - 1 < n /\ ~(k < n)
      BY <1>1, <1>5, <2>4
    <3>2. next[list[k]] = NULL
      BY <1>1, <2>4, <3>1
    <3>3. QED
      BY <1>3, <1>5, <2>2, <3>1, <3>2
  <2>5. CASE k > n
    <3>1. ~(k < n) /\ ~(k - 1 < n)
      BY <1>1, <2>5
    <3>2. QED
      BY <1>3, <1>5, <2>2, <3>1
  <2>6. QED
    BY <1>1, <2>3, <2>4, <2>5
<1>6. QED
  BY <1>4, <1>5

\* The k-th step of the walk is at the k-th block of the list.
LEMMA WalkIs ==
  ASSUME NEW n, NEW list, Listed(n, list)
  PROVE  \A k \in 0 .. POOL_SIZE : FreeWalk[k] = IF k < n THEN {list[k + 1]} ELSE {}
<1> DEFINE W == Walked(n, list)
<1>1. W = [k \in 0 .. POOL_SIZE |-> IF k = 0 THEN {free_list} \ {NULL}
                                    ELSE {next[a] : a \in W[k - 1]} \ {NULL}]
  <2>1. W = [k \in 0 .. POOL_SIZE |-> W[k]]
    BY DEF Walked
  <2> HIDE DEF W
  <2>2. \A k \in 0 .. POOL_SIZE : W[k] = IF k = 0 THEN {free_list} \ {NULL}
                                          ELSE {next[a] : a \in W[k - 1]} \ {NULL}
    BY WalkStep DEF W
  <2>3. QED
    BY <2>1, <2>2, Zenon
<1> HIDE DEF W
<1>2. FreeWalk = [k \in 0 .. POOL_SIZE |-> IF k = 0 THEN {free_list} \ {NULL}
                                    ELSE {next[a] : a \in FreeWalk[k - 1]} \ {NULL}]
  BY <1>1, Unfold
<1> DEFINE Bad == {k \in 0 .. POOL_SIZE : FreeWalk[k] # W[k]}
<1>3. ASSUME Bad # {} PROVE FALSE
  <2>1. PICK m \in Bad : \A k \in Bad : m =< k
    <3>1. Bad \in SUBSET Nat
      BY Sizes
    <3> HIDE DEF Bad
    <3>2. QED
      BY <1>3, <3>1, Least
  <2>2. m \in 0 .. POOL_SIZE /\ FreeWalk[m] # W[m]
    OBVIOUS
  <2>3. CASE m = 0
    BY <1>1, <1>2, <2>2, <2>3, Zenon
  <2>4. CASE m # 0
    <3>1. m - 1 \in 0 .. POOL_SIZE /\ ~(m =< m - 1)
      BY <2>2, <2>4, Sizes
    <3>2. FreeWalk[m - 1] = W[m - 1]
      BY <2>1, <3>1
    <3>3. FreeWalk[m] = {next[a] : a \in FreeWalk[m - 1]} \ {NULL}
      BY <1>2, <2>2, <2>4, Zenon
    <3>4. W[m] = {next[a] : a \in W[m - 1]} \ {NULL}
      BY <1>1, <2>2, <2>4, Zenon
    <3>5. QED
      BY <2>2, <3>2, <3>3, <3>4
  <2>5. QED
    BY <2>3, <2>4
<1>4. \A k \in 0 .. POOL_SIZE : FreeWalk[k] = W[k]
  BY <1>3
<1>5. QED
  BY <1>4 DEF W, Walked

\* A list without a cycle has no more blocks than the pool has bytes.
LEMMA ListFits ==
  ASSUME NEW n, NEW list, Listed(n, list)
  PROVE  n =< POOL_SIZE
<1>1. n \in Nat /\ list \in [1 .. n -> Addresses]
      /\ \A j, k \in 1 .. n : list[j] = list[k] => j = k
  BY DEF Listed, Chain
<1>2. IsFiniteSet(1 .. n) /\ Cardinality(1 .. n) = n
      /\ IsFiniteSet(Addresses) /\ Cardinality(Addresses) = POOL_SIZE
  BY <1>1, Sizes, FS_Interval
<1>3. ASSUME POOL_SIZE < n PROVE FALSE
  BY <1>1, <1>2, <1>3, FS_PigeonHole
<1>4. QED
  BY <1>1, <1>3, Sizes

LEMMA FreeBlocksAre ==
  ASSUME NEW n, NEW list, Listed(n, list)
  PROVE  FreeBlocks = {a \in Addresses : InList(n, list, a)} /\ FreeWalk[POOL_SIZE] = {}
<1>1. n \in Nat /\ list \in [1 .. n -> Addresses] /\ n =< POOL_SIZE
  BY ListFits DEF Listed, Chain
<1>2. \A k \in 0 .. POOL_SIZE : FreeWalk[k] = IF k < n THEN {list[k + 1]} ELSE {}
  BY WalkIs
<1>3. ASSUME NEW k \in 0 .. POOL_SIZE, NEW a \in FreeWalk[k] PROVE a \in Addresses /\ InList(n, list, a)
  <2>1. k < n /\ a = list[k + 1]
    BY <1>2, <1>3
  <2>2. k + 1 \in 1 .. n
    BY <1>1, <2>1
  <2>3. QED
    BY <1>1, <2>1, <2>2 DEF InList
<1>4. ASSUME NEW j \in 1 .. n PROVE \E k \in 0 .. POOL_SIZE : list[j] \in FreeWalk[k]
  <2>1. j - 1 \in 0 .. POOL_SIZE /\ j - 1 < n /\ j - 1 + 1 = j
    BY <1>1, Sizes
  <2>2. FreeWalk[j - 1] = {list[j]}
    BY <1>2, <2>1
  <2>3. QED
    BY <2>1, <2>2
<1>5. FreeBlocks = {a \in Addresses : InList(n, list, a)}
  <2>1. \A a : a \in FreeBlocks <=> \E k \in 0 .. POOL_SIZE : a \in FreeWalk[k]
    BY DEF FreeBlocks
  <2>2. QED
    BY <1>3, <1>4, <2>1 DEF InList
<1>6. POOL_SIZE \in 0 .. POOL_SIZE /\ ~(POOL_SIZE < n)
  BY <1>1, Sizes
<1>7. QED
  BY <1>2, <1>5, <1>6

-----------------------------------------------------------------------------
(* What follows from it.                                                   *)

LEMMA TilesDisjoint ==
  ASSUME NEW S \in SUBSET Addresses, NEW sz \in [Addresses -> Nat], Tiles(S, sz),
         NEW a \in S, NEW b \in S, a # b
  PROVE  Extent(a, sz[a]) \cap Extent(b, sz[b]) = {}
<1>1. a \in Nat /\ b \in Nat /\ sz[a] \in Nat /\ sz[b] \in Nat /\ HDR \in Nat
  BY Sizes
<1>2. CASE a < b
  <2>1. a + HDR + sz[a] =< b
    BY <1>2 DEF Tiles
  <2>2. QED
    BY <1>1, <2>1 DEF Extent
<1>3. CASE b < a
  <2>1. b + HDR + sz[b] =< a
    BY <1>3 DEF Tiles
  <2>2. QED
    BY <1>1, <2>1 DEF Extent
<1>4. QED
  BY <1>1, <1>2, <1>3

LEMMA TilesFill ==
  ASSUME NEW S \in SUBSET Addresses, NEW sz \in [Addresses -> Nat], Tiles(S, sz)
  PROVE  UNION {Extent(a, sz[a]) : a \in S} = Addresses
<1>1. ASSUME NEW a \in S, NEW x \in Extent(a, sz[a]) PROVE x \in Addresses
  <2>1. a \in Nat /\ sz[a] \in Nat /\ a + HDR + sz[a] =< POOL_SIZE /\ HDR \in Nat /\ POOL_SIZE \in Nat
    BY Sizes DEF Tiles
  <2>2. QED
    BY <2>1, Sizes DEF Extent
<1>2. ASSUME NEW x \in Addresses PROVE \E a \in S : x \in Extent(a, sz[a])
  <2>1. PICK a \in S : a =< x /\ x < a + HDR + sz[a]
    BY DEF Tiles
  <2>2. a \in Nat /\ sz[a] \in Nat /\ HDR \in Nat /\ x \in Nat
    BY Sizes
  <2>3. QED
    BY <2>1, <2>2 DEF Extent
<1>3. QED
  BY <1>1, <1>2

LEMMA TiledFollows == HeapInv => PoolTiled
<1> SUFFICES ASSUME HeapInv, Quiescent PROVE PoolTiled
  BY DEF PoolTiled
<1>1. PICK n, list, i : InvAt(n, list, i)
  BY DEF HeapInv
<1>2. Listed(n, list) /\ Apart(n, list) /\ Tiles(Blocks(n, list), size)
      /\ Blocks(n, list) \in SUBSET Addresses /\ size \in [Addresses -> Nat]
  BY <1>1 DEF HeapInv, InvAt, Tiled, Typed, Blocks
<1>3. FreeBlocks = {a \in Addresses : InList(n, list, a)} /\ FreeWalk[POOL_SIZE] = {}
  BY <1>2, FreeBlocksAre
<1>4. \A a : ~Loose(a)
  BY DEF Quiescent, Loose, P, Actors
<1>5. FreeBlocks \cup {h.at : h \in held} = Blocks(n, list)
  BY <1>2, <1>3, <1>4 DEF Blocks, InUse, Apart
<1>6. \A h \in held : h.at \notin FreeBlocks /\ h.len <= size[h.at]
  BY <1>2, <1>3 DEF Apart
<1>7. \A a, b \in Blocks(n, list) : a # b => Extent(a, size[a]) \cap Extent(b, size[b]) = {}
  BY <1>2, TilesDisjoint
<1>8. UNION {Extent(a, size[a]) : a \in Blocks(n, list)} = Addresses
  BY <1>2, TilesFill
<1>9. QED
  BY <1>3, <1>5, <1>6, <1>7, <1>8 DEF PoolTiled

\* Between the calls every byte of the pool belongs to one block, on the free
\* list or in use: split_block, malloc, free and a growing realloc lose none and
\* never close the list to a cycle, in a pool of any size.
THEOREM PoolStaysTiled == Spec => []PoolTiled
BY HeapInvariant, TiledFollows, PTL

\* malloc (first fit) returns NULL only when no free block is as large as the
\* request.
THEOREM NullMeansNoneFits == Spec => []NullOnlyWhenNoneFits
<1>1. HeapInv => NullOnlyWhenNoneFits
  <2> SUFFICES ASSUME HeapInv, NEW p \in Actors, pc[p] = "none", NEW a \in FreeBlocks
               PROVE  size[a] < req[p]
    BY DEF NullOnlyWhenNoneFits
  <2>1. PICK n, list, i : InvAt(n, list, i)
    BY DEF HeapInv
  <2>2. p = "main"
    BY DEF HeapInv, Typed, Actors
  <2>3. i = n + 1 /\ (\A j \in 1 .. i - 1 : size[list[j]] < Q) /\ n \in Nat
    BY <2>1, <2>2 DEF InvAt, Looking, MallocSteps, P, Listed, Chain
  <2>4. PICK j \in 1 .. n : list[j] = a
    BY <2>1, FreeBlocksAre DEF InvAt, InList
  <2>5. QED
    BY <2>2, <2>3, <2>4 DEF Q
<1>2. QED
  BY HeapInvariant, <1>1, PTL

\* Two blocks that malloc handed out and that were not freed never share a byte,
\* headers included, also while the next malloc or free is at work.
THEOREM HeldNeverOverlap == Spec => []HeldDisjoint
<1>1. HeapInv => HeldDisjoint
  <2> SUFFICES ASSUME HeapInv, NEW h \in held, NEW k \in held, h # k
               PROVE  Extent(h.at, h.len) \cap Extent(k.at, k.len) = {}
    BY DEF HeldDisjoint
  <2>1. PICK n, list, i : InvAt(n, list, i)
    BY DEF HeapInv
  <2>2. Apart(n, list) /\ Tiles(Blocks(n, list), size)
        /\ Blocks(n, list) \in SUBSET Addresses /\ size \in [Addresses -> Nat]
    BY <2>1 DEF HeapInv, InvAt, Tiled, Typed, Blocks
  <2>3. h.at # k.at /\ h.at \in Blocks(n, list) /\ k.at \in Blocks(n, list)
    BY <2>2, HeldBlock DEF Apart
  <2>4. Extent(h.at, size[h.at]) \cap Extent(k.at, size[k.at]) = {}
    BY <2>2, <2>3, TilesDisjoint
  <2>5. \A g \in held : Extent(g.at, g.len) \subseteq Extent(g.at, size[g.at])
    <3>1. ASSUME NEW g \in held PROVE g.at + HDR + g.len - 1 =< g.at + HDR + size[g.at] - 1
      <4>1. g.at \in Nat /\ g.len \in Nat /\ size[g.at] \in Nat /\ g.len =< size[g.at] /\ HDR \in Nat
        BY <2>2, Sizes DEF Apart
      <4>2. QED
        BY <4>1
    <3>2. ASSUME NEW g \in held PROVE g.at + HDR + g.len - 1 \in Int /\ g.at + HDR + size[g.at] - 1 \in Int
      <4>1. g.at \in Nat /\ g.len \in Nat /\ size[g.at] \in Nat /\ HDR \in Nat
        BY <2>2, Sizes DEF Apart
      <4>2. QED
        BY <4>1
    <3>3. QED
      BY <3>1, <3>2 DEF Extent
  <2>6. QED
    BY <2>4, <2>5
<1>2. QED
  BY HeapInvariant, <1>1, PTL
=============================================================================
