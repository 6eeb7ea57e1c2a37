------------------------- MODULE ReorderWindowProof -------------------------
(***************************************************************************)
(* Proofs about the window of a reorder buffer, for any number of queues,  *)
(* frames and delayed messages.  In an undisturbed session that spans less *)
(* than half of the sequence space (Short):                                *)
(*   - head_sn never goes back (HeadNeverBack);                            *)
(*   - no frame is dropped at its first reception (FirstFramesKept);       *)
(*   - num_stored counts what is stored, and a stored frame is in its      *)
(*     place in the window (AccountingCorrect);                            *)
(*   - frames are passed up in order and none twice (OrderCorrect).        *)
(* The first three follow from one invariant (WindowsInv), on top of       *)
(* DataInv: what waits in a queue, read as frame numbers, stays within a   *)
(* window of the buffer, and the messages behind a frame let the window    *)
(* reach it.  The last adds OrderInv: what has been passed up comes before *)
(* what is stored and before what waits and will not be dropped.           *)
(***************************************************************************)
EXTENDS ReorderBufferProof

(***************************************************************************)
(* The window, for a session that spans less than half of the sequence     *)
(* space.  Sequence numbers are read as frame numbers (Unwrap); what the   *)
(* driver compares modulo SnMod is then compared as numbers.               *)
(***************************************************************************)
Short ==
  /\ SnMod % BufSize = 0 /\ MaxStep <= BufSize
  /\ LastId + 1 + BufSize - FirstId < Half

Unwrap(sn) == FirstId + SnSub(sn, FirstId % SnMod)

LEMMA ModEq ==
  ASSUME NEW x \in Int, NEW y \in Int, NEW k \in Int, x = y + SnMod * k
  PROVE  x % SnMod = y % SnMod
PROOF
<1>1. y % SnMod \in 0..(SnMod - 1) /\ SnMod \in Nat \ {0}
  BY Division, Sizes
<1>2. PICK w \in Int : y = SnMod * w + (y % SnMod)
  BY Division, Sizes
<1>3. PICK r \in 0..(SnMod - 1) : r = y % SnMod
  BY <1>1
<1>4. x = SnMod * (w + k) + r
  <2>1. SnMod * (w + k) = SnMod * w + SnMod * k
    BY <1>1
  <2>2. SnMod * w \in Int /\ SnMod * k \in Int
    BY <1>1
  <2> QED BY <1>2, <1>3, <2>1, <2>2
<1>5. w + k \in Int
  OBVIOUS
<1> QED BY <1>1, <1>3, <1>4, <1>5, Remainder

LEMMA Quotient ==
  ASSUME NEW x \in Int
  PROVE  \E w \in Int, r \in Nat : r = x % SnMod /\ r < SnMod /\ x = SnMod * w + r
PROOF
<1>1. x % SnMod \in 0..(SnMod - 1) /\ \E w \in Int : x = SnMod * w + (x % SnMod)
  BY Division, Sizes
<1>2. PICK w \in Int : x = SnMod * w + (x % SnMod)
  BY <1>1
<1>3. PICK r \in 0..(SnMod - 1) : r = x % SnMod
  BY <1>1
<1>4. x = SnMod * w + r /\ r \in Nat /\ r < SnMod
  BY <1>2, <1>3, Sizes
<1> QED BY <1>3, <1>4

LEMMA ModSmall == ASSUME NEW x \in Sns PROVE x \in Int /\ x % SnMod = x
PROOF
<1>1. x \in 0..(SnMod - 1) /\ x = SnMod * 0 + x /\ x \in Int /\ SnMod \in Nat \ {0}
  BY Sizes DEF Sns
<1> QED BY <1>1, Remainder

LEMMA AddOf ==
  ASSUME NEW x \in Int, NEW n \in Int
  PROVE  SnAdd(x % SnMod, n) = (x + n) % SnMod
PROOF
<1>1. PICK w \in Int, r \in Nat : r = x % SnMod /\ x = SnMod * w + r
  BY Quotient
<1>2. r + n \in Int /\ x + n = (r + n) + SnMod * w
  <2>1. SnMod * w \in Int
    BY Sizes
  <2> QED BY <1>1, <2>1
<1>3. (x + n) % SnMod = (r + n) % SnMod
  BY <1>2, ModEq
<1> QED BY <1>1, <1>3 DEF SnAdd

LEMMA SubOf ==
  ASSUME NEW x \in Int, NEW y \in Int
  PROVE  SnSub(x % SnMod, y % SnMod) = (x - y) % SnMod
PROOF
<1>1. PICK w \in Int, r \in Nat : r = x % SnMod /\ x = SnMod * w + r
  BY Quotient
<1>2. PICK v \in Int, s \in Nat : s = y % SnMod /\ y = SnMod * v + s
  BY Quotient
<1>3. r + SnMod - s = (x - y) + SnMod * (v - w + 1)
  <2>1. /\ SnMod * w \in Int /\ SnMod * v \in Int /\ SnMod \in Int
        /\ SnMod * (v - w + 1) = SnMod * v - SnMod * w + SnMod
    BY Sizes
  <2> QED BY <1>1, <1>2, <2>1
<1>4. r + SnMod - s \in Int /\ x - y \in Int /\ v - w + 1 \in Int
  BY Sizes
<1>5. (r + SnMod - s) % SnMod = (x - y) % SnMod
  BY <1>3, <1>4, ModEq
<1> QED BY <1>1, <1>2, <1>5 DEF SnSub

LEMMA SubIs ==
  ASSUME NEW x \in Int, NEW y \in Int, y <= x, x - y < SnMod
  PROVE  SnSub(x % SnMod, y % SnMod) = x - y
PROOF
<1>1. x - y \in Sns
  BY Sizes DEF Sns
<1> QED BY <1>1, SubOf, ModSmall

LEMMA LessOf ==
  ASSUME NEW x \in Int, NEW y \in Int, x - y < Half, y - x < Half
  PROVE  SnLess(x % SnMod, y % SnMod) <=> x < y
PROOF
<1>0. Half \in Nat /\ SnMod = 2 * Half /\ SnMod \in Nat \ {0}
  BY Sizes
<1>1. CASE y <= x
  <2>0. x - y < SnMod
    BY <1>0
  <2>1. SnSub(x % SnMod, y % SnMod) = x - y
    BY <1>1, <2>0, SubIs
  <2> QED BY <1>0, <1>1, <2>1 DEF SnLess
<1>2. CASE x < y
  <2>1. x - y + SnMod \in Sns
    BY <1>0, <1>2 DEF Sns
  <2>2. (x - y) % SnMod = (x - y + SnMod) % SnMod
    <3>1. x - y = (x - y + SnMod) + SnMod * (-1) /\ x - y + SnMod \in Int /\ x - y \in Int
      BY <1>0
    <3> QED BY <3>1, ModEq
  <2>3. SnSub(x % SnMod, y % SnMod) = x - y + SnMod
    BY <2>1, <2>2, SubOf, ModSmall
  <2>4. x - y + SnMod > Half
    BY <1>0
  <2> QED BY <1>2, <2>3, <2>4 DEF SnLess
<1> QED BY <1>1, <1>2

LEMMA IsLessOf ==
  ASSUME NEW x \in Int, NEW y \in Int, x - y < Half - BufSize, y - x < Half
  PROVE  IsSnLess(x % SnMod, y % SnMod) <=> y - BufSize <= x /\ x < y
PROOF
<1>0. Half \in Nat /\ BufSize \in Nat /\ BufSize < Half /\ y - BufSize \in Int /\ SnMod = 2 * Half
      /\ BufSize \in Sns
  BY Sizes DEF Sns
<1>1. SnLess(x % SnMod, y % SnMod) <=> x < y
  <2>1. x - y < Half
    BY <1>0
  <2> QED BY <2>1, LessOf
<1>2. SnSub(y % SnMod, BufSize) = (y - BufSize) % SnMod
  <2>1. BufSize % SnMod = BufSize
    BY <1>0, ModSmall
  <2>2. BufSize \in Int
    BY <1>0
  <2> QED BY <2>1, <2>2, SubOf
<1>3. x - (y - BufSize) < Half /\ (y - BufSize) - x < Half
  BY <1>0
<1>4. SnLess(x % SnMod, (y - BufSize) % SnMod) <=> x < y - BufSize
  <2>1. PICK z \in Int : z = y - BufSize
    BY <1>0
  <2>2. x - z < Half /\ z - x < Half
    BY <1>3, <2>1
  <2>3. SnLess(x % SnMod, z % SnMod) <=> x < z
    BY <2>2, LessOf
  <2> QED BY <2>1, <2>3
<1> QED BY <1>0, <1>1, <1>2, <1>4 DEF IsSnLess

(* Every sequence number is that of the number it is read as. *)
LEMMA UnwrapIs ==
  ASSUME NEW sn \in Sns
  PROVE  Unwrap(sn) \in Nat /\ sn = Unwrap(sn) % SnMod
PROOF
<1>1. FirstId \in Nat /\ sn \in Int /\ sn % SnMod = sn
  BY Numbers, ModSmall
<1>2. SnSub(sn, FirstId % SnMod) = (sn - FirstId) % SnMod
  BY <1>1, SubOf
<1>3. PICK w \in Int, r \in Nat : r = (sn - FirstId) % SnMod /\ sn - FirstId = SnMod * w + r
  <2>1. sn - FirstId \in Int
    BY <1>1
  <2> QED BY <2>1, Quotient
<1>4. Unwrap(sn) = FirstId + r
  BY <1>2, <1>3 DEF Unwrap
<1>5. sn = (FirstId + r) + SnMod * w /\ SnMod * w \in Int
  BY <1>1, <1>3, Sizes
<1>6. (FirstId + r) \in Int
  BY <1>1
<1>7. sn % SnMod = (FirstId + r) % SnMod
  BY <1>1, <1>5, <1>6, ModEq
<1> QED BY <1>1, <1>4, <1>7

LEMMA UnwrapOf ==
  ASSUME NEW x \in Int, FirstId <= x, x - FirstId < SnMod
  PROVE  Unwrap(x % SnMod) = x
PROOF BY Numbers, SubIs DEF Unwrap

-----------------------------------------------------------------------------
(* The window of a buffer *)

(* The frame numbers a sequence number of the session can stand for. *)
Nums == FirstId..(LastId + 1)

(* The frames of a buffer. *)
Held(b) == UNION {Msgs(b.entries[i]) : i \in Indices}

(* b has its head at number h, counts its frames, and holds each of them   *)
(* in its place in the window.                                             *)
Placed(b) ==
  \A i \in Indices : \A g \in Msgs(b.entries[i]) : g.id \in Ids /\ SnOf(g) % BufSize = i
Windowed(b, h) ==
  /\ Shape(b) /\ Counts(b) /\ h \in Nums /\ b.head = h % SnMod
  /\ Placed(b)
  /\ \A g \in Held(b) : h <= g.id /\ g.id < h + BufSize

LEMMA NumsFacts ==
  /\ \A x \in Nums : x \in Nat /\ FirstId <= x /\ x <= LastId + 1
  /\ Ids \subseteq Nums /\ Half \in Nat /\ SnMod = 2 * Half /\ BufSize \in Nat /\ BufSize >= 1
  /\ Short => LastId + 1 - FirstId < Half - BufSize
  /\ \A x \in Nums : x % SnMod \in Sns
  /\ FirstId \in Nat /\ LastId \in Nat
PROOF
<1>1. \A x \in Nums : x \in Nat /\ FirstId <= x /\ x <= LastId + 1
  BY Numbers DEF Nums
<1>2. \A x \in Nums : x % SnMod \in Sns
  BY <1>1, SnRange
<1>3. Half \in Nat /\ SnMod = 2 * Half /\ BufSize \in Nat /\ BufSize >= 1
  BY Sizes
<1>4. Ids \subseteq Nums /\ (Short => LastId + 1 - FirstId < Half - BufSize)
  BY <1>3, Numbers DEF Nums, Short
<1> QED BY <1>1, <1>2, <1>3, <1>4, Numbers

LEMMA HeldNone ==
  ASSUME NEW b, Shape(b), Counts(b)
  PROVE  b.num = 0 <=> Held(b) = {}
PROOF
<1>1. PICK P : P = Places(b.entries, Indices)
  OBVIOUS
<1>2. IsFiniteSet(P) /\ b.num = Cardinality(P) /\ Lists(b.entries)
  BY <1>1, PlacesFinite DEF Shape, Counts
<1>3. b.num = 0 <=> P = {}
  BY <1>2, FS_EmptySet
<1>4. \A i \in Indices : Len(b.entries[i]) \in Nat
  BY <1>2, ListLength DEF Lists
<1>5. P = {} <=> \A i \in Indices : 1..Len(b.entries[i]) = {}
  <2> DEFINE ks(i) == 1..Len(b.entries[i])
  <2>1. P = UNION {{i} \X ks(i) : i \in Indices}
    BY <1>1 DEF Places
  <2> HIDE DEF ks
  <2>2. \A i \in Indices : \A k \in ks(i) : <<i, k>> \in P
    BY <2>1
  <2>3. \A p \in P : \E i \in Indices : p \in {i} \X ks(i)
    BY <2>1
  <2>4. \A i, p : p \in {i} \X ks(i) => ks(i) # {}
    OBVIOUS
  <2>5. P = {} <=> \A i \in Indices : ks(i) = {}
    BY <2>2, <2>3, <2>4, Zenon
  <2> QED BY <2>5 DEF ks
<1>6. Held(b) = {} <=> \A i \in Indices : 1..Len(b.entries[i]) = {}
  <2> DEFINE ks(i) == 1..Len(b.entries[i])
  <2>1. \A g : g \in Held(b) <=> \E i \in Indices : \E k \in ks(i) : g = b.entries[i][k]
    BY DEF Held, Msgs
  <2> HIDE DEF ks
  <2>2. Held(b) = {} <=> \A i \in Indices : ks(i) = {}
    BY <2>1, Zenon
  <2> QED BY <2>2 DEF ks
<1> QED BY <1>3, <1>5, <1>6

(* Fields that are not part of the window. *)
LEMMA WindowedSame ==
  ASSUME NEW b, NEW h, Windowed(b, h), NEW c, c = [x \in Fields |-> c[x]],
         c.head = b.head, c.num = b.num, c.entries = b.entries
  PROVE  Windowed(c, h) /\ Held(c) = Held(b)
PROOF
<1>1. Held(c) = Held(b)
  BY DEF Held
<1>2. Shape(c) /\ Counts(c)
  BY DEF Windowed, Shape, Counts
<1> QED BY <1>1, <1>2 DEF Windowed, Placed

LEMMA SetTimerIs ==
  ASSUME NEW b, Shape(b)
  PROVE  LET c == SetTimer(b)
         IN  /\ c = [x \in Fields |-> c[x]]
             /\ c.head = b.head /\ c.num = b.num /\ c.entries = b.entries
             /\ c.lastAmsdu = b.lastAmsdu /\ c.lastSub = b.lastSub /\ c.removed = b.removed
PROOF
<1>1. PICK t : SetTimer(b) = [b EXCEPT !.timer = t]
  BY DEF SetTimer, ModTimer
<1>2. PICK c : c = [b EXCEPT !.timer = t]
  OBVIOUS
<1>3. /\ c = [x \in Fields |-> c[x]]
      /\ c.head = b.head /\ c.num = b.num /\ c.entries = b.entries
      /\ c.lastAmsdu = b.lastAmsdu /\ c.lastSub = b.lastSub /\ c.removed = b.removed
  BY <1>2 DEF Shape, Fields
<1> QED BY <1>1, <1>2, <1>3

(* iwl_mvm_release_frames up to number n, when head_sn is h: the window    *)
(* moves to n unless it is there already, and nothing is left behind.      *)
LEMMA ReleaseWindow ==
  ASSUME Short, NEW b, NEW h, Windowed(b, h), NEW n \in Nums, NEW flags,
         "from" \in flags \/ h - BufSize <= n,
         Held(b) = {} \/ n <= h + BufSize
  PROVE  LET r == ReleaseFrames(b, n % SnMod, flags)
             k == IF n <= h THEN h ELSE n
         IN  /\ Windowed(r.buf, k) /\ Held(r.buf) \subseteq Held(b)
             /\ r.buf.lastAmsdu = b.lastAmsdu /\ r.buf.lastSub = b.lastSub
             /\ \A x \in Msgs(r.sync) : \E y \in Nums : x = y % SnMod /\ h < y /\ y <= k
PROOF
<1> DEFINE nssn == n % SnMod
           ignored == \/ "from" \in flags /\ SnLess(nssn, b.head)
                      \/ IsSnLess(nssn, b.head)
           c == IF IsSnLess(b.head, nssn) THEN SnSub(nssn, b.head) ELSE 0
           at(i) == SnAdd(b.head, i - 1) % BufSize
           freed == {at(i) : i \in 1..c}
           met == {i \in 1..c : SyncPoint(SnAdd(b.head, i))}
           d == [b EXCEPT !.head = nssn,
                          !.num = @ - Cardinality(Places(b.entries, freed)),
                          !.entries = [i \in Indices |->
                                         IF i \in freed THEN <<>> ELSE @[i]],
                          !.aged = [i \in Indices |-> i \notin freed /\ @[i]]]
<1>0. /\ h \in Int /\ n \in Int /\ b.head = h % SnMod /\ Half \in Nat /\ SnMod = 2 * Half
      /\ BufSize \in Nat /\ BufSize >= 1 /\ h \in Nums
      /\ h - n < Half - BufSize /\ n - h < Half - BufSize
      /\ h - n < Half /\ n - h < Half
  BY NumsFacts DEF Windowed
<1>1. /\ SnLess(nssn, b.head) <=> n < h
      /\ IsSnLess(nssn, b.head) <=> h - BufSize <= n /\ n < h
      /\ IsSnLess(b.head, nssn) <=> n - BufSize <= h /\ h < n
  BY <1>0, LessOf, IsLessOf
<1>2. ignored <=> n < h
  BY <1>0, <1>1
<1>3. Shape(b) /\ nssn \in Sns
  BY NumsFacts DEF Windowed
<1>4. CASE n < h
  <2>1. ReleaseFrames(b, nssn, flags) = [buf |-> SetTimer(b), up |-> <<>>, sync |-> <<>>]
    BY <1>2, <1>4 DEF ReleaseFrames
  <2>2. n <= h
    BY <1>0, <1>4
  <2>3. Windowed(SetTimer(b), h) /\ Held(SetTimer(b)) = Held(b)
    BY <1>3, SetTimerIs, WindowedSame
  <2> HIDE DEF nssn
  <2> QED BY <1>3, <2>1, <2>2, <2>3, SetTimerIs, MsgsEmpty DEF nssn
<1>5. CASE h <= n
  <2>0. ~(n < h) /\ (IF n <= h THEN h ELSE n) = n
    BY <1>0, <1>5
  <2>1. /\ ReleaseFrames(b, nssn, flags).buf = SetTimer(d)
        /\ \/ ReleaseFrames(b, nssn, flags).sync = <<>>
           \/ /\ met # {}
              /\ ReleaseFrames(b, nssn, flags).sync = <<SnAdd(b.head, CHOOSE i \in met : TRUE)>>
    BY <1>2, <2>0 DEF ReleaseFrames
  <2>2. c = IF n - h <= BufSize THEN n - h ELSE 0
    <3>1. CASE h < n /\ n - h <= BufSize
      <4>1. IsSnLess(b.head, nssn)
        BY <1>0, <1>1, <3>1
      <4>2. SnSub(nssn, b.head) = n - h
        <5>1. n - h < SnMod
          BY <1>0
        <5> QED BY <1>0, <1>5, <5>1, SubIs
      <4> QED BY <3>1, <4>1, <4>2
    <3>2. CASE ~(h < n /\ n - h <= BufSize)
      <4>1. ~IsSnLess(b.head, nssn)
        BY <1>0, <1>1, <3>2
      <4> QED BY <1>0, <1>5, <3>2, <4>1
    <3> QED BY <3>1, <3>2
  <2>3. PICK m \in Int : m = c /\ m = IF n - h <= BufSize THEN n - h ELSE 0
    <3>1. c \in Int
      BY <1>0, <2>2
    <3> QED BY <2>2, <3>1
  <2>4. \A i \in Int : SnAdd(b.head, i) = (h + i) % SnMod
    BY <1>0, AddOf
  <2>5. freed \in SUBSET Indices
    <3>1. ASSUME NEW i \in 1..m PROVE at(i) \in Indices
      <4>1. i - 1 \in Int /\ b.head \in Sns
        BY <1>3 DEF Shape
      <4>2. SnAdd(b.head, i - 1) \in Sns
        BY <4>1, SnAddRange
      <4>3. SnAdd(b.head, i - 1) \in Int
        BY <4>2 DEF Sns
      <4> QED BY <4>3, SnRange
    <3> HIDE DEF at, c
    <3> QED BY <2>3, <3>1
  <2>6. \A g \in Held(b) : n - h <= BufSize
    BY <1>0
  <2>7. ASSUME NEW i \in Indices, NEW g \in Msgs(b.entries[i]), i \notin freed
        PROVE  n <= g.id /\ g.id < n + BufSize
    <3>1. /\ g \in Held(b) /\ g.id \in Int /\ h <= g.id /\ g.id < h + BufSize
          /\ SnOf(g) % BufSize = i
      <4>1. g \in Held(b)
        BY DEF Held
      <4>2. g.id \in Ids /\ SnOf(g) % BufSize = i
        BY DEF Windowed, Placed
      <4> QED BY <4>1, <4>2, NumsFacts DEF Windowed
    <3>2. PICK x \in Int : x = g.id
      BY <3>1
    <3>3. m = n - h
      BY <1>0, <2>3, <2>6, <3>1
    <3>4. ~(x < n)
      <4> SUFFICES ASSUME x < n PROVE FALSE
        OBVIOUS
      <4>1. PICK j \in 1..m : j = x - h + 1
        BY <1>0, <3>1, <3>2, <3>3
      <4>2. j - 1 \in Int /\ h + (j - 1) = x
        BY <1>0, <4>1
      <4>3. SnAdd(b.head, j - 1) = SnOf(g)
        BY <2>4, <3>2, <4>2 DEF SnOf
      <4>4. at(j) = i
        BY <3>1, <4>3
      <4> HIDE DEF at
      <4> QED BY <2>3, <2>7, <4>1, <4>4
    <3> QED BY <1>0, <1>5, <3>1, <3>2, <3>4
  <2>8. PICK I \in SUBSET Indices : I = freed
    BY <2>5
  <2>9. Becomes(b, SetTimer(d))
    BY <1>3, <2>1, ReleaseBuf
  <2>10. /\ d = [x \in Fields |-> d[x]] /\ d.head = nssn
         /\ d.entries = [i \in Indices |-> IF i \in I THEN <<>> ELSE b.entries[i]]
         /\ d.lastAmsdu = b.lastAmsdu /\ d.lastSub = b.lastSub
    <3> HIDE DEF freed, nssn
    <3> QED BY <1>3, <2>8 DEF Shape, Fields
  <2>11. PICK e : e = SetTimer(d)
    OBVIOUS
  <2>12. /\ e.head = nssn
         /\ \A i \in Indices : e.entries[i] = IF i \in I THEN <<>> ELSE b.entries[i]
         /\ e.lastAmsdu = b.lastAmsdu /\ e.lastSub = b.lastSub
    <3>1. PICK t : SetTimer(d) = [d EXCEPT !.timer = t]
      BY DEF SetTimer, ModTimer
    <3> HIDE DEF d
    <3>2. /\ e.head = d.head /\ e.entries = d.entries
          /\ e.lastAmsdu = d.lastAmsdu /\ e.lastSub = d.lastSub
      BY <2>10, <2>11, <3>1 DEF Fields
    <3> QED BY <2>10, <3>2
  <2>13. \A i \in Indices : \A g \in Msgs(e.entries[i]) : i \notin freed /\ g \in Msgs(b.entries[i])
    <3> HIDE DEF freed
    <3> QED BY <2>8, <2>12, MsgsEmpty
  <2> HIDE DEF freed, d, met, c, at
  <2>14. Held(e) \subseteq Held(b)
    BY <2>13 DEF Held
  <2>15. \A g \in Held(e) : n <= g.id /\ g.id < n + BufSize
    <3> SUFFICES ASSUME NEW g \in Held(e) PROVE n <= g.id /\ g.id < n + BufSize
      OBVIOUS
    <3>1. PICK i \in Indices : g \in Msgs(e.entries[i])
      BY DEF Held
    <3> QED BY <2>7, <2>13, <3>1
  <2>16. Placed(e)
    BY <2>13 DEF Placed, Windowed
  <2>17. Windowed(e, n)
    BY <2>9, <2>11, <2>12, <2>15, <2>16 DEF Windowed, Becomes
  <2>18. ASSUME NEW x \in Msgs(ReleaseFrames(b, nssn, flags).sync)
         PROVE  \E y \in Nums : x = y % SnMod /\ h < y /\ y <= n
    <3>1. met # {} /\ x = SnAdd(b.head, CHOOSE i \in met : TRUE)
      BY <2>1, <2>18, MsgsEmpty, MsgsSingle
    <3>2. PICK i \in met : i = CHOOSE j \in met : TRUE
      BY <3>1
    <3>3. i \in 1..m
      BY <2>3, <3>2 DEF met
    <3>4. x = (h + i) % SnMod /\ h + i \in Int /\ h < h + i /\ h + i <= n
      BY <1>0, <2>3, <2>4, <3>1, <3>2, <3>3
    <3>5. h + i \in Nums
      <4>1. FirstId \in Int /\ LastId \in Int /\ FirstId <= h /\ n <= LastId + 1
        BY <1>0, NumsFacts
      <4> QED BY <1>0, <3>4, <4>1 DEF Nums
    <3> QED BY <3>4, <3>5
  <2> HIDE DEF nssn
  <2> QED BY <2>0, <2>1, <2>11, <2>12, <2>14, <2>17, <2>18 DEF nssn
<1> QED BY <1>0, <1>4, <1>5

LEMMA QuotientOf ==
  ASSUME NEW x \in Int, NEW d \in Nat \ {0}
  PROVE  \E w \in Int, r \in 0..(d - 1) : r = x % d /\ x = d * w + r
PROOF
<1>1. x % d \in 0..(d - 1)
  BY Division
<1>2. PICK w \in Int : x = d * w + (x % d)
  BY Division
<1>3. PICK r \in 0..(d - 1) : r = x % d
  BY <1>1
<1>4. x = d * w + r
  BY <1>2, <1>3
<1> QED BY <1>3, <1>4

LEMMA Multiple == ASSUME Short PROVE \E k \in Int : SnMod = BufSize * k
PROOF
<1>1. PICK w \in Int, r \in 0..(BufSize - 1) : r = SnMod % BufSize /\ SnMod = BufSize * w + r
  <2>1. SnMod \in Int /\ BufSize \in Nat \ {0}
    BY Sizes
  <2> QED BY <2>1, QuotientOf
<1>2. SnMod % BufSize = 0
  BY DEF Short
<1>3. r = 0
  BY <1>1, <1>2
<1>4. SnMod = BufSize * w
  BY <1>1, <1>3, Sizes
<1> QED BY <1>4

(* Two frames of one window have one place each. *)
LEMMA SamePlace ==
  ASSUME Short, NEW x \in Int, NEW y \in Int, x - y < BufSize, y - x < BufSize,
         (x % SnMod) % BufSize = (y % SnMod) % BufSize
  PROVE  x = y
PROOF
<1>0. BufSize \in Nat \ {0} /\ SnMod \in Nat \ {0}
  BY Sizes
<1>1. PICK a \in Int, r \in Nat : r = x % SnMod /\ x = SnMod * a + r
  BY Quotient
<1>2. PICK c \in Int, s \in Nat : s = y % SnMod /\ y = SnMod * c + s
  BY Quotient
<1>3. PICK k \in Int : SnMod = BufSize * k
  BY Multiple
<1>4. PICK u \in Int, p \in 0..(BufSize - 1) : p = r % BufSize /\ r = BufSize * u + p
  <2>1. r \in Int
    OBVIOUS
  <2> QED BY <1>0, <2>1, QuotientOf
<1>5. PICK v \in Int, t \in 0..(BufSize - 1) : t = s % BufSize /\ s = BufSize * v + t
  <2>1. s \in Int
    OBVIOUS
  <2> QED BY <1>0, <2>1, QuotientOf
<1>6. p = t
  BY <1>1, <1>2, <1>4, <1>5
<1>7. PICK m \in Int : m = k * (a - c) + (u - v)
  OBVIOUS
<1>8. x - y = BufSize * m
  <2>1. SnMod * a = BufSize * (k * a) /\ SnMod * c = BufSize * (k * c)
    BY <1>0, <1>3
  <2>2. /\ k * a \in Int /\ k * c \in Int /\ k * (a - c) = k * a - k * c
    OBVIOUS
  <2>3. PICK ka \in Int, kc \in Int : ka = k * a /\ kc = k * c /\ m = ka - kc + (u - v)
    BY <1>7, <2>2
  <2>4. BufSize * m = BufSize * ka - BufSize * kc + BufSize * u - BufSize * v
    BY <1>0, <2>3
  <2>5. PICK z \in Int : z = p
    OBVIOUS
  <2>6. /\ x = BufSize * ka + r /\ y = BufSize * kc + s
        /\ r = BufSize * u + z /\ s = BufSize * v + z
    BY <1>1, <1>2, <1>4, <1>5, <1>6, <2>1, <2>3, <2>5
  <2>7. /\ BufSize * ka \in Int /\ BufSize * kc \in Int
        /\ BufSize * u \in Int /\ BufSize * v \in Int
    BY <1>0
  <2> QED BY <2>4, <2>6, <2>7
<1>9. m >= 1 => BufSize * m >= BufSize
  BY <1>0
<1>10. m <= -1 => BufSize * m <= -BufSize
  BY <1>0
<1>11. m = 0
  <2>1. PICK e \in Int : e = BufSize * m
    BY <1>0
  <2> QED BY <1>0, <1>8, <1>9, <1>10, <2>1
<1> QED BY <1>0, <1>8, <1>11

LEMMA PlaceOf ==
  ASSUME Short, NEW x \in Int, NEW i \in Int
  PROVE  ((x % SnMod) + i) % BufSize = ((x + i) % SnMod) % BufSize
PROOF
<1>0. BufSize \in Nat \ {0} /\ SnMod \in Nat \ {0}
  BY Sizes
<1>1. PICK a \in Int, r \in Nat : r = x % SnMod /\ x = SnMod * a + r
  BY Quotient
<1>2. PICK c \in Int, s \in Nat : s = (x + i) % SnMod /\ x + i = SnMod * c + s
  <2>1. x + i \in Int
    OBVIOUS
  <2> QED BY <2>1, Quotient
<1>3. PICK k \in Int : SnMod = BufSize * k
  BY Multiple
<1>4. PICK v \in Int, z \in 0..(BufSize - 1) : z = s % BufSize /\ s = BufSize * v + z
  <2>1. s \in Int
    OBVIOUS
  <2> QED BY <1>0, <2>1, QuotientOf
<1>5. r + i = BufSize * (k * (c - a) + v) + z
  <2>1. SnMod * a = BufSize * (k * a) /\ SnMod * c = BufSize * (k * c)
    BY <1>0, <1>3
  <2>2. PICK ka \in Int, kc \in Int : ka = k * a /\ kc = k * c /\ k * (c - a) = kc - ka
    OBVIOUS
  <2>3. BufSize * (k * (c - a) + v) = BufSize * kc - BufSize * ka + BufSize * v
    BY <1>0, <2>2
  <2>4. x = BufSize * ka + r /\ x + i = BufSize * kc + s
    BY <1>1, <1>2, <2>1, <2>2
  <2>5. /\ BufSize * ka \in Int /\ BufSize * kc \in Int /\ BufSize * v \in Int
    BY <1>0
  <2> QED BY <1>0, <1>4, <2>3, <2>4, <2>5
<1>6. r + i \in Int /\ k * (c - a) + v \in Int
  OBVIOUS
<1>7. (r + i) % BufSize = z
  BY <1>0, <1>5, <1>6, Remainder
<1> QED BY <1>1, <1>2, <1>4, <1>7

(* iwl_mvm_reorder_timer_expired moves the window behind a frame it holds. *)
LEMMA TimerCases ==
  ASSUME Short, NEW b, NEW h, Windowed(b, h)
  PROVE  \/ \E t : TimerExpired(b) = [buf |-> [b EXCEPT !.timer = t], up |-> <<>>, sync |-> <<>>]
         \/ \E k \in Nums : /\ TimerExpired(b) = ReleaseFrames(b, k % SnMod, {"send"})
                           /\ h < k /\ k <= h + BufSize
                           /\ \E g \in Held(b) : k = g.id + 1
PROOF
<1> DEFINE at(i) == (b.head + i) % BufSize
           inUse(i) == b.entries[at(i)] # <<>>
           young == {i \in Indices : /\ inUse(i)
                                     /\ i = 0 \/ ~inUse(i - 1)
                                     /\ ~b.aged[at(i)]}
           expired == {i \in Indices : inUse(i) /\ \A j \in young : i < j}
           last == CHOOSE i \in expired : \A j \in expired : j <= i
           next == CHOOSE i \in young : \A j \in young : i <= j
<1>0. /\ Shape(b) /\ h \in Nums /\ h \in Int /\ b.head = h % SnMod /\ BufSize \in Nat
      /\ BufSize >= 1
  BY NumsFacts DEF Windowed
<1>1. \/ TimerExpired(b) = [buf |-> b, up |-> <<>>, sync |-> <<>>]
      \/ expired # {} /\ TimerExpired(b) = ReleaseFrames(b, SnAdd(b.head, last + 1), {"send"})
      \/ TimerExpired(b) = [buf |-> ModTimer(b, at(next)), up |-> <<>>, sync |-> <<>>]
  BY DEF TimerExpired
<1>2. CASE TimerExpired(b) = [buf |-> b, up |-> <<>>, sync |-> <<>>]
  <2>1. b = [b EXCEPT !.timer = b.timer]
    BY <1>0 DEF Shape, Fields
  <2> HIDE DEF at, inUse, young, expired, last, next
  <2> QED BY <1>2, <2>1
<1>3. CASE expired # {} /\ TimerExpired(b) = ReleaseFrames(b, SnAdd(b.head, last + 1), {"send"})
  <2>1. PICK T : T = expired
    OBVIOUS
  <2>2. T \subseteq 0..(BufSize - 1) /\ T # {} /\ 0 \in Int /\ BufSize - 1 \in Int
    <3>1. T \subseteq Indices /\ T # {}
      BY <1>3, <2>1, Zenon
    <3>2. BufSize - 1 \in Int /\ Indices = 0..(BufSize - 1)
      BY Sizes DEF Indices
    <3> HIDE DEF expired
    <3> QED BY <3>1, <3>2
  <2>3. \E x \in T : \A y \in T : y <= x
    BY <2>2, Greatest
  <2>4. last \in T
    BY <2>1, <2>3
  <2>5. PICK l \in 0..(BufSize - 1) : l = last /\ inUse(l)
    <3>1. last \in expired
      BY <2>1, <2>4
    <3> HIDE DEF last
    <3> QED BY <2>2, <2>4, <3>1
  <2>6. at(l) \in Indices /\ at(l) = ((h + l) % SnMod) % BufSize
    <3>1. at(l) = ((h + l) % SnMod) % BufSize
      BY <1>0, PlaceOf
    <3>2. (h + l) % SnMod \in Int
      BY <1>0, SnRange DEF Sns
    <3> QED BY <3>1, <3>2, SnRange
  <2>7. PICK i \in Indices : i = at(l)
    BY <2>6
  <2>8. \E g : g \in Msgs(b.entries[i])
    <3>1. b.entries[i] # <<>> /\ IsSeq(b.entries[i])
      BY <1>0, <2>5, <2>7 DEF Shape, Lists
    <3> QED BY <3>1, MsgsTail
  <2>9. PICK g \in Msgs(b.entries[i]) : TRUE
    BY <2>8
  <2>10. /\ g \in Held(b) /\ g.id \in Ids /\ SnOf(g) % BufSize = i
         /\ h <= g.id /\ g.id < h + BufSize
    <3>1. g \in Held(b)
      BY DEF Held
    <3> QED BY <3>1 DEF Windowed, Placed
  <2>11. PICK x \in Int : x = g.id
    BY <2>10, Numbers
  <2>12. x = h + l
    <3>1. h + l \in Int /\ x - (h + l) < BufSize /\ (h + l) - x < BufSize
      BY <1>0, <2>10, <2>11
    <3>2. (x % SnMod) % BufSize = ((h + l) % SnMod) % BufSize
      BY <2>6, <2>7, <2>10, <2>11 DEF SnOf
    <3> QED BY <3>1, <3>2, SamePlace
  <2>13. PICK k \in Nums : k = x + 1
    <3>1. x + 1 \in Nums
      BY <2>10, <2>11, Numbers DEF Nums
    <3> QED BY <3>1
  <2>14. SnAdd(b.head, last + 1) = k % SnMod
    <3>1. SnAdd(b.head, l + 1) = (h + (l + 1)) % SnMod
      BY <1>0, AddOf
    <3>2. h + (l + 1) = k
      BY <1>0, <2>12, <2>13
    <3> HIDE DEF last
    <3> QED BY <2>5, <3>1, <3>2
  <2>15. h - BufSize <= k /\ k <= h + BufSize /\ h < k /\ ~(k <= h)
    BY <1>0, <2>12, <2>13
  <2> HIDE DEF last, expired
  <2>16. TimerExpired(b) = ReleaseFrames(b, k % SnMod, {"send"})
    BY <1>3, <2>14
  <2>17. k = g.id + 1
    BY <2>11, <2>13
  <2> QED BY <2>10, <2>15, <2>16, <2>17
<1>4. CASE TimerExpired(b) = [buf |-> ModTimer(b, at(next)), up |-> <<>>, sync |-> <<>>]
  <2>0. \A i : \E t : ModTimer(b, i) = [b EXCEPT !.timer = t]
    BY DEF ModTimer
  <2> HIDE DEF at, next
  <2> QED BY <1>4, <2>0
<1> QED BY <1>1, <1>2, <1>3, <1>4

LEMMA TimerWindow ==
  ASSUME Short, NEW b, NEW h, Windowed(b, h)
  PROVE  LET r == TimerExpired(b)
         IN  /\ r.buf.lastAmsdu = b.lastAmsdu /\ r.buf.lastSub = b.lastSub
             /\ Held(r.buf) \subseteq Held(b)
             /\ \E k \in Nums :
                  /\ Windowed(r.buf, k) /\ h <= k
                  /\ k = h \/ \E g \in Held(b) : k = g.id + 1
                  /\ \A x \in Msgs(r.sync) : \E y \in Nums : x = y % SnMod /\ y <= k
PROOF
<1>0. Shape(b) /\ h \in Nums /\ h \in Int /\ BufSize \in Nat
  BY NumsFacts DEF Windowed
<1>1. CASE \E t : TimerExpired(b) = [buf |-> [b EXCEPT !.timer = t], up |-> <<>>, sync |-> <<>>]
  <2>1. PICK t : TimerExpired(b) = [buf |-> [b EXCEPT !.timer = t], up |-> <<>>, sync |-> <<>>]
    BY <1>1
  <2>2. PICK c : c = [b EXCEPT !.timer = t]
    OBVIOUS
  <2>3. /\ c = [x \in Fields |-> c[x]]
        /\ c.head = b.head /\ c.num = b.num /\ c.entries = b.entries
        /\ c.lastAmsdu = b.lastAmsdu /\ c.lastSub = b.lastSub
    BY <1>0, <2>2 DEF Shape, Fields
  <2>4. Windowed(c, h) /\ Held(c) = Held(b)
    BY <2>3, WindowedSame
  <2>5. TimerExpired(b).buf = c /\ TimerExpired(b).sync = <<>>
    BY <2>1, <2>2
  <2> QED BY <1>0, <2>3, <2>4, <2>5, MsgsEmpty
<1>2. ASSUME NEW k \in Nums, TimerExpired(b) = ReleaseFrames(b, k % SnMod, {"send"}),
             h < k, k <= h + BufSize, \E g \in Held(b) : k = g.id + 1
      PROVE  LET r == TimerExpired(b)
             IN  /\ Windowed(r.buf, k) /\ Held(r.buf) \subseteq Held(b) /\ h <= k
                 /\ r.buf.lastAmsdu = b.lastAmsdu /\ r.buf.lastSub = b.lastSub
                 /\ \A z \in Msgs(r.sync) : \E y \in Nums : z = y % SnMod /\ h < y /\ y <= k
  <2>1. h - BufSize <= k /\ h <= k /\ ~(k <= h) /\ k \in Int
    BY <1>0, <1>2, NumsFacts
  <2>2. PICK fl, r : fl = {"send"} /\ r = TimerExpired(b)
    OBVIOUS
  <2>3. PICK x : x = IF k <= h THEN h ELSE k
    OBVIOUS
  <2>4. /\ Windowed(r.buf, x) /\ Held(r.buf) \subseteq Held(b)
        /\ r.buf.lastAmsdu = b.lastAmsdu /\ r.buf.lastSub = b.lastSub
        /\ \A z \in Msgs(r.sync) : \E y \in Nums : z = y % SnMod /\ h < y /\ y <= x
    <3>1. r = ReleaseFrames(b, k % SnMod, fl)
      BY <1>2, <2>2
    <3>2. "from" \in fl \/ h - BufSize <= k
      BY <2>1
    <3>3. Held(b) = {} \/ k <= h + BufSize
      BY <1>2
    <3> QED BY <2>3, <3>1, <3>2, <3>3, ReleaseWindow
  <2>5. x = k
    BY <2>1, <2>3
  <2> QED BY <2>1, <2>2, <2>4, <2>5
<1> QED BY <1>1, <1>2, TimerCases

-----------------------------------------------------------------------------
(* Frames in order *)

LEMMA ConcatAt ==
  ASSUME NEW s, NEW t, IsSeq(s), IsSeq(t)
  PROVE  /\ IsSeq(s \o t) /\ Len(s) \in Nat /\ Len(t) \in Nat
         /\ Len(s \o t) = Len(s) + Len(t)
         /\ \A j \in 1..Len(s) : (s \o t)[j] = s[j]
         /\ \A j \in 1..Len(t) : (s \o t)[Len(s) + j] = t[j]
PROOF
<1>1. PICK M : s \in Seq(M)
  BY DEF IsSeq
<1>2. PICK L : t \in Seq(L)
  BY DEF IsSeq
<1>3. PICK K : K = M \cup L
  OBVIOUS
<1>4. s \in Seq(K) /\ t \in Seq(K)
  BY <1>1, <1>2, <1>3
<1>5. s \o t \in Seq(K) /\ Len(s \o t) = Len(s) + Len(t) /\ Len(s) \in Nat /\ Len(t) \in Nat
  BY <1>4
<1>6. \A j \in 1..Len(s) : (s \o t)[j] = s[j]
  BY <1>4
<1>7. \A j \in 1..Len(t) : (s \o t)[Len(s) + j] = t[j]
  BY <1>4
<1> QED BY <1>5, <1>6, <1>7 DEF IsSeq

Less(f, g) == f.id < g.id \/ (f.id = g.id /\ f.sub < g.sub)
Rising(t) == IsSeq(t) /\ \A i, j \in 1..Len(t) : i < j => Less(t[i], t[j])

(* What FlattenSeq is: the last of the concatenations of the first i lists. *)
Joined(s, n, f) == f = [i \in 1..n |-> IF i = 1 THEN s[i] ELSE f[i - 1] \o s[i]]

LEMMA JoinedOne ==
  ASSUME NEW s, NEW m \in Nat, m # 0, NEW f, Joined(s, m - 1, f)
  PROVE  \E g : Joined(s, m, g)
PROOF
<1>1. PICK g : g = [i \in 1..m |-> IF i = m THEN IF m = 1 THEN s[m] ELSE f[m - 1] \o s[m]
                                            ELSE f[i]]
  OBVIOUS
<1>2. ASSUME NEW i \in 1..m PROVE g[i] = IF i = 1 THEN s[i] ELSE g[i - 1] \o s[i]
  <2>1. CASE i = m
    <3>1. m # 1 => m - 1 \in 1..m /\ m - 1 # m
      OBVIOUS
    <3>2. m # 1 => g[m - 1] = f[m - 1]
      BY <1>1, <3>1
    <3>3. g[m] = IF m = 1 THEN s[m] ELSE f[m - 1] \o s[m]
      BY <1>1, <2>1
    <3> QED BY <2>1, <3>2, <3>3
  <2>2. CASE i # m
    <3>1. i \in 1..(m - 1) /\ g[i] = f[i]
      BY <1>1, <2>2
    <3>2. f[i] = IF i = 1 THEN s[i] ELSE f[i - 1] \o s[i]
      BY <3>1 DEF Joined
    <3>3. i # 1 => i - 1 \in 1..m /\ i - 1 # m
      BY <2>2
    <3>4. i # 1 => g[i - 1] = f[i - 1]
      BY <1>1, <3>3
    <3> QED BY <3>1, <3>2, <3>4
  <2> QED BY <2>1, <2>2
<1>3. g = [i \in 1..m |-> IF i = 1 THEN s[i] ELSE g[i - 1] \o s[i]]
  <2>1. g = [i \in 1..m |-> g[i]]
    BY <1>1
  <2> QED BY <1>2, <2>1
<1> QED BY <1>3 DEF Joined

LEMMA JoinedIs ==
  ASSUME NEW s, NEW n \in Nat
  PROVE  \E f : Joined(s, n, f)
PROOF
<1> DEFINE T == {m \in Nat : ~ \E f : Joined(s, m, f)}
<1> SUFFICES T = {}
  OBVIOUS
<1>1. ASSUME T # {} PROVE FALSE
  <2>1. T \subseteq Nat
    OBVIOUS
  <2>2. PICK m \in T : \A y \in T : m <= y
    BY <1>1, <2>1, Least
  <2>3. m # 0
    <3>1. PICK f : f = [i \in 1..0 |-> 0]
      OBVIOUS
    <3>2. f = [i \in 1..0 |-> IF i = 1 THEN s[i] ELSE f[i - 1] \o s[i]]
      BY <3>1
    <3>3. \E g : Joined(s, 0, g)
      BY <3>2 DEF Joined
    <3> QED BY <3>3
  <2>4. m \in Nat /\ m - 1 \in Nat /\ m - 1 \notin T
    BY <2>2, <2>3
  <2>5. PICK f : Joined(s, m - 1, f)
    BY <2>4
  <2>6. \E g : Joined(s, m, g)
    BY <2>3, <2>4, <2>5, JoinedOne
  <2> QED BY <2>2, <2>6
<1> QED BY <1>1

LEMMA FlattenIs ==
  ASSUME NEW s, Len(s) \in Nat, Len(s) # 0
  PROVE  \E f : Joined(s, Len(s), f) /\ FlattenSeq(s) = f[Len(s)]
PROOF
<1>1. PICK n \in Nat : n = Len(s)
  OBVIOUS
<1>2. FlattenSeq(s)
        = (CHOOSE f : f = [i \in 1..Len(s) |-> IF i = 1 THEN s[i] ELSE f[i - 1] \o s[i]])[Len(s)]
  BY DEF FlattenSeq
<1>3. \E f : f = [i \in 1..n |-> IF i = 1 THEN s[i] ELSE f[i - 1] \o s[i]]
  BY JoinedIs DEF Joined
<1> DEFINE c == CHOOSE f : f = [i \in 1..n |-> IF i = 1 THEN s[i] ELSE f[i - 1] \o s[i]]
<1>4. c = [i \in 1..n |-> IF i = 1 THEN s[i] ELSE c[i - 1] \o s[i]]
  BY <1>3
<1>5. FlattenSeq(s) = c[n]
  BY <1>1, <1>2
<1> HIDE DEF c
<1> QED BY <1>1, <1>4, <1>5 DEF Joined

LEMMA RisingConcat ==
  ASSUME NEW s, NEW t, Rising(s), Rising(t),
         \A x \in Msgs(s), y \in Msgs(t) : Less(x, y)
  PROVE  Rising(s \o t)
PROOF
<1>1. /\ IsSeq(s \o t) /\ Len(s) \in Nat /\ Len(t) \in Nat /\ Len(s \o t) = Len(s) + Len(t)
      /\ \A j \in 1..Len(s) : (s \o t)[j] = s[j]
      /\ \A j \in 1..Len(t) : (s \o t)[Len(s) + j] = t[j]
  BY ConcatAt DEF Rising
<1>2. ASSUME NEW i \in 1..Len(s \o t), NEW j \in 1..Len(s \o t), i < j
      PROVE  Less((s \o t)[i], (s \o t)[j])
  <2>1. CASE j <= Len(s)
    <3>1. i \in 1..Len(s) /\ j \in 1..Len(s)
      BY <1>1, <1>2, <2>1
    <3>2. Less(s[i], s[j])
      BY <1>2, <3>1 DEF Rising
    <3> QED BY <1>1, <3>1, <3>2
  <2>2. CASE i <= Len(s) /\ j > Len(s)
    <3>1. i \in 1..Len(s) /\ j - Len(s) \in 1..Len(t) /\ Len(s) + (j - Len(s)) = j
      BY <1>1, <2>2
    <3>2. (s \o t)[i] = s[i] /\ (s \o t)[j] = t[j - Len(s)]
      BY <1>1, <3>1
    <3>3. s[i] \in Msgs(s) /\ t[j - Len(s)] \in Msgs(t)
      BY <3>1 DEF Msgs
    <3> QED BY <3>2, <3>3
  <2>3. CASE i > Len(s)
    <3>1. /\ i - Len(s) \in 1..Len(t) /\ Len(s) + (i - Len(s)) = i
          /\ j - Len(s) \in 1..Len(t) /\ Len(s) + (j - Len(s)) = j
          /\ i - Len(s) < j - Len(s)
      BY <1>1, <1>2, <2>3
    <3>2. (s \o t)[i] = t[i - Len(s)] /\ (s \o t)[j] = t[j - Len(s)]
      BY <1>1, <3>1
    <3>3. Less(t[i - Len(s)], t[j - Len(s)])
      BY <3>1 DEF Rising
    <3> QED BY <3>2, <3>3
  <2> QED BY <1>1, <2>1, <2>2, <2>3
<1> QED BY <1>1, <1>2 DEF Rising

(* Lists in order, one after the other. *)
LEMMA FlattenRising ==
  ASSUME NEW s, NEW n \in Nat, s = [i \in 1..n |-> s[i]],
         \A i \in 1..n : Rising(s[i]),
         \A i, j \in 1..n : i < j => \A x \in Msgs(s[i]), y \in Msgs(s[j]) : Less(x, y)
  PROVE  /\ Rising(FlattenSeq(s))
         /\ \A x \in Msgs(FlattenSeq(s)) : \E i \in 1..n : x \in Msgs(s[i])
PROOF
<1>1. Len(s) = n
  OBVIOUS
<1>2. CASE n = 0
  <2>1. FlattenSeq(s) = s
    BY <1>1, <1>2 DEF FlattenSeq
  <2>2. s = <<>>
    BY <1>2
  <2>3. Len(<<>>) = 0 /\ IsSeq(<<>>) /\ 1..0 = {}
    BY EmptyFacts
  <2>4. Rising(<<>>)
    BY <2>3 DEF Rising
  <2> QED BY <2>1, <2>2, <2>4, MsgsEmpty
<1>3. CASE n # 0
  <2>1. PICK f : Joined(s, n, f) /\ FlattenSeq(s) = f[n]
    BY <1>1, <1>3, FlattenIs
  <2> DEFINE Fine(i) == /\ Rising(f[i])
                        /\ \A x \in Msgs(f[i]) : \E l \in 1..i : x \in Msgs(s[l])
             T == {m \in 1..n : ~Fine(m)}
  <2>2. ASSUME T # {} PROVE FALSE
    <3>1. T \subseteq Nat
      OBVIOUS
    <3>2. PICK m \in T : \A y \in T : m <= y
      BY <2>2, <3>1, Least
    <3>3. m \in 1..n /\ ~Fine(m)
      BY <3>2
    <3>4. f[m] = IF m = 1 THEN s[m] ELSE f[m - 1] \o s[m]
      BY <2>1, <3>3 DEF Joined
    <3>5. m # 1
      BY <3>3, <3>4
    <3>6. m - 1 \in 1..n /\ Fine(m - 1)
      <4>1. m - 1 \in 1..n /\ ~(m <= m - 1)
        BY <3>3, <3>5
      <4>2. m - 1 \notin T
        BY <3>2, <4>1
      <4> QED BY <4>1, <4>2, Zenon
    <3>7. PICK a, c : a = f[m - 1] /\ c = s[m]
      OBVIOUS
    <3>8. Rising(a) /\ Rising(c) /\ f[m] = a \o c
      BY <3>3, <3>4, <3>5, <3>6, <3>7
    <3>9. \A x \in Msgs(a) : \E l \in 1..(m - 1) : x \in Msgs(s[l])
      BY <3>6, <3>7
    <3>10. ASSUME NEW x \in Msgs(a), NEW y \in Msgs(c) PROVE Less(x, y)
      <4>1. PICK l \in 1..(m - 1) : x \in Msgs(s[l])
        BY <3>9
      <4>2. l \in 1..n /\ l < m
        BY <3>3, <4>1
      <4> QED BY <3>3, <3>7, <4>1, <4>2
    <3>11. Rising(a \o c)
      BY <3>8, <3>10, RisingConcat
    <3>12. Msgs(a \o c) = Msgs(a) \cup Msgs(c)
      BY <3>8, MsgsConcat DEF Rising
    <3>13. ASSUME NEW x \in Msgs(a \o c) PROVE \E l \in 1..m : x \in Msgs(s[l])
      <4>1. CASE x \in Msgs(a)
        <5>1. PICK l \in 1..(m - 1) : x \in Msgs(s[l])
          BY <3>9, <4>1
        <5>2. l \in 1..m
          BY <3>3, <5>1
        <5> QED BY <5>1, <5>2
      <4>2. CASE x \in Msgs(c)
        <5>1. m \in 1..m
          BY <3>3
        <5> QED BY <3>7, <4>2, <5>1
      <4> QED BY <3>12, <4>1, <4>2
    <3> QED BY <3>3, <3>8, <3>11, <3>13
  <2>3. Fine(n)
    <3>1. n \in 1..n
      BY <1>3
    <3> QED BY <2>2, <3>1
  <2> QED BY <2>1, <2>3
<1> QED BY <1>2, <1>3

(* The frames of an entry are in order, and the subframes of the A-MSDU    *)
(* that lastAmsdu names are not beyond lastSub.                            *)
Entries(b) ==
  /\ \A i \in Indices : Rising(b.entries[i])
  /\ b.lastSub \in Nat
  /\ \A g \in Held(b) : SnOf(g) = b.lastAmsdu => g.sub <= b.lastSub

(* c has entries of b and empty ones. *)
Fewer(b, c) == \A i \in Indices : c.entries[i] = <<>> \/ c.entries[i] = b.entries[i]

LEMMA RisingNone == Rising(<<>>)
PROOF
<1>1. Len(<<>>) = 0 /\ IsSeq(<<>>) /\ 1..0 = {}
  BY EmptyFacts
<1> QED BY <1>1 DEF Rising

LEMMA EntriesFewer ==
  ASSUME NEW b, NEW c, Entries(b), Fewer(b, c),
         c.lastAmsdu = b.lastAmsdu, c.lastSub = b.lastSub
  PROVE  Entries(c) /\ Held(c) \subseteq Held(b)
PROOF
<1>1. \A i \in Indices : Rising(c.entries[i])
  BY RisingNone DEF Entries, Fewer
<1>2. Held(c) \subseteq Held(b)
  BY MsgsEmpty DEF Held, Fewer
<1> QED BY <1>1, <1>2 DEF Entries

LEMMA SetTimerKeeps ==
  ASSUME NEW d, d = [x \in Fields |-> d[x]]
  PROVE  /\ SetTimer(d).entries = d.entries
         /\ SetTimer(d).lastAmsdu = d.lastAmsdu /\ SetTimer(d).lastSub = d.lastSub
PROOF
<1>1. PICK t : SetTimer(d) = [d EXCEPT !.timer = t]
  BY DEF SetTimer, ModTimer
<1> QED BY <1>1 DEF Fields

(* What a release does to the entries. *)
LEMMA ReleaseFewer ==
  ASSUME NEW b, Shape(b), NEW nssn, NEW flags
  PROVE  LET r == ReleaseFrames(b, nssn, flags)
         IN  Fewer(b, r.buf) /\ r.buf.lastAmsdu = b.lastAmsdu /\ r.buf.lastSub = b.lastSub
PROOF
<1>1. b = [x \in Fields |-> b[x]]
  BY DEF Shape
<1>2. PICK I, k, a :
        \/ ReleaseFrames(b, nssn, flags).buf = SetTimer(b)
        \/ ReleaseFrames(b, nssn, flags).buf =
             SetTimer([b EXCEPT !.head = nssn, !.num = k,
                                !.entries = [i \in Indices |-> IF i \in I THEN <<>> ELSE @[i]],
                                !.aged = a])
  BY DEF ReleaseFrames
<1> DEFINE d == [b EXCEPT !.head = nssn, !.num = k,
                          !.entries = [i \in Indices |-> IF i \in I THEN <<>> ELSE @[i]],
                          !.aged = a]
<1>3. /\ d = [x \in Fields |-> d[x]]
      /\ d.entries = [i \in Indices |-> IF i \in I THEN <<>> ELSE b.entries[i]]
      /\ d.lastAmsdu = b.lastAmsdu /\ d.lastSub = b.lastSub
  BY <1>1 DEF Fields
<1>4. Fewer(b, b) /\ Fewer(b, d)
  BY <1>3 DEF Fewer
<1> HIDE DEF d
<1>5. CASE ReleaseFrames(b, nssn, flags).buf = SetTimer(b)
  BY <1>1, <1>4, <1>5, SetTimerKeeps DEF Fewer
<1>6. CASE ReleaseFrames(b, nssn, flags).buf = SetTimer(d)
  BY <1>3, <1>4, <1>6, SetTimerKeeps DEF Fewer
<1> QED BY <1>2, <1>5, <1>6 DEF d

(* What iwl_mvm_release_frames passes up: frames below the number it       *)
(* releases to, in order.                                                  *)
LEMMA ReleaseUp ==
  ASSUME Short, NEW b, NEW h, Windowed(b, h), Entries(b), NEW n \in Nums, NEW flags,
         "from" \in flags \/ h - BufSize <= n,
         Held(b) = {} \/ n <= h + BufSize
  PROVE  LET r == ReleaseFrames(b, n % SnMod, flags)
         IN  /\ Entries(r.buf) /\ Rising(r.up)
             /\ \A g \in Msgs(r.up) : g \in Held(b) /\ g.id < n
PROOF
<1> DEFINE nssn == n % SnMod
           ignored == \/ "from" \in flags /\ SnLess(nssn, b.head)
                      \/ IsSnLess(nssn, b.head)
           c == IF IsSnLess(b.head, nssn) THEN SnSub(nssn, b.head) ELSE 0
           at(i) == SnAdd(b.head, i - 1) % BufSize
           list(i) == IF \E j \in 1..i-1 : at(j) = at(i) THEN <<>> ELSE b.entries[at(i)]
           s == [i \in 1..c |-> list(i)]
<1>0. /\ h \in Int /\ n \in Int /\ b.head = h % SnMod /\ Half \in Nat /\ SnMod = 2 * Half
      /\ BufSize \in Nat /\ BufSize >= 1 /\ h \in Nums
      /\ h - n < Half - BufSize /\ n - h < Half - BufSize
      /\ h - n < Half /\ n - h < Half
  BY NumsFacts DEF Windowed
<1>1. Shape(b)
  BY DEF Windowed
<1>2. Entries(ReleaseFrames(b, nssn, flags).buf)
  BY <1>1, ReleaseFewer, EntriesFewer
<1>3. \/ ReleaseFrames(b, nssn, flags).up = <<>>
      \/ ReleaseFrames(b, nssn, flags).up = FlattenSeq(s)
  BY DEF ReleaseFrames
<1>4. PICK m \in Nat : (m = c /\ h + m <= n) \/ (m = 0 /\ m = c)
  <2>1. IsSnLess(b.head, nssn) => n - BufSize <= h /\ h < n
    BY <1>0, IsLessOf
  <2>2. h < n => SnSub(nssn, b.head) = n - h
    <3>1. h < n => h <= n /\ n - h < SnMod
      BY <1>0
    <3> QED BY <1>0, <3>1, SubIs
  <2>3. CASE IsSnLess(b.head, nssn)
    <3>1. c = n - h /\ n - h \in Nat /\ h + (n - h) <= n
      BY <1>0, <2>1, <2>2, <2>3
    <3> QED BY <3>1
  <2>4. CASE ~IsSnLess(b.head, nssn)
    <3>1. c = 0
      BY <2>4
    <3> QED BY <3>1
  <2> QED BY <2>3, <2>4
<1>5. m <= BufSize
  <2>1. IsSnLess(b.head, nssn) => n - BufSize <= h /\ h < n
    BY <1>0, IsLessOf
  <2>2. m # 0 => IsSnLess(b.head, nssn)
    BY <1>4
  <2> QED BY <1>0, <1>4, <2>1, <2>2
<1>6. ASSUME NEW i \in 1..m
      PROVE  /\ Rising(list(i))
             /\ \A g \in Msgs(list(i)) : g \in Held(b) /\ g.id = h + i - 1 /\ g.id < n
  <2>1. at(i) \in Indices
    <3>1. i - 1 \in Int /\ b.head \in Sns
      BY <1>1 DEF Shape
    <3>2. SnAdd(b.head, i - 1) \in Sns
      BY <3>1, SnAddRange
    <3>3. SnAdd(b.head, i - 1) \in Int
      BY <3>2 DEF Sns
    <3> QED BY <3>3, SnRange
  <2>2. PICK a \in Indices : a = at(i)
    BY <2>1
  <2>3. list(i) = <<>> \/ list(i) = b.entries[a]
    BY <2>2
  <2>4. Rising(list(i))
    <3>1. Rising(b.entries[a])
      BY DEF Entries
    <3> HIDE DEF list
    <3> QED BY <2>3, <3>1, RisingNone
  <2>5. ASSUME NEW g \in Msgs(b.entries[a])
        PROVE  g \in Held(b) /\ g.id = h + i - 1 /\ g.id < n
    <3>1. g \in Held(b)
      BY DEF Held
    <3>2. g.id \in Ids /\ SnOf(g) % BufSize = a
      BY DEF Windowed, Placed
    <3>3. h <= g.id /\ g.id < h + BufSize /\ g.id \in Int
      BY <3>1, <3>2, NumsFacts DEF Windowed
    <3>4. PICK x, y \in Int : x = g.id /\ y = h + (i - 1)
      BY <1>0, <3>3
    <3>5. SnAdd(b.head, i - 1) = y % SnMod
      BY <1>0, <3>4, AddOf
    <3>6. (x % SnMod) % BufSize = (y % SnMod) % BufSize
      BY <2>2, <3>2, <3>4, <3>5 DEF SnOf
    <3>7. x - y < BufSize /\ y - x < BufSize
      BY <1>0, <1>5, <3>3, <3>4
    <3>8. x = y
      BY <3>6, <3>7, SamePlace
    <3>9. y < n
      BY <1>0, <1>4, <3>4
    <3> QED BY <1>0, <3>1, <3>4, <3>8, <3>9
  <2> HIDE DEF list
  <2> QED BY <2>3, <2>4, <2>5, MsgsEmpty
<1> HIDE DEF list, at
<1>7. \A i \in 1..m : s[i] = list(i)
  BY <1>4
<1>8. s = [i \in 1..m |-> s[i]]
  BY <1>4
<1> HIDE DEF s, c
<1>9. \A i, j \in 1..m : i < j => \A x \in Msgs(s[i]), y \in Msgs(s[j]) : Less(x, y)
  <2> SUFFICES ASSUME NEW i \in 1..m, NEW j \in 1..m, i < j,
                      NEW x \in Msgs(s[i]), NEW y \in Msgs(s[j])
               PROVE  Less(x, y)
    OBVIOUS
  <2>1. x.id = h + i - 1 /\ y.id = h + j - 1
    BY <1>6, <1>7
  <2> QED BY <1>0, <2>1 DEF Less
<1>10. /\ Rising(FlattenSeq(s))
       /\ \A x \in Msgs(FlattenSeq(s)) : \E i \in 1..m : x \in Msgs(s[i])
  BY <1>6, <1>7, <1>8, <1>9, FlattenRising
<1>11. Rising(FlattenSeq(s)) /\ \A g \in Msgs(FlattenSeq(s)) : g \in Held(b) /\ g.id < n
  BY <1>6, <1>7, <1>10
<1> HIDE DEF nssn
<1> QED BY <1>2, <1>3, <1>11, RisingNone, MsgsEmpty DEF nssn

(* What r has passed up are frames of b below the new head k, in order. *)
Released(b, r, k) ==
  /\ Entries(r.buf) /\ Rising(r.up)
  /\ \A g \in Msgs(r.up) : g \in Held(b) /\ g.id < k

LEMMA HeldIds ==
  ASSUME NEW b, NEW h, Windowed(b, h)
  PROVE  \A g \in Held(b) : g.id \in Ids /\ g.id \in Int /\ h <= g.id /\ g.id < h + BufSize
PROOF
<1> TAKE g \in Held(b)
<1>1. g.id \in Ids
  BY DEF Windowed, Placed, Held
<1>2. g.id \in Int
  BY <1>1, Numbers
<1> QED BY <1>1, <1>2 DEF Windowed

-----------------------------------------------------------------------------
(* iwl_mvm_reorder *)

(* A frame whose NSSN stands for number n: never a frame the window had    *)
(* passed, its number and its NSSN at most a window apart.                 *)
Coded(f, n) ==
  /\ f.id \in Ids /\ n \in Nums /\ f.nssn = n % SnMod /\ ~f.old
  /\ f.id < n + BufSize /\ n <= f.id + BufSize /\ n # f.id

(* Sequence numbers of frames up to number k. *)
UpToNum(s, k) == \A x \in Msgs(s) : \E y \in Nums : x = y % SnMod /\ y <= k

LEMMA OldSnIs ==
  ASSUME NEW b, Shape(b), NEW f, ~f.old
  PROVE  LET c == OldSnWorkaround(b, f)[1]
         IN  /\ c = [x \in Fields |-> c[x]]
             /\ c.head = b.head /\ c.num = b.num /\ c.entries = b.entries
             /\ c.lastAmsdu = b.lastAmsdu /\ c.lastSub = b.lastSub
PROOF
<1>1. \E g, d : OldSnWorkaround(b, f)[1] = [b EXCEPT !.gp2 = g, !.drops = d]
  BY DEF OldSnWorkaround
<1>2. PICK g, d : OldSnWorkaround(b, f)[1] = [b EXCEPT !.gp2 = g, !.drops = d]
  BY <1>1
<1>3. PICK c : c = [b EXCEPT !.gp2 = g, !.drops = d]
  OBVIOUS
<1>4. /\ c = [x \in Fields |-> c[x]]
      /\ c.head = b.head /\ c.num = b.num /\ c.entries = b.entries
      /\ c.lastAmsdu = b.lastAmsdu /\ c.lastSub = b.lastSub
  BY <1>3 DEF Shape, Fields
<1> QED BY <1>2, <1>3, <1>4

(* A frame or an NSSN outside the window moves it, to the first of the two *)
(* at most.                                                                *)
LEMMA AdjustWindow ==
  ASSUME Short, NEW b, NEW h, Windowed(b, h), NEW f, NEW n, Coded(f, n),
         h - BufSize <= n, h - BufSize <= f.id,
         Held(b) = {} \/ n <= h + BufSize
  PROVE  LET r == Adjust(b, f)
         IN  /\ r.buf.lastAmsdu = b.lastAmsdu /\ r.buf.lastSub = b.lastSub
             /\ Held(r.buf) \subseteq Held(b) /\ IsSeq(r.sync)
             /\ \E k \in Nums :
                  /\ Windowed(r.buf, k) /\ UpToNum(r.sync, k)
                  /\ h <= k /\ f.id < k + BufSize /\ n <= k + BufSize
                  /\ k = h \/ (k <= n /\ k <= f.id)
                  /\ Entries(b) => Released(b, r, k)
PROOF
<1> DEFINE sn == SnOf(f)
           end == SnAdd(b.head, BufSize)
           jump == ~IsSnLess(f.nssn, end) \/ ~SnLess(sn, end)
           minSn == IF SnLess(sn, f.nssn) THEN sn ELSE f.nssn
           b0 == [b EXCEPT !.valid = TRUE]
           r0 == IF jump THEN ReleaseFrames(b0, minSn, {"send"})
                         ELSE [buf |-> b0, up |-> <<>>, sync |-> <<>>]
<1>0. /\ Shape(b) /\ h \in Nums /\ h \in Int /\ n \in Nums /\ n \in Int /\ b.head = h % SnMod
      /\ Half \in Nat /\ SnMod = 2 * Half /\ BufSize \in Nat /\ BufSize >= 1
      /\ f.id \in Nums /\ f.id \in Int /\ f.nssn = n % SnMod /\ sn = f.id % SnMod
      /\ \A x, y \in Nums : x \in Int /\ y \in Int /\ x - y < Half - BufSize
  <2>1. f.id \in Nums /\ n \in Nums /\ f.nssn = n % SnMod
    BY NumsFacts DEF Coded
  <2>2. \A x, y \in Nums : x \in Int /\ y \in Int /\ x - y < Half - BufSize
    BY NumsFacts
  <2> QED BY <2>1, <2>2, NumsFacts DEF Windowed, SnOf
<1>1. PICK id \in Nums : id = f.id
  BY <1>0
<1>2. /\ id \in Int /\ h - n < Half - BufSize /\ n - h < Half - BufSize
      /\ h - id < Half - BufSize /\ id - h < Half - BufSize
      /\ n - id < Half - BufSize /\ id - n < Half - BufSize
      /\ id < n + BufSize /\ n <= id + BufSize /\ h - BufSize <= n /\ h - BufSize <= id
  BY <1>0, <1>1 DEF Coded
<1>3. end = (h + BufSize) % SnMod
  BY <1>0, AddOf
<1>4. PICK e \in Int : e = h + BufSize
  BY <1>0
<1>5. IsSnLess(f.nssn, end) <=> h <= n /\ n < h + BufSize
  <2>1. n - e < Half - BufSize /\ e - n < Half
    BY <1>0, <1>2, <1>4
  <2>2. IsSnLess(n % SnMod, e % SnMod) <=> e - BufSize <= n /\ n < e
    BY <1>0, <2>1, IsLessOf
  <2> QED BY <1>0, <1>3, <1>4, <2>2
<1>6. SnLess(sn, end) <=> id < h + BufSize
  <2>1. id - e < Half /\ e - id < Half
    BY <1>0, <1>2, <1>4
  <2>2. SnLess(id % SnMod, e % SnMod) <=> id < e
    BY <1>2, <2>1, LessOf
  <2> QED BY <1>0, <1>1, <1>3, <1>4, <2>2
<1>7. PICK m \in Nums : m = IF id < n THEN id ELSE n
  BY <1>0
<1>8. minSn = m % SnMod
  <2>1. id - n < Half /\ n - id < Half
    BY <1>0, <1>2
  <2>2. SnLess(id % SnMod, n % SnMod) <=> id < n
    BY <1>0, <1>2, <2>1, LessOf
  <2> QED BY <1>0, <1>1, <1>7, <2>2
<1>9. PICK c : c = b0
  OBVIOUS
<1>10. Windowed(c, h) /\ Held(c) = Held(b) /\ c.lastAmsdu = b.lastAmsdu /\ c.lastSub = b.lastSub
  <2>1. /\ c = [x \in Fields |-> c[x]] /\ c.head = b.head /\ c.num = b.num
        /\ c.entries = b.entries /\ c.lastAmsdu = b.lastAmsdu /\ c.lastSub = b.lastSub
    BY <1>0, <1>9 DEF Shape, Fields
  <2> QED BY <2>1, WindowedSame
<1>11. /\ Adjust(b, f).sync = r0.sync /\ Adjust(b, f).up = r0.up
       /\ Adjust(b, f).buf = OldSnWorkaround(r0.buf, f)[1]
  BY DEF Adjust
<1> HIDE DEF sn, end, minSn, b0
<1>12. /\ IsSeq(r0.sync) /\ Held(r0.buf) \subseteq Held(b)
       /\ r0.buf.lastAmsdu = b.lastAmsdu /\ r0.buf.lastSub = b.lastSub
       /\ \E k \in Nums :
            /\ Windowed(r0.buf, k) /\ UpToNum(r0.sync, k)
            /\ h <= k /\ id < k + BufSize /\ n <= k + BufSize
            /\ k = h \/ (k <= n /\ k <= id)
            /\ Entries(b) => Released(b, r0, k)
  <2>1. CASE jump
    <3>1. r0 = ReleaseFrames(c, m % SnMod, {"send"})
      BY <1>8, <1>9, <2>1
    <3>2. h - BufSize <= m /\ (Held(c) = {} \/ m <= h + BufSize)
      BY <1>0, <1>2, <1>7, <1>10
    <3>3. PICK k \in Nums : k = IF m <= h THEN h ELSE m
      BY <1>0
    <3>4. /\ Windowed(r0.buf, k) /\ Held(r0.buf) \subseteq Held(c)
          /\ r0.buf.lastAmsdu = c.lastAmsdu /\ r0.buf.lastSub = c.lastSub
          /\ \A x \in Msgs(r0.sync) : \E y \in Nums : x = y % SnMod /\ h < y /\ y <= k
      <4> HIDE DEF jump, r0
      <4> QED BY <1>10, <3>1, <3>2, <3>3, ReleaseWindow
    <3>5. IsSeq(r0.sync)
      <4>1. Shape(c) /\ m % SnMod \in Sns
        BY <1>10, NumsFacts DEF Windowed
      <4> HIDE DEF jump, r0
      <4> QED BY <3>1, <4>1, ReleaseGood DEF Good
    <3>6. UpToNum(r0.sync, k)
      BY <3>4 DEF UpToNum
    <3>7. /\ h <= k /\ id < k + BufSize /\ n <= k + BufSize
          /\ k = h \/ (k <= n /\ k <= id)
      BY <1>0, <1>2, <1>7, <3>3
    <3>8. Entries(b) => Released(b, r0, k)
      <4> SUFFICES ASSUME Entries(b) PROVE Released(b, r0, k)
        OBVIOUS
      <4>1. Entries(c)
        BY <1>9, <1>10 DEF b0, Entries
      <4>2. PICK r, fl : r = r0 /\ fl = {"send"}
        OBVIOUS
      <4>3. Entries(r.buf) /\ Rising(r.up) /\ \A g \in Msgs(r.up) : g \in Held(c) /\ g.id < m
        <5>1. "from" \in fl \/ h - BufSize <= m
          BY <3>2
        <5>2. Held(c) = {} \/ m <= h + BufSize
          BY <3>2
        <5>3. r = ReleaseFrames(c, m % SnMod, fl)
          BY <3>1, <4>2
        <5> QED BY <1>10, <4>1, <5>1, <5>2, <5>3, ReleaseUp
      <4>4. \A g \in Msgs(r.up) : g \in Held(b) /\ g.id < k
        <5> TAKE g \in Msgs(r.up)
        <5>1. g \in Held(b) /\ g.id < m /\ g.id \in Int
          BY <1>10, <4>3, HeldIds
        <5> QED BY <1>0, <3>3, <5>1
      <4> HIDE DEF r0
      <4> QED BY <4>2, <4>3, <4>4 DEF Released
    <3> HIDE DEF jump, r0
    <3> QED BY <1>10, <3>4, <3>5, <3>6, <3>7, <3>8
  <2>2. CASE ~jump
    <3>1. r0.buf = c /\ r0.sync = <<>> /\ r0.up = <<>>
      BY <1>9, <2>2
    <3>2. h <= h /\ id < h + BufSize /\ n <= h + BufSize
      BY <1>0, <1>2, <1>5, <1>6, <2>2
    <3>3. IsSeq(r0.sync) /\ UpToNum(r0.sync, h)
      BY <3>1, EmptyFacts, MsgsEmpty DEF UpToNum
    <3>4. Entries(b) => Entries(c)
      BY <1>9, <1>10 DEF b0, Entries
    <3>5. Entries(b) => Released(b, r0, h)
      BY <3>1, <3>4, RisingNone, MsgsEmpty DEF Released
    <3> HIDE DEF jump, r0
    <3> QED BY <1>0, <1>10, <3>1, <3>2, <3>3, <3>5
  <2> QED BY <2>1, <2>2
<1>13. PICK k \in Nums : /\ Windowed(r0.buf, k) /\ UpToNum(r0.sync, k)
                         /\ h <= k /\ id < k + BufSize /\ n <= k + BufSize
                         /\ k = h \/ (k <= n /\ k <= id)
                         /\ Entries(b) => Released(b, r0, k)
  BY <1>12
<1> HIDE DEF r0, jump
<1>14. PICK d : d = OldSnWorkaround(r0.buf, f)[1]
  OBVIOUS
<1>15. /\ Windowed(d, k) /\ Held(d) = Held(r0.buf)
       /\ d.lastAmsdu = b.lastAmsdu /\ d.lastSub = b.lastSub
       /\ Entries(r0.buf) => Entries(d)
  <2>1. Shape(r0.buf) /\ ~f.old
    BY <1>13 DEF Windowed, Coded
  <2>2. /\ d = [x \in Fields |-> d[x]]
        /\ d.head = r0.buf.head /\ d.num = r0.buf.num /\ d.entries = r0.buf.entries
        /\ d.lastAmsdu = r0.buf.lastAmsdu /\ d.lastSub = r0.buf.lastSub
    BY <1>14, <2>1, OldSnIs
  <2>3. Windowed(d, k) /\ Held(d) = Held(r0.buf)
    BY <1>13, <2>2, WindowedSame
  <2>4. Entries(r0.buf) => Entries(d)
    BY <2>2, <2>3 DEF Entries
  <2> QED BY <1>12, <2>2, <2>3, <2>4
<1>16. PICK r : r = Adjust(b, f)
  OBVIOUS
<1>17. Entries(b) => Released(b, r, k)
  BY <1>11, <1>13, <1>14, <1>15, <1>16 DEF Released
<1> QED BY <1>1, <1>11, <1>12, <1>13, <1>14, <1>15, <1>16, <1>17

(* A frame in its place. *)
LEMMA WithFrameWindow ==
  ASSUME NEW b, NEW k, Windowed(b, k), NEW f, f.id \in Ids, f.nssn \in Sns,
         k <= f.id, f.id < k + BufSize
  PROVE  LET c == WithFrame(b, f)
         IN  /\ Windowed(c, k) /\ Held(c) \subseteq Held(b) \cup {f}
             /\ f.amsdu => c.lastAmsdu = SnOf(f) /\ c.lastSub = f.sub
PROOF
<1> DEFINE sn == SnOf(f)
           index == sn % BufSize
           stored == [b EXCEPT !.entries[index] = Append(@, f),
                               !.num = @ + 1,
                               !.aged[index] = FALSE,
                               !.lastAmsdu = IF f.amsdu THEN sn ELSE @,
                               !.lastSub = IF f.amsdu THEN f.sub ELSE @]
<1>1. WithFrame(b, f) = stored
  BY DEF WithFrame
<1>2. Shape(b) /\ IsFrame(f) /\ f.id \in Int
  BY Numbers DEF Windowed, IsFrame
<1>3. Becomes(b, stored)
  BY <1>1, <1>2, WithFrameBuf
<1>4. index \in Indices
  <2>1. sn \in Sns
    BY <1>2, SnRange DEF SnOf
  <2>2. sn \in Int
    BY <2>1 DEF Sns
  <2> HIDE DEF sn
  <2> QED BY <2>2, SnRange
<1>5. PICK j \in Indices : j = index
  BY <1>4
<1>6. /\ stored.head = b.head
      /\ stored.entries = [b.entries EXCEPT ![j] = Append(@, f)]
      /\ f.amsdu => stored.lastAmsdu = sn /\ stored.lastSub = f.sub
  <2> HIDE DEF index, sn
  <2> QED BY <1>2, <1>5 DEF Shape, Fields
<1>7. PICK c : c = stored
  OBVIOUS
<1> HIDE DEF stored
<1>8. Lists(b.entries)
  BY <1>2 DEF Shape
<1>9. /\ c.entries[j] = Append(b.entries[j], f)
      /\ \A i \in Indices \ {j} : c.entries[i] = b.entries[i]
  BY <1>6, <1>7, <1>8 DEF Lists
<1>10. IsSeq(b.entries[j])
  BY <1>8 DEF Lists
<1>11. Msgs(c.entries[j]) = Msgs(b.entries[j]) \cup {f}
  BY <1>9, <1>10, MsgsAppend
<1>12. \A i \in Indices : \A g \in Msgs(c.entries[i]) :
         g \in Msgs(b.entries[i]) \/ (i = j /\ g = f)
  BY <1>9, <1>11, Zenon
<1>13. Placed(c)
  BY <1>5, <1>12 DEF Placed, Windowed
<1>14. Held(c) \subseteq Held(b) \cup {f}
  BY <1>12 DEF Held
<1>15. Windowed(c, k)
  <2>1. \A g \in Held(c) : k <= g.id /\ g.id < k + BufSize
    BY <1>14 DEF Windowed
  <2>2. Shape(c) /\ Counts(c) /\ c.head = b.head
    BY <1>3, <1>6, <1>7 DEF Becomes, Windowed
  <2> QED BY <1>13, <2>1, <2>2 DEF Windowed
<1> QED BY <1>1, <1>6, <1>7, <1>14, <1>15

LEMMA OutdatedIs ==
  ASSUME Short, NEW b, NEW k, Windowed(b, k), NEW f, f.id \in Ids
  PROVE  Outdated(b, f) <=> f.id < k
PROOF
<1>1. PICK id \in Nums : id = f.id
  BY NumsFacts
<1>2. k \in Nums /\ b.head = k % SnMod
  BY DEF Windowed
<1>3. k \in Int /\ id \in Int /\ id - k < Half /\ k - id < Half
  BY <1>2, NumsFacts
<1>4. SnLess(id % SnMod, k % SnMod) <=> id < k
  BY <1>3, LessOf
<1> QED BY <1>1, <1>2, <1>4 DEF Outdated, SnOf

(* What takes the place of a frame of the window is a part of the frame    *)
(* itself.                                                                 *)
LEMMA TakenIs ==
  ASSUME Short, NEW b, NEW k, Windowed(b, k), NEW f, f.id \in Ids,
         k <= f.id, f.id < k + BufSize, Taken(b, f)
  PROVE  \E g \in Held(b) :
           /\ g.id = f.id
           /\ ~f.amsdu \/ SnOf(g) # b.lastAmsdu \/ b.lastSub >= f.sub
PROOF
<1>1. PICK id \in Int : id = f.id
  BY Numbers
<1>2. PICK i \in Indices : i = SnOf(f) % BufSize
  <2>1. id % SnMod \in Int
    BY <1>1, SnRange DEF Sns
  <2>2. (id % SnMod) % BufSize \in Indices
    BY <2>1, SnRange
  <2> QED BY <1>1, <2>2 DEF SnOf
<1>3. b.entries[i] # <<>> /\ IsSeq(b.entries[i])
  BY <1>2 DEF Taken, Windowed, Shape, Lists
<1>4. PICK g : g \in Msgs(b.entries[i])
  BY <1>3, MsgsTail
<1>5. g \in Held(b) /\ g.id \in Ids /\ SnOf(g) % BufSize = i
  BY <1>4 DEF Held, Windowed, Placed
<1>6. PICK x \in Int : x = g.id
  BY <1>5, Numbers
<1>7. k \in Int /\ k <= x /\ x < k + BufSize /\ BufSize \in Nat
  BY <1>5, <1>6, NumsFacts DEF Windowed
<1>8. x = id
  <2>1. x - id < BufSize /\ id - x < BufSize
    BY <1>1, <1>7
  <2>2. (x % SnMod) % BufSize = (id % SnMod) % BufSize
    BY <1>1, <1>2, <1>5, <1>6 DEF SnOf
  <2> QED BY <2>1, <2>2, SamePlace
<1>9. ~f.amsdu \/ SnOf(f) # b.lastAmsdu \/ b.lastSub >= f.sub
  BY DEF Taken
<1> QED BY <1>1, <1>5, <1>6, <1>8, <1>9 DEF SnOf

(* What iwl_mvm_reorder does with a frame once the window is adjusted: it  *)
(* drops the frame, passes it up when nothing is stored, or stores it.     *)
Placing(b, f, n, k, m) ==
  \/ m = k /\ Place(b, f) = [buf |-> b, up |-> <<>>, sync |-> <<>>]
  \/ /\ k <= f.id /\ Held(b) = {} /\ Place(b, f) = PassUp(b, f, m % SnMod)
     /\ f.id < n \/ f.id = k
     /\ WholeMpdu(f) => f.id < m
  \/ /\ k <= f.id /\ ~Taken(b, f)
     /\ \/ m = k /\ Place(b, f) = [buf |-> WithFrame(b, f), up |-> <<>>, sync |-> <<>>]
        \/ n <= m /\ Place(b, f) = ReleaseFrames(WithFrame(b, f), n % SnMod, {"send"})

(* The end of iwl_mvm_reorder: the window moves to the NSSN when the MPDU  *)
(* is complete and is not dropped, and further only when the frame is the  *)
(* next one and nothing is stored.                                         *)
LEMMA PlaceWindow ==
  ASSUME Short, NEW b, NEW k, Windowed(b, k), NEW f, NEW n, Coded(f, n),
         f.id < k + BufSize, n <= k + BufSize, k - BufSize <= n
  PROVE  LET r == Place(b, f)
         IN  /\ Held(r.buf) \subseteq Held(b) \cup {f} /\ IsSeq(r.sync)
             /\ f \in Held(r.buf) /\ f \notin Held(b) /\ f.amsdu =>
                  r.buf.lastAmsdu = SnOf(f) /\ r.buf.lastSub = f.sub
             /\ \E m \in Nums :
                  /\ Windowed(r.buf, m) /\ UpToNum(r.sync, m) /\ k <= m
                  /\ \/ m = k
                     \/ WholeMpdu(f) /\ m = n
                     \/ WholeMpdu(f) /\ m = f.id + 1 /\ n < f.id /\ k = f.id
                  /\ WholeMpdu(f) /\ ~Outdated(b, f) /\ (Immediate(b, f) \/ ~Taken(b, f))
                       => n <= m
                  /\ Placing(b, f, n, k, m)
PROOF
<1> DEFINE sn == SnOf(f)
<1>0. /\ Shape(b) /\ k \in Nums /\ k \in Int /\ n \in Nums /\ n \in Int /\ b.head = k % SnMod
      /\ Half \in Nat /\ SnMod = 2 * Half /\ BufSize \in Nat /\ BufSize >= 1
      /\ f.id \in Nums /\ f.id \in Int /\ f.nssn = n % SnMod /\ sn = f.id % SnMod
      /\ \A x, y \in Nums : x \in Int /\ y \in Int /\ x - y < Half - BufSize
      /\ f.nssn \in Sns /\ Counts(b)
  <2>1. f.id \in Nums /\ n \in Nums /\ f.nssn = n % SnMod
    BY NumsFacts DEF Coded
  <2>2. \A x, y \in Nums : x \in Int /\ y \in Int /\ x - y < Half - BufSize
    BY NumsFacts
  <2> QED BY <2>1, <2>2, NumsFacts DEF Windowed, SnOf
<1>1. PICK id \in Nums : id = f.id
  BY <1>0
<1>2. /\ id \in Int /\ id - n < Half /\ n - id < Half
      /\ k - n < Half - BufSize /\ n - k < Half
      /\ id < n + BufSize /\ n <= id + BufSize /\ n # id /\ id \in Ids
  BY <1>0, <1>1 DEF Coded
<1>3. IsSeq(Place(b, f).sync)
  <2>1. IsFrame(f)
    BY <1>0, <1>1, NumsFacts DEF IsFrame
  <2> QED BY <1>0, <2>1, PlaceGood DEF Good
<1>4. Outdated(b, f) <=> id < k
  BY <1>1, <1>2, OutdatedIs
<1>5. SnLess(sn, f.nssn) <=> id < n
  <2>1. SnLess(id % SnMod, n % SnMod) <=> id < n
    BY <1>0, <1>2, LessOf
  <2> QED BY <1>0, <1>1, <2>1
<1>6. IsSnLess(b.head, f.nssn) <=> n - BufSize <= k /\ k < n
  <2>1. IsSnLess(k % SnMod, n % SnMod) <=> n - BufSize <= k /\ k < n
    <3>1. k - n < Half - BufSize /\ n - k < Half
      BY <1>2
    <3> QED BY <1>0, <3>1, IsLessOf
  <2> QED BY <1>0, <2>1
<1>7. b.num = 0 <=> Held(b) = {}
  BY <1>0, HeldNone
<1>8. sn = b.head <=> id = k
  <2>1. id = k => sn = b.head
    BY <1>0, <1>1
  <2>2. ASSUME sn = b.head PROVE id = k
    <3>1. Unwrap(id % SnMod) = id /\ Unwrap(k % SnMod) = k
      <4>1. FirstId <= id /\ id - FirstId < SnMod /\ FirstId <= k /\ k - FirstId < SnMod
        <5>1. FirstId \in Nums /\ FirstId <= id /\ FirstId <= k
          BY <1>0, NumsFacts DEF Nums
        <5>2. id - FirstId < Half - BufSize /\ k - FirstId < Half - BufSize /\ FirstId \in Int
          BY <1>0, <5>1
        <5> QED BY <1>0, <1>2, <5>1, <5>2
      <4> QED BY <1>0, <1>2, <4>1, UnwrapOf
    <3> QED BY <1>0, <1>1, <2>2, <3>1
  <2> QED BY <2>1, <2>2
<1>9. CASE Outdated(b, f)
  <2>1. Place(b, f) = [buf |-> b, up |-> <<>>, sync |-> <<>>]
    BY <1>9 DEF Place
  <2>2. Placing(b, f, n, k, k)
    BY <2>1 DEF Placing
  <2> HIDE DEF sn
  <2> QED BY <1>0, <1>3, <1>9, <2>1, <2>2, MsgsEmpty DEF UpToNum
(* The frame goes up with head m. *)
<1>10. ASSUME NEW m \in Nums, Held(b) = {}, Place(b, f) = PassUp(b, f, m % SnMod),
              k <= m, m # k => id <= m
       PROVE  /\ Held(Place(b, f).buf) = {}
              /\ Windowed(Place(b, f).buf, m) /\ UpToNum(Place(b, f).sync, m)
  <2>1. PICK c : c = [b EXCEPT !.head = m % SnMod]
    OBVIOUS
  <2>2. /\ Place(b, f).buf = c
        /\ \/ Place(b, f).sync = <<>>
           \/ m % SnMod # b.head /\ Place(b, f).sync = <<SnOf(f)>>
    BY <1>10, <2>1 DEF PassUp
  <2>3. /\ c = [x \in Fields |-> c[x]] /\ c.head = m % SnMod /\ c.num = b.num
        /\ c.entries = b.entries /\ c.removed = b.removed
    BY <1>0, <2>1 DEF Shape, Fields
  <2>4. Shape(c) /\ Counts(c) /\ Held(c) = {}
    BY <1>0, <1>10, <2>3, NumsFacts DEF Shape, Counts, Held
  <2>5. Windowed(c, m)
    BY <2>3, <2>4 DEF Windowed, Placed, Held
  <2>6. UpToNum(Place(b, f).sync, m)
    <3>1. CASE Place(b, f).sync = <<>>
      BY <3>1, MsgsEmpty DEF UpToNum
    <3>2. CASE m % SnMod # b.head /\ Place(b, f).sync = <<SnOf(f)>>
      <4>1. m # k /\ id <= m
        BY <1>0, <1>10, <3>2
      <4> QED BY <1>0, <1>1, <3>2, <4>1, MsgsSingle DEF UpToNum
    <3> QED BY <2>2, <3>1, <3>2
  <2> QED BY <2>2, <2>4, <2>5, <2>6
<1>11. CASE ~Outdated(b, f) /\ b.num = 0 /\ SnLess(sn, f.nssn)
  <2>1. k <= id /\ id < n /\ Held(b) = {}
    BY <1>0, <1>2, <1>4, <1>5, <1>7, <1>11
  <2>2. IsSnLess(b.head, f.nssn)
    BY <1>0, <1>2, <1>6, <2>1
  <2>3. PICK m \in Nums : m = IF WholeMpdu(f) THEN n ELSE k
    BY <1>0
  <2>4. Place(b, f) = PassUp(b, f, m % SnMod)
    BY <1>0, <1>11, <2>2, <2>3 DEF Place
  <2>5. k <= m /\ (m # k => id <= m)
    BY <1>0, <1>2, <2>1, <2>3
  <2>6. /\ Held(Place(b, f).buf) = {}
        /\ Windowed(Place(b, f).buf, m) /\ UpToNum(Place(b, f).sync, m)
    BY <1>10, <2>1, <2>4, <2>5
  <2>7. WholeMpdu(f) => n <= m
    BY <1>0, <2>3
  <2>8. Placing(b, f, n, k, m)
    <3>1. k <= f.id /\ f.id < n /\ (WholeMpdu(f) => f.id < m)
      BY <1>1, <2>1, <2>3
    <3> QED BY <2>1, <2>4, <3>1 DEF Placing
  <2> HIDE DEF sn
  <2> QED BY <1>3, <2>3, <2>5, <2>6, <2>7, <2>8
<1>12. CASE ~Outdated(b, f) /\ b.num = 0 /\ ~SnLess(sn, f.nssn) /\ sn = b.head
  <2>1. k = id /\ n < id /\ Held(b) = {}
    BY <1>0, <1>2, <1>5, <1>7, <1>8, <1>12
  <2>2. id + 1 \in Nums
    <3>1. id \in FirstId..LastId /\ FirstId \in Int /\ LastId \in Int
      BY <1>2, Numbers
    <3> QED BY <3>1 DEF Nums
  <2>3. PICK m \in Nums : m = IF WholeMpdu(f) THEN id + 1 ELSE k
    BY <1>0, <2>2
  <2>4. SnAdd(sn, 1) = (id + 1) % SnMod
    <3>1. (id % SnMod) + 1 \in Nat /\ SnAdd(id % SnMod, 1) = (id + 1) % SnMod
      <4>1. 1 \in Int /\ id \in Int
        BY <1>2
      <4>2. SnAdd(id % SnMod, 1) = (id + 1) % SnMod
        BY <4>1, AddOf
      <4> QED BY <1>0, <1>2, <4>2
    <3> QED BY <1>0, <1>1, <3>1
  <2>5. Place(b, f) = PassUp(b, f, m % SnMod)
    BY <1>0, <1>12, <2>3, <2>4 DEF Place
  <2>6. k <= m /\ (m # k => id <= m)
    BY <1>0, <1>2, <2>1, <2>3
  <2>7. /\ Held(Place(b, f).buf) = {}
        /\ Windowed(Place(b, f).buf, m) /\ UpToNum(Place(b, f).sync, m)
    BY <1>10, <2>1, <2>5, <2>6
  <2>8. n <= m
    BY <1>0, <1>2, <2>1, <2>3
  <2>9. Placing(b, f, n, k, m)
    <3>1. k <= f.id /\ f.id = k /\ (WholeMpdu(f) => f.id < m)
      BY <1>0, <1>1, <2>1, <2>3
    <3> QED BY <2>1, <2>5, <3>1 DEF Placing
  <2> HIDE DEF sn
  <2> QED BY <1>1, <1>3, <2>1, <2>3, <2>6, <2>7, <2>8, <2>9
<1>13. CASE ~Outdated(b, f) /\ ~(b.num = 0 /\ (SnLess(sn, f.nssn) \/ sn = b.head))
  <2>1. Place(b, f) = Store(b, f) /\ ~Immediate(b, f)
    BY <1>13 DEF Place, Immediate
  <2>2. CASE Taken(b, f)
    <3>1. Place(b, f) = [buf |-> b, up |-> <<>>, sync |-> <<>>]
      BY <2>1, <2>2 DEF Store
    <3>2. UpToNum(Place(b, f).sync, k)
      BY <3>1, MsgsEmpty DEF UpToNum
    <3>3. ~(Immediate(b, f) \/ ~Taken(b, f))
      BY <2>1, <2>2
    <3>4. ~(f \in Held(Place(b, f).buf) /\ f \notin Held(b) /\ f.amsdu)
      BY <3>1
    <3>5. Held(Place(b, f).buf) \subseteq Held(b) \cup {f} /\ Windowed(Place(b, f).buf, k)
      BY <3>1
    <3>6. Placing(b, f, n, k, k)
      BY <3>1 DEF Placing
    <3> HIDE DEF sn
    <3> QED BY <1>0, <1>3, <3>2, <3>3, <3>4, <3>5, <3>6
  <2>3. CASE ~Taken(b, f)
    <3>1. PICK c : c = WithFrame(b, f)
      OBVIOUS
    <3>2. /\ WholeMpdu(f) => Place(b, f) = ReleaseFrames(c, n % SnMod, {"send"})
          /\ ~WholeMpdu(f) => Place(b, f) = [buf |-> c, up |-> <<>>, sync |-> <<>>]
      BY <1>0, <2>1, <2>3, <3>1 DEF Store, WithFrame
    <3>3. /\ Windowed(c, k) /\ Held(c) \subseteq Held(b) \cup {f}
          /\ f.amsdu => c.lastAmsdu = SnOf(f) /\ c.lastSub = f.sub
      <4>1. k <= f.id /\ f.id \in Ids
        BY <1>0, <1>1, <1>2, <1>4, <1>13
      <4> QED BY <1>0, <3>1, <4>1, WithFrameWindow
    <3>6. k <= f.id
      BY <1>0, <1>1, <1>2, <1>4, <1>13
    <3>4. CASE ~WholeMpdu(f)
      <4>1. Placing(b, f, n, k, k)
        BY <2>3, <3>1, <3>2, <3>4, <3>6 DEF Placing
      <4> HIDE DEF sn
      <4> QED BY <1>0, <1>3, <3>2, <3>3, <3>4, <4>1, MsgsEmpty DEF UpToNum
    <3>5. CASE WholeMpdu(f)
      <4>1. PICK m \in Nums : m = IF n <= k THEN k ELSE n
        BY <1>0
      <4>0. k - BufSize <= n /\ n <= k + BufSize /\ n \in Nums /\ Windowed(c, k)
        BY <1>0, <3>3
      <4>2. LET r == ReleaseFrames(c, n % SnMod, {"send"})
            IN  /\ Windowed(r.buf, m) /\ Held(r.buf) \subseteq Held(c)
                /\ r.buf.lastAmsdu = c.lastAmsdu /\ r.buf.lastSub = c.lastSub
                /\ \A x \in Msgs(r.sync) : \E y \in Nums : x = y % SnMod /\ k < y /\ y <= m
        <5>1. "from" \in {"send"} \/ k - BufSize <= n
          BY <4>0
        <5>2. Held(c) = {} \/ n <= k + BufSize
          BY <4>0
        <5>3. PICK fl : fl = {"send"}
          OBVIOUS
        <5>4. LET r == ReleaseFrames(c, n % SnMod, fl)
                  x == IF n <= k THEN k ELSE n
              IN  /\ Windowed(r.buf, x) /\ Held(r.buf) \subseteq Held(c)
                  /\ r.buf.lastAmsdu = c.lastAmsdu /\ r.buf.lastSub = c.lastSub
                  /\ \A z \in Msgs(r.sync) : \E y \in Nums : z = y % SnMod /\ k < y /\ y <= x
          BY <4>0, <5>1, <5>2, <5>3, ReleaseWindow
        <5> QED BY <4>1, <5>3, <5>4
      <4>3. UpToNum(Place(b, f).sync, m)
        BY <3>2, <3>5, <4>2 DEF UpToNum
      <4>4. k <= m /\ (m = k \/ m = n) /\ n <= m
        BY <1>0, <4>1
      <4>5. Placing(b, f, n, k, m)
        BY <2>3, <3>1, <3>2, <3>5, <3>6, <4>4 DEF Placing
      <4> HIDE DEF sn
      <4> QED BY <1>3, <3>2, <3>3, <3>5, <4>2, <4>3, <4>4, <4>5
    <3> QED BY <3>4, <3>5
  <2> QED BY <2>2, <2>3
<1> QED BY <1>9, <1>11, <1>12, <1>13

-----------------------------------------------------------------------------
(* The window moves *)

LEMMA WindowIs ==
  ASSUME NEW x \in Nums, Short
  PROVE  Unwrap(x % SnMod) = x /\ x \in Int
PROOF
<1>1. x \in Int /\ FirstId \in Int /\ FirstId <= x /\ x <= LastId + 1 /\ LastId \in Int
  BY NumsFacts
<1>2. LastId + 1 - FirstId < Half - BufSize /\ Half \in Nat /\ SnMod = 2 * Half /\ BufSize \in Nat
  BY NumsFacts
<1>3. x - FirstId < SnMod
  BY <1>1, <1>2
<1> QED BY <1>1, <1>3, UnwrapOf

LEMMA TailAt ==
  ASSUME NEW s, IsSeq(s), s # <<>>
  PROVE  /\ IsSeq(Tail(s)) /\ Len(s) \in Nat /\ Len(s) >= 1
         /\ Len(Tail(s)) = Len(s) - 1 /\ Head(s) = s[1]
         /\ \A j \in 1..(Len(s) - 1) : Tail(s)[j] = s[j + 1]
PROOF
<1>1. PICK M : s \in Seq(M)
  BY DEF IsSeq
<1>2. Tail(s) \in Seq(M) /\ Len(Tail(s)) = Len(s) - 1 /\ Len(s) \in Nat /\ Len(s) >= 1
  BY <1>1
<1>3. \A j \in 1..(Len(s) - 1) : Tail(s)[j] = s[j + 1]
  BY <1>1
<1> QED BY <1>1, <1>2, <1>3 DEF IsSeq

-----------------------------------------------------------------------------
(* What the messages of a queue tell it *)

(* The number the NSSN of a message stands for. *)
Number(m) == Unwrap(m.nssn)

(* Whether the message moves the window to its NSSN. *)
Tells(m) == m.type = "frame" => WholeMpdu(m)

(* Place 0 of a queue stands for the head of the window. *)
NumberAt(h, s, l) == IF l = 0 THEN h ELSE Number(s[l])
TellsAt(s, l) == l = 0 \/ Tells(s[l])

(* From place i to place k the queue is told number x or more. *)
Told(h, s, i, k, x) == \E l \in i..k : TellsAt(s, l) /\ x <= NumberAt(h, s, l)

(* What comes to the queue with a number below x, at place i, and an NSSN  *)
(* that stands for y, has left the window before an NSSN comes that lies   *)
(* more than a window beyond it; w is the NSSN of the firmware.            *)
Leaves(h, s, i, x, y, w) ==
  /\ Told(h, s, i, Len(s), x) \/ Told(h, s, i, Len(s), w)
  /\ \A j \in 1..Len(s) : i < j =>
       \/ Number(s[j]) <= y
       \/ Told(h, s, i, j - 1, x)
       \/ Told(h, s, i, j - 1, Number(s[j]) - BufSize)

Numbered(s) == IsSeq(s) /\ \A j \in 1..Len(s) : Number(s[j]) \in Int

Before1(i) == IF i = 0 THEN 0 ELSE i - 1

LEMMA ToldPop ==
  ASSUME NEW s, Numbered(s), s # <<>>, NEW h \in Int, NEW g \in Int, h <= g,
         Tells(s[1]) => Number(s[1]) <= g,
         NEW i \in Nat, NEW k \in Nat, k <= Len(s), NEW x \in Int, Told(h, s, i, k, x)
  PROVE  Told(g, Tail(s), Before1(i), Before1(k), x)
PROOF
<1>1. PICK l \in i..k : TellsAt(s, l) /\ x <= NumberAt(h, s, l)
  BY DEF Told
<1>2. l \in Nat /\ l <= Len(s) /\ Len(s) \in Nat
  BY <1>1, TailAt DEF Numbered
<1>3. Before1(l) \in Before1(i)..Before1(k)
  BY <1>1, <1>2 DEF Before1
<1>4. CASE l <= 1
  <2>1. Before1(l) = 0 /\ x <= g
    <3>1. CASE l = 0
      BY <1>1, <3>1 DEF Before1, NumberAt
    <3>2. CASE l = 1
      <4>1. Number(s[1]) \in Int
        BY <1>2, <3>2 DEF Numbered
      <4> QED BY <1>1, <3>2, <4>1 DEF Before1, NumberAt, TellsAt
    <3> QED BY <1>2, <1>4, <3>1, <3>2
  <2> QED BY <1>3, <2>1 DEF Told, NumberAt, TellsAt
<1>5. CASE 1 < l
  <2>1. Before1(l) = l - 1 /\ l - 1 # 0 /\ l - 1 \in 1..(Len(s) - 1)
    BY <1>2, <1>5 DEF Before1
  <2>2. Tail(s)[l - 1] = s[(l - 1) + 1] /\ (l - 1) + 1 = l /\ l # 0
    BY <1>2, <1>5, <2>1, TailAt DEF Numbered
  <2> QED BY <1>1, <1>3, <2>1, <2>2 DEF Told, NumberAt, TellsAt
<1> QED BY <1>2, <1>4, <1>5

LEMMA ToldMore ==
  ASSUME NEW s, NEW t, IsSeq(s), IsSeq(t), NEW h, NEW i \in Nat, NEW k \in Nat, k <= Len(s),
         NEW n \in Nat, k <= n, NEW x, Told(h, s, i, k, x)
  PROVE  Told(h, s \o t, i, n, x)
PROOF
<1>1. PICK l \in i..k : TellsAt(s, l) /\ x <= NumberAt(h, s, l)
  BY DEF Told
<1>2. l \in i..n /\ (l = 0 \/ l \in 1..Len(s))
  BY <1>1, ConcatAt
<1>3. l = 0 \/ (s \o t)[l] = s[l]
  BY <1>2, ConcatAt
<1> QED BY <1>1, <1>2, <1>3 DEF Told, NumberAt, TellsAt

LEMMA ToldLess ==
  ASSUME NEW s, Numbered(s), NEW h \in Int, NEW i \in Nat, NEW k \in Nat, k <= Len(s),
         NEW x \in Int, NEW y \in Int, y <= x, Told(h, s, i, k, x)
  PROVE  Told(h, s, i, k, y)
PROOF
<1>1. PICK l \in i..k : TellsAt(s, l) /\ x <= NumberAt(h, s, l)
  BY DEF Told
<1>2. NumberAt(h, s, l) \in Int
  <2>1. l = 0 \/ l \in 1..Len(s)
    BY <1>1
  <2> QED BY <2>1 DEF Numbered, NumberAt
<1> QED BY <1>1, <1>2 DEF Told

LEMMA LeavesPop ==
  ASSUME NEW s, Numbered(s), s # <<>>, NEW h \in Int, NEW g \in Int, h <= g,
         Tells(s[1]) => Number(s[1]) <= g,
         NEW i \in Nat, i <= Len(s), NEW x \in Int, NEW y \in Int, NEW z \in Int, y <= z,
         NEW w \in Int, Leaves(h, s, i, x, y, w)
  PROVE  Leaves(g, Tail(s), Before1(i), x, z, w)
PROOF
<1>1. /\ Len(s) \in Nat /\ Len(s) >= 1 /\ Len(Tail(s)) = Len(s) - 1
      /\ \A j \in 1..(Len(s) - 1) : Tail(s)[j] = s[j + 1]
  BY TailAt DEF Numbered
<1>2. BufSize \in Int
  BY NumsFacts
<1>3. ASSUME NEW v \in Int, NEW k \in Nat, k <= Len(s), Told(h, s, i, k, v)
      PROVE  Told(g, Tail(s), Before1(i), Before1(k), v)
  BY <1>3, ToldPop
<1>4. Told(g, Tail(s), Before1(i), Len(Tail(s)), x) \/ Told(g, Tail(s), Before1(i), Len(Tail(s)), w)
  <2>1. Before1(Len(s)) = Len(Tail(s))
    BY <1>1 DEF Before1
  <2> QED BY <1>1, <1>3, <2>1 DEF Leaves
<1>5. ASSUME NEW j \in 1..Len(Tail(s)), Before1(i) < j, ~(Number(Tail(s)[j]) <= z)
      PROVE  \/ Told(g, Tail(s), Before1(i), j - 1, x)
             \/ Told(g, Tail(s), Before1(i), j - 1, Number(Tail(s)[j]) - BufSize)
  <2>1. /\ j + 1 \in 1..Len(s) /\ i < j + 1 /\ Tail(s)[j] = s[j + 1] /\ j \in Nat /\ j <= Len(s)
        /\ (j + 1) - 1 = j /\ Before1(j) = j - 1
    BY <1>1, <1>5 DEF Before1
  <2>2. Number(s[j + 1]) \in Int /\ ~(Number(s[j + 1]) <= y)
    <3>1. Number(s[j + 1]) \in Int /\ ~(Number(s[j + 1]) <= z)
      BY <1>5, <2>1 DEF Numbered
    <3> QED BY <3>1
  <2>3. Told(h, s, i, j, x) \/ Told(h, s, i, j, Number(s[j + 1]) - BufSize)
    <3>1. \/ Number(s[j + 1]) <= y
          \/ Told(h, s, i, (j + 1) - 1, x)
          \/ Told(h, s, i, (j + 1) - 1, Number(s[j + 1]) - BufSize)
      BY <2>1 DEF Leaves
    <3> QED BY <2>1, <2>2, <3>1
  <2> QED BY <1>2, <1>3, <2>1, <2>2, <2>3
<1> QED BY <1>4, <1>5 DEF Leaves

(* Messages that come: the firmware's NSSN goes from w to v. *)
LEMMA LeavesPush ==
  ASSUME NEW s, NEW t, Numbered(s), Numbered(t), NEW h \in Int,
         NEW i \in Nat, i <= Len(s), NEW x \in Int, NEW y \in Int,
         NEW w \in Int, NEW v \in Int, Leaves(h, s, i, x, y, w),
         \A j \in 1..Len(t) : Number(t[j]) <= w + BufSize,
         \/ t # <<>> /\ Tells(t[Len(t)]) /\ v <= Number(t[Len(t)])
         \/ v <= w \/ x <= w
  PROVE  Leaves(h, s \o t, i, x, y, v)
PROOF
<1>1. /\ Len(s) \in Nat /\ Len(t) \in Nat /\ Len(s \o t) = Len(s) + Len(t)
      /\ \A j \in 1..Len(s) : (s \o t)[j] = s[j]
      /\ \A j \in 1..Len(t) : (s \o t)[Len(s) + j] = t[j]
      /\ IsSeq(s) /\ IsSeq(t) /\ BufSize \in Int
  BY ConcatAt, NumsFacts DEF Numbered
<1>2. ASSUME NEW a \in Int, NEW n \in Nat, Len(s) <= n, Told(h, s, i, Len(s), a)
      PROVE  Told(h, s \o t, i, n, a)
  BY <1>1, <1>2, ToldMore
<1>3. \A a, c \in Int : c <= a /\ Told(h, s, i, Len(s), a) => Told(h, s, i, Len(s), c)
  <2> SUFFICES ASSUME NEW a \in Int, NEW c \in Int, c <= a, Told(h, s, i, Len(s), a)
               PROVE  Told(h, s, i, Len(s), c)
    OBVIOUS
  <2>1. Len(s) \in Nat /\ Len(s) <= Len(s)
    BY <1>1
  <2> QED BY <2>1, ToldLess
<1>4. Told(h, s \o t, i, Len(s \o t), x) \/ Told(h, s \o t, i, Len(s \o t), v)
  <2>1. CASE t # <<>> /\ Tells(t[Len(t)]) /\ v <= Number(t[Len(t)])
    <3>1. Len(t) >= 1
      BY <2>1, TailAt DEF Numbered
    <3>2. /\ Len(s) + Len(t) \in i..(Len(s) + Len(t)) /\ Len(s) + Len(t) # 0
          /\ (s \o t)[Len(s) + Len(t)] = t[Len(t)]
      BY <1>1, <3>1
    <3> QED BY <1>1, <2>1, <3>2 DEF Told, TellsAt, NumberAt
  <2>2. CASE v <= w \/ x <= w
    <3>1. Told(h, s, i, Len(s), x) \/ Told(h, s, i, Len(s), v)
      BY <1>3, <2>2 DEF Leaves
    <3>2. Len(s \o t) \in Nat /\ Len(s) <= Len(s \o t)
      BY <1>1
    <3> QED BY <1>2, <3>1, <3>2
  <2> QED BY <2>1, <2>2
<1>5. ASSUME NEW j \in 1..Len(s \o t), i < j, ~(Number((s \o t)[j]) <= y)
      PROVE  \/ Told(h, s \o t, i, j - 1, x)
             \/ Told(h, s \o t, i, j - 1, Number((s \o t)[j]) - BufSize)
  <2>1. CASE j <= Len(s)
    <3>1. j \in 1..Len(s) /\ (s \o t)[j] = s[j] /\ j - 1 \in Nat /\ j - 1 <= Len(s)
      BY <1>1, <2>1
    <3>2. Told(h, s, i, j - 1, x) \/ Told(h, s, i, j - 1, Number(s[j]) - BufSize)
      BY <1>5, <3>1 DEF Leaves
    <3> QED BY <1>1, <3>1, <3>2, ToldMore
  <2>2. CASE Len(s) < j
    <3>1. j - Len(s) \in 1..Len(t) /\ j = Len(s) + (j - Len(s)) /\ j - 1 \in Nat /\ Len(s) <= j - 1
      BY <1>1, <2>2
    <3>2. (s \o t)[j] = t[j - Len(s)]
      BY <1>1, <3>1
    <3>3. PICK n \in Int : n = Number((s \o t)[j])
      BY <3>1, <3>2 DEF Numbered
    <3>4. n - BufSize <= w
      <4>1. n <= w + BufSize
        BY <3>1, <3>2, <3>3
      <4> QED BY <1>1, <4>1
    <3>5. Told(h, s, i, Len(s), x) \/ Told(h, s, i, Len(s), n - BufSize)
      <4>1. n - BufSize \in Int
        BY <1>1
      <4> QED BY <1>3, <3>4, <4>1 DEF Leaves
    <3>6. n - BufSize \in Int
      BY <1>1
    <3> QED BY <1>2, <3>1, <3>3, <3>5, <3>6
  <2> QED BY <1>1, <2>1, <2>2
<1> QED BY <1>4, <1>5 DEF Leaves

(* The same for a message that comes, as the firmware's NSSN becomes v. *)
LEMMA LeavesNew ==
  ASSUME NEW s, NEW t, Numbered(s), Numbered(t), NEW h \in Int, NEW k \in 1..Len(t),
         NEW x, NEW v \in Int, \A j \in 1..Len(t) : Number(t[j]) = v, Tells(t[Len(t)])
  PROVE  Leaves(h, s \o t, Len(s) + k, x, v, v)
PROOF
<1>1. /\ Len(s) \in Nat /\ Len(t) \in Nat /\ Len(s \o t) = Len(s) + Len(t)
      /\ \A j \in 1..Len(t) : (s \o t)[Len(s) + j] = t[j]
  BY ConcatAt DEF Numbered
<1>2. Told(h, s \o t, Len(s) + k, Len(s \o t), v)
  <2>1. /\ Len(s) + Len(t) \in (Len(s) + k)..Len(s \o t) /\ Len(s) + Len(t) # 0
        /\ (s \o t)[Len(s) + Len(t)] = t[Len(t)] /\ Number(t[Len(t)]) = v
    BY <1>1
  <2> QED BY <2>1 DEF Told, TellsAt, NumberAt
<1>3. ASSUME NEW j \in 1..Len(s \o t), Len(s) + k < j PROVE Number((s \o t)[j]) <= v
  <2>1. j - Len(s) \in 1..Len(t) /\ j = Len(s) + (j - Len(s))
    BY <1>1, <1>3
  <2>2. (s \o t)[j] = t[j - Len(s)]
    BY <1>1, <2>1
  <2> QED BY <2>1, <2>2
<1> QED BY <1>2, <1>3 DEF Leaves

(* The head moves forward. *)
LEMMA LeavesAhead ==
  ASSUME NEW s, Numbered(s), NEW h \in Int, NEW g \in Int, h <= g, NEW i \in Nat, NEW x \in Int,
         NEW y \in Int, NEW z \in Int, y <= z, NEW w \in Int, Leaves(h, s, i, x, y, w)
  PROVE  Leaves(g, s, i, x, z, w)
PROOF
<1>1. ASSUME NEW k \in 0..Len(s), NEW a \in Int, Told(h, s, i, k, a) PROVE Told(g, s, i, k, a)
  <2>1. PICK l \in i..k : TellsAt(s, l) /\ a <= NumberAt(h, s, l)
    BY <1>1 DEF Told
  <2>2. a <= NumberAt(g, s, l)
    BY <2>1 DEF NumberAt
  <2> QED BY <2>1, <2>2 DEF Told
<1>2. Len(s) \in Nat /\ BufSize \in Int
  BY ConcatAt, NumsFacts DEF Numbered
<1>3. Told(g, s, i, Len(s), x) \/ Told(g, s, i, Len(s), w)
  BY <1>1, <1>2 DEF Leaves
<1>4. ASSUME NEW j \in 1..Len(s), i < j, ~(Number(s[j]) <= z)
      PROVE  Told(g, s, i, j - 1, x) \/ Told(g, s, i, j - 1, Number(s[j]) - BufSize)
  <2>1. PICK n \in Int : n = Number(s[j])
    BY DEF Numbered
  <2>2. j - 1 \in 0..Len(s) /\ ~(n <= y) /\ n - BufSize \in Int
    BY <1>2, <1>4, <2>1
  <2>3. Told(h, s, i, j - 1, x) \/ Told(h, s, i, j - 1, n - BufSize)
    BY <1>4, <2>1, <2>2 DEF Leaves
  <2> QED BY <1>1, <2>1, <2>2, <2>3
<1> QED BY <1>3, <1>4 DEF Leaves

-----------------------------------------------------------------------------
(* A queue and its buffer.  s is the queue, b the buffer and h the number  *)
(* of its head; w is the firmware's NSSN, R the frames it has received and *)
(* T the subframes it sends to this queue; a head can be A numbers ahead   *)
(* of the firmware's NSSN, which is 0 until a reorder timer has released   *)
(* frames.                                                                 *)

(* The number a message can move the head to, and the numbers it brings.   *)
Cap(m) == IF Tells(m) \/ Number(m) <= m.id THEN Number(m) ELSE m.id
Above(m, x) == x <= Number(m) /\ (m.type = "frame" => x <= m.id)

MsgOk(m, w, A, R, T) ==
  /\ m.type \in {"frame", "release", "sync"}
  /\ Number(m) \in Nums /\ m.nssn = Number(m) % SnMod
  /\ Number(m) <= IF Data(m) THEN w ELSE w + A
  /\ m.type = "frame" =>
       /\ Coded(m, Number(m))
       /\ <<m.id, m.sub>> \in T /\ m.id \in R /\ m.amsdu = (m.id \in Amsdu)

(* c comes after a. *)
Follows(a, c, A) ==
  Data(c) => IF Data(a) THEN Number(a) <= Number(c) /\ (c.type = "frame" => Cap(a) <= c.id)
                        ELSE Above(c, Number(a) - A)

(* A frame and a fresh one of the same number. *)
Parts(a, c) == a.sub = 0 /\ c.sub = 1 /\ ~a.retry
Fresh(m, id) == m.type = "frame" /\ ~m.retry /\ m.id = id

QueueOk(h, s, w, A, R, T) ==
  /\ IsSeq(s) /\ \A j \in 1..Len(s) : MsgOk(s[j], w, A, R, T)
  /\ \A i, j \in 1..Len(s) : i < j => Follows(s[i], s[j], A)
  /\ \A i \in 1..Len(s) : s[i].type = "frame" => Leaves(h, s, i, s[i].id + 1, Number(s[i]), w)
  /\ \A i, j \in 1..Len(s) :
       i < j /\ s[i].type = "frame" /\ Fresh(s[j], s[i].id) => j = i + 1 /\ Parts(s[i], s[j])

BufOk(h, s, w, A, R, T, b) ==
  /\ Windowed(b, h) /\ ~b.removed /\ h <= w + A
  /\ \A j \in 1..Len(s) : Data(s[j]) => Above(s[j], h - A)
  /\ \A g \in Held(b) :
       /\ g.id \in R /\ <<g.id, g.sub>> \in T
       /\ Leaves(h, s, 0, g.id + 1, h + BufSize, w)
       /\ \A j \in 1..Len(s) : Data(s[j]) => Above(s[j], g.id + 1 - BufSize)
       /\ \A j \in 1..Len(s) : Fresh(s[j], g.id) =>
            j = 1 /\ s[j].sub = 1 /\ g.sub = 0 /\ b.lastAmsdu = SnOf(g) /\ b.lastSub = 0
  /\ \A x \in T : x[1] \in R /\ w <= x[1] => Told(h, s, 0, Len(s), w)
  /\ \A j \in 1..Len(s) : s[j].type = "frame" /\ s[j].retry => Told(h, s, 0, j - 1, Number(s[j]))

(* The firmware: how far beyond its NSSN the frames it has received are,   *)
(* and how far a head can be.                                              *)
FwOk(w, A, R) ==
  /\ w \in Nums /\ A \in {0, BufSize} /\ R \subseteq Ids /\ w \notin R
  /\ \A x \in R : x < w + BufSize

LEMMA QueueNumbered ==
  ASSUME NEW h, NEW s, NEW w, NEW A, NEW R, NEW T, QueueOk(h, s, w, A, R, T)
  PROVE  Numbered(s) /\ \A j \in 1..Len(s) : s[j].type = "frame" => s[j].id \in Int
PROOF
<1>1. ASSUME NEW j \in 1..Len(s)
      PROVE  Number(s[j]) \in Int /\ (s[j].type = "frame" => s[j].id \in Int)
  <2>1. MsgOk(s[j], w, A, R, T)
    BY DEF QueueOk
  <2> QED BY <2>1, NumsFacts DEF MsgOk, Coded
<1> QED BY <1>1 DEF QueueOk, Numbered

(* What the handling of a message m has made of the buffer b: c, with its  *)
(* head at number g instead of h.                                          *)
Handled(m, A, b, h, c, g) ==
  /\ Windowed(c, g) /\ ~c.removed /\ h <= g
  /\ Tells(m) => Number(m) <= g
  /\ \/ g = h
     \/ Data(m) /\ g <= Cap(m)
     \/ ~Data(m) /\ g <= Number(m)
     \/ m.type = "frame" /\ A = BufSize /\ g <= m.id + 1
  /\ \A f \in Held(c) : f \in Held(b)
                        \/ /\ f = m /\ m.type = "frame" /\ Number(m) <= g + BufSize
                           /\ m.amsdu => c.lastAmsdu = SnOf(m) /\ c.lastSub = m.sub

LEMMA PopQueue ==
  ASSUME NEW h \in Int, NEW s, NEW w, NEW A, NEW R, NEW T, QueueOk(h, s, w, A, R, T), s # <<>>,
         NEW g \in Int, h <= g, Tells(s[1]) => Number(s[1]) <= g, w \in Int
  PROVE  QueueOk(g, Tail(s), w, A, R, T)
PROOF
<1>1. /\ IsSeq(s) /\ IsSeq(Tail(s)) /\ Len(s) \in Nat /\ Len(s) >= 1 /\ Len(Tail(s)) = Len(s) - 1
      /\ \A j \in 1..(Len(s) - 1) : Tail(s)[j] = s[j + 1]
  BY TailAt DEF QueueOk
<1>2. PICK t : t = Tail(s)
  OBVIOUS
<1>3. /\ IsSeq(t) /\ Len(t) \in Nat
      /\ \A j \in 1..Len(t) : j \in Nat /\ t[j] = s[j + 1] /\ j + 1 \in 1..Len(s)
  BY <1>1, <1>2
<1>4. \A j \in 1..Len(t) : MsgOk(t[j], w, A, R, T)
  BY <1>3 DEF QueueOk
<1>5. \A i, j \in 1..Len(t) : i < j => Follows(t[i], t[j], A)
  BY <1>3 DEF QueueOk
<1>6. ASSUME NEW i \in 1..Len(t), t[i].type = "frame"
      PROVE  Leaves(g, t, i, t[i].id + 1, Number(t[i]), w)
  <2>1. t[i] = s[i + 1] /\ i + 1 \in 1..Len(s)
    BY <1>3
  <2>2. Leaves(h, s, i + 1, s[i + 1].id + 1, Number(s[i + 1]), w)
    BY <1>6, <2>1 DEF QueueOk
  <2>3. Numbered(s) /\ Number(s[i + 1]) \in Int /\ s[i + 1].id \in Int
    BY <1>6, <2>1, QueueNumbered DEF Numbered
  <2>4. PICK x, y \in Int : x = s[i + 1].id + 1 /\ y = Number(s[i + 1])
    BY <2>3
  <2>5. i + 1 \in Nat /\ i + 1 <= Len(s) /\ y <= y
    BY <1>1, <2>1, <2>4
  <2>6. Leaves(g, Tail(s), Before1(i + 1), x, y, w)
    BY <2>2, <2>3, <2>4, <2>5, LeavesPop
  <2>7. Before1(i + 1) = i
    BY <1>3 DEF Before1
  <2> QED BY <1>2, <2>1, <2>4, <2>6, <2>7
<1>7. \A i, j \in 1..Len(t) :
        i < j /\ t[i].type = "frame" /\ Fresh(t[j], t[i].id) => j = i + 1 /\ Parts(t[i], t[j])
  <2> TAKE i, j \in 1..Len(t)
  <2> HAVE i < j /\ t[i].type = "frame" /\ Fresh(t[j], t[i].id)
  <2>1. /\ t[i] = s[i + 1] /\ t[j] = s[j + 1] /\ i + 1 \in 1..Len(s) /\ j + 1 \in 1..Len(s)
        /\ i + 1 < j + 1 /\ i \in Nat /\ j \in Nat
    BY <1>3
  <2>2. j + 1 = (i + 1) + 1 /\ Parts(s[i + 1], s[j + 1])
    BY <2>1 DEF QueueOk
  <2> QED BY <2>1, <2>2
<1> QED BY <1>2, <1>3, <1>4, <1>5, <1>6, <1>7 DEF QueueOk

LEMMA CapLess ==
  ASSUME NEW m, Number(m) \in Int, m.type = "frame" => m.id \in Int
  PROVE  /\ Cap(m) \in Int /\ Cap(m) <= Number(m)
         /\ m.type = "frame" /\ ~Tells(m) => Cap(m) <= m.id
PROOF BY DEF Cap, Tells

LEMMA PopHead ==
  ASSUME Short, NEW h, NEW s, NEW w, NEW A, NEW R, NEW T, NEW b, NEW c, NEW g, FwOk(w, A, R),
         QueueOk(h, s, w, A, R, T), BufOk(h, s, w, A, R, T, b), s # <<>>,
         Handled(s[1], A, b, h, c, g)
  PROVE  /\ g <= w + A
         /\ \A j \in 1..Len(Tail(s)) : Data(Tail(s)[j]) => Above(Tail(s)[j], g - A)
         /\ \A j \in 1..Len(Tail(s)) : Data(Tail(s)[j]) /\ s[1].type = "frame" =>
              Above(Tail(s)[j], s[1].id + 1 - BufSize)
PROOF
<1>1. PICK m : m = s[1]
  OBVIOUS
<1>2. /\ Len(s) \in Nat /\ 1 \in 1..Len(s) /\ Len(Tail(s)) = Len(s) - 1
      /\ \A j \in 1..(Len(s) - 1) : Tail(s)[j] = s[j + 1]
  BY TailAt DEF QueueOk
<1>3. MsgOk(m, w, A, R, T)
  BY <1>1, <1>2 DEF QueueOk
<1>4. h \in Int /\ g \in Int /\ h <= g /\ w \in Int /\ A \in Int /\ BufSize \in Int /\ h <= w + A
  BY NumsFacts DEF Handled, Windowed, FwOk, BufOk
<1>5. /\ Number(m) \in Int /\ Number(m) <= w + A /\ (Data(m) => Number(m) <= w)
      /\ m.type = "frame" =>
           m.id \in Int /\ m.id \in R /\ m.id < Number(m) + BufSize
  <2>1. A >= 0
    BY NumsFacts DEF FwOk
  <2>2. Number(m) \in Int /\ Number(m) <= (IF Data(m) THEN w ELSE w + A)
    BY <1>3, NumsFacts DEF MsgOk
  <2>3. m.type = "frame" => m.id \in Int /\ m.id \in R /\ m.id < Number(m) + BufSize
    BY <1>3, NumsFacts DEF MsgOk, Coded
  <2> QED BY <1>4, <2>1, <2>2, <2>3
<1>6. /\ Cap(m) \in Int /\ Cap(m) <= Number(m)
      /\ m.type = "frame" /\ ~Tells(m) => Cap(m) <= m.id
  BY <1>5, CapLess
<1>7. m.type = "frame" => m.id + 1 - BufSize <= Number(m) /\ m.id + 1 - BufSize <= Cap(m)
  BY <1>4, <1>5, NumsFacts DEF Cap
<1>8. /\ \/ g = h
         \/ Data(m) /\ g <= Cap(m)
         \/ ~Data(m) /\ g <= Number(m)
         \/ m.type = "frame" /\ A = BufSize /\ g <= m.id + 1
  BY <1>1 DEF Handled
<1>9. g <= w + A
  <2>1. CASE g = h
    BY <1>4, <2>1
  <2>2. CASE (Data(m) /\ g <= Cap(m)) \/ (~Data(m) /\ g <= Number(m))
    BY <1>4, <1>5, <1>6, <2>2
  <2>3. CASE m.type = "frame" /\ A = BufSize /\ g <= m.id + 1
    <3>1. m.id < w + BufSize
      BY <1>5, <2>3 DEF FwOk
    <3> QED BY <1>4, <1>5, <2>3, <3>1
  <2> QED BY <1>8, <2>1, <2>2, <2>3
<1>10. ASSUME NEW j \in 1..Len(Tail(s)), Data(Tail(s)[j])
       PROVE  /\ Above(Tail(s)[j], g - A)
              /\ m.type = "frame" => Above(Tail(s)[j], m.id + 1 - BufSize)
  <2>1. PICK d : d = Tail(s)[j]
    OBVIOUS
  <2>2. j + 1 \in 1..Len(s) /\ 1 < j + 1 /\ d = s[j + 1]
    BY <1>2, <2>1
  <2>3. MsgOk(d, w, A, R, T) /\ Follows(m, d, A) /\ Above(d, h - A)
    BY <1>1, <1>2, <1>10, <2>1, <2>2 DEF QueueOk, BufOk
  <2>4. Number(d) \in Int /\ (d.type = "frame" => d.id \in Int)
    BY <2>3, NumsFacts DEF MsgOk, Coded
  <2>5. Data(m) => Number(m) <= Number(d) /\ (d.type = "frame" => Cap(m) <= d.id)
    BY <1>10, <2>1, <2>3 DEF Follows
  <2>6. m.type = "frame" => Above(d, m.id + 1 - BufSize)
    <3> SUFFICES ASSUME m.type = "frame" PROVE Above(d, m.id + 1 - BufSize)
      OBVIOUS
    <3>1. Data(m)
      BY DEF Data
    <3>2. m.id + 1 - BufSize <= Number(d)
      BY <1>4, <1>5, <1>7, <2>4, <2>5, <3>1
    <3>3. d.type = "frame" => m.id + 1 - BufSize <= d.id
      BY <1>4, <1>5, <1>6, <1>7, <2>4, <2>5, <3>1
    <3> QED BY <3>2, <3>3 DEF Above
  <2>7. CASE g = h
    BY <2>1, <2>3, <2>6, <2>7
  <2>8. CASE Data(m) /\ g <= Cap(m)
    <3>1. A >= 0
      BY NumsFacts DEF FwOk
    <3>2. g - A <= Cap(m)
      BY <1>4, <1>6, <2>8, <3>1
    <3>3. g - A <= Number(d) /\ (d.type = "frame" => g - A <= d.id)
      BY <1>4, <1>5, <1>6, <2>4, <2>5, <2>8, <3>2
    <3> QED BY <2>1, <2>6, <3>3 DEF Above
  <2>9. CASE ~Data(m) /\ g <= Number(m)
    <3>1. Above(d, Number(m) - A)
      BY <1>10, <2>1, <2>3, <2>9 DEF Follows
    <3>2. Above(d, g - A)
      <4>1. g - A <= Number(m) - A
        BY <1>4, <1>5, <2>9
      <4> QED BY <1>4, <1>5, <2>4, <3>1, <4>1 DEF Above
    <3> QED BY <2>1, <2>6, <3>2
  <2>10. CASE m.type = "frame" /\ A = BufSize /\ g <= m.id + 1
    <3>1. g - A <= m.id + 1 - BufSize
      BY <1>4, <1>5, <2>10
    <3>2. Above(d, g - A)
      BY <1>4, <1>5, <2>4, <2>6, <2>10, <3>1 DEF Above
    <3> QED BY <2>1, <2>6, <3>2
  <2> QED BY <1>8, <2>7, <2>8, <2>9, <2>10
<1> QED BY <1>1, <1>9, <1>10

LEMMA PopBuf ==
  ASSUME Short, NEW h, NEW s, NEW w, NEW A, NEW R, NEW T, NEW b, NEW c, NEW g, FwOk(w, A, R),
         QueueOk(h, s, w, A, R, T), BufOk(h, s, w, A, R, T, b), s # <<>>,
         Handled(s[1], A, b, h, c, g), T \subseteq Subframes
  PROVE  QueueOk(g, Tail(s), w, A, R, T) /\ BufOk(g, Tail(s), w, A, R, T, c)
PROOF
<1>1. PICK m, t : m = s[1] /\ t = Tail(s)
  OBVIOUS
<1>2. /\ Len(s) \in Nat /\ Len(s) >= 1 /\ Len(t) = Len(s) - 1 /\ IsSeq(t)
      /\ \A j \in 1..Len(t) : j \in Nat /\ t[j] = s[j + 1] /\ j + 1 \in 1..Len(s)
  <2>1. IsSeq(t) /\ Len(s) \in Nat /\ Len(s) >= 1 /\ Len(t) = Len(s) - 1
        /\ \A j \in 1..(Len(s) - 1) : t[j] = s[j + 1]
    BY <1>1, TailAt DEF QueueOk
  <2> QED BY <2>1
<1>3. /\ h \in Int /\ g \in Int /\ h <= g /\ w \in Int /\ A \in Int /\ BufSize \in Int
      /\ (Tells(m) => Number(m) <= g) /\ Windowed(b, h) /\ Windowed(c, g) /\ ~c.removed
  BY <1>1, NumsFacts DEF Handled, Windowed, FwOk, BufOk
<1>4. Numbered(s) /\ \A j \in 1..Len(s) : s[j].type = "frame" => s[j].id \in Int
  BY QueueNumbered
<1>5. QueueOk(g, t, w, A, R, T)
  BY <1>1, <1>3, PopQueue
<1>6. /\ g <= w + A
      /\ \A j \in 1..Len(t) : Data(t[j]) => Above(t[j], g - A)
      /\ \A j \in 1..Len(t) : Data(t[j]) /\ m.type = "frame" => Above(t[j], m.id + 1 - BufSize)
  BY <1>1, PopHead
<1>7. ASSUME NEW f \in Held(c), f \in Held(b)
      PROVE  /\ f.id \in R /\ <<f.id, f.sub>> \in T /\ Leaves(g, t, 0, f.id + 1, g + BufSize, w)
             /\ \A j \in 1..Len(t) : Data(t[j]) => Above(t[j], f.id + 1 - BufSize)
             /\ \A j \in 1..Len(t) : ~Fresh(t[j], f.id)
  <2>1. /\ f.id \in R /\ <<f.id, f.sub>> \in T /\ Leaves(h, s, 0, f.id + 1, h + BufSize, w)
        /\ \A j \in 1..Len(s) : Data(s[j]) => Above(s[j], f.id + 1 - BufSize)
        /\ \A j \in 1..Len(s) : Fresh(s[j], f.id) => j = 1
    BY <1>7 DEF BufOk
  <2>2. PICK x \in Int : x = f.id + 1
    <3>1. f.id \in Int
      <4>1. f.id \in Ids
        BY <2>1 DEF FwOk
      <4> QED BY <4>1, Numbers
    <3> QED BY <3>1
  <2>3. Leaves(g, t, 0, x, g + BufSize, w)
    <3>1. h + BufSize \in Int /\ g + BufSize \in Int /\ h + BufSize <= g + BufSize /\ 0 \in Nat /\ 0 <= Len(s)
      BY <1>2, <1>3
    <3>2. Leaves(g, Tail(s), Before1(0), x, g + BufSize, w)
      BY <1>1, <1>3, <1>4, <2>1, <2>2, <3>1, LeavesPop
    <3> QED BY <1>1, <3>2 DEF Before1
  <2>4. \A j \in 1..Len(t) : j + 1 # 1
    BY <1>2
  <2> QED BY <1>2, <2>1, <2>2, <2>3, <2>4
<1>8. ASSUME NEW f \in Held(c), f \notin Held(b)
      PROVE  /\ f.id \in R /\ <<f.id, f.sub>> \in T /\ Leaves(g, t, 0, f.id + 1, g + BufSize, w)
             /\ \A j \in 1..Len(t) : Data(t[j]) => Above(t[j], f.id + 1 - BufSize)
             /\ \A j \in 1..Len(t) : Fresh(t[j], f.id) =>
                  j = 1 /\ t[j].sub = 1 /\ f.sub = 0 /\ c.lastAmsdu = SnOf(f) /\ c.lastSub = 0
  <2>1. /\ f = m /\ m.type = "frame" /\ Number(m) <= g + BufSize
        /\ m.amsdu => c.lastAmsdu = SnOf(m) /\ c.lastSub = m.sub
    BY <1>1, <1>8 DEF Handled
  <2>2. m.id \in R /\ <<m.id, m.sub>> \in T /\ m.amsdu = (m.id \in Amsdu) /\ 1 \in 1..Len(s)
        /\ Leaves(h, s, 1, m.id + 1, Number(m), w)
    <3>1. 1 \in 1..Len(s)
      BY <1>2
    <3> QED BY <1>1, <2>1, <3>1 DEF QueueOk, MsgOk
  <2>3. PICK x, y \in Int : x = m.id + 1 /\ y = Number(m)
    <3>1. m.id \in Int /\ Number(m) \in Int
      BY <1>1, <1>4, <2>1, <2>2 DEF Numbered
    <3> QED BY <3>1
  <2>4. Leaves(g, t, 0, x, g + BufSize, w)
    <3>1. g + BufSize \in Int /\ y <= g + BufSize /\ 1 \in Nat /\ 1 <= Len(s)
      BY <1>2, <1>3, <2>1, <2>3
    <3>2. Leaves(g, Tail(s), Before1(1), x, g + BufSize, w)
      BY <1>1, <1>3, <1>4, <2>2, <2>3, <3>1, LeavesPop
    <3> QED BY <1>1, <3>2 DEF Before1
  <2>5. ASSUME NEW j \in 1..Len(t), Fresh(t[j], m.id)
        PROVE  j = 1 /\ t[j].sub = 1 /\ m.sub = 0 /\ m.amsdu
    <3>1. j + 1 = 1 + 1 /\ Parts(m, t[j])
      <4>1. 1 < j + 1 /\ t[j] = s[j + 1] /\ j + 1 \in 1..Len(s)
        BY <1>2
      <4> QED BY <1>1, <2>1, <2>2, <2>5, <4>1 DEF QueueOk
    <3>2. MsgOk(t[j], w, A, R, T)
      BY <1>5 DEF QueueOk
    <3>3. <<m.id, 1>> \in Subframes
      BY <2>5, <3>1, <3>2 DEF MsgOk, Fresh, Parts
    <3>4. m.id \in Amsdu
      <4>1. PICK id \in Ids : <<m.id, 1>> \in {<<id, sub>> : sub \in Subs(id)}
        BY <3>3 DEF Subframes
      <4>2. m.id = id /\ 1 \in Subs(id)
        BY <4>1
      <4> QED BY <4>2 DEF Subs
    <3>5. m.amsdu
      BY <2>2, <3>4, Zenon
    <3>6. j \in Int
      BY <1>2
    <3> QED BY <3>1, <3>5, <3>6 DEF Parts
  <2> QED BY <1>6, <2>1, <2>2, <2>3, <2>4, <2>5
<1>9. \A x \in T : x[1] \in R /\ w <= x[1] => Told(g, t, 0, Len(t), w)
  <2> TAKE x \in T
  <2> HAVE x[1] \in R /\ w <= x[1]
  <2>1. Told(h, s, 0, Len(s), w)
    BY DEF BufOk
  <2>2. Told(g, Tail(s), Before1(0), Before1(Len(s)), w)
    <3>1. 0 \in Nat /\ Len(s) \in Nat /\ Len(s) <= Len(s)
      BY <1>2
    <3> QED BY <1>1, <1>3, <1>4, <2>1, <3>1, ToldPop
  <2> QED BY <1>1, <1>2, <2>2 DEF Before1
<1>10. ASSUME NEW j \in 1..Len(t), t[j].type = "frame", t[j].retry
       PROVE  Told(g, t, 0, j - 1, Number(t[j]))
  <2>1. t[j] = s[j + 1] /\ j + 1 \in 1..Len(s) /\ j \in Nat /\ (j + 1) - 1 = j /\ j <= Len(s)
    BY <1>2
  <2>2. Told(h, s, 0, j, Number(t[j]))
    <3>1. Told(h, s, 0, (j + 1) - 1, Number(s[j + 1]))
      BY <1>10, <2>1 DEF BufOk
    <3> QED BY <2>1, <3>1
  <2>3. Number(t[j]) \in Int
    BY <1>4, <2>1 DEF Numbered
  <2>4. Told(g, Tail(s), Before1(0), Before1(j), Number(t[j]))
    <3>1. 0 \in Nat
      OBVIOUS
    <3> QED BY <1>1, <1>3, <1>4, <2>1, <2>2, <2>3, <3>1, ToldPop
  <2>5. Before1(0) = 0 /\ Before1(j) = j - 1
    BY DEF Before1
  <2> QED BY <1>1, <2>4, <2>5
<1>11. BufOk(g, t, w, A, R, T, c)
  BY <1>3, <1>6, <1>7, <1>8, <1>9, <1>10 DEF BufOk
<1> QED BY <1>1, <1>5, <1>11

-----------------------------------------------------------------------------
(* Messages come to a queue *)

(* What the firmware gives a queue when its NSSN goes from w to v and the  *)
(* frames it has received from R to Q.                                     *)
Given(t, w, v, A, R, Q, T) ==
  /\ IsSeq(t) /\ w <= v /\ v <= w + BufSize /\ R \subseteq Q
  /\ \A j \in 1..Len(t) : MsgOk(t[j], v, A, Q, T) /\ Data(t[j]) /\ Number(t[j]) = v
  /\ \A j \in 1..Len(t) : t[j].type = "frame" =>
       /\ w <= t[j].id
       /\ IF t[j].retry THEN v = w /\ t[j].id \in R ELSE t[j].id \notin R
  /\ \A i, j \in 1..Len(t) : i < j /\ t[j].type = "frame" =>
       j = i + 1 /\ t[i].type = "frame" /\ t[i].id = t[j].id /\ t[i].retry = t[j].retry
       /\ t[i].sub = 0 /\ t[j].sub = 1 /\ ~Tells(t[i])
  /\ t # <<>> => Tells(t[Len(t)])
  /\ t = <<>> => v = w \/ \A x \in T : x[1] \in R => x[1] < w
  /\ \A x \in T : x[1] \in Q => x[1] \in R \/ t # <<>>

LEMMA MsgMore ==
  ASSUME NEW m, NEW w \in Int, NEW v \in Int, w <= v, NEW A \in Int, NEW R, NEW Q, R \subseteq Q,
         NEW T, MsgOk(m, w, A, R, T)
  PROVE  MsgOk(m, v, A, Q, T)
PROOF
<1>1. Number(m) \in Int /\ Number(m) <= (IF Data(m) THEN w ELSE w + A)
  BY NumsFacts DEF MsgOk
<1>2. Number(m) <= (IF Data(m) THEN v ELSE v + A)
  BY <1>1
<1> QED BY <1>2 DEF MsgOk

(* The place of a message in a longer queue. *)
LEMMA PlaceAt ==
  ASSUME NEW s, NEW t, IsSeq(s), IsSeq(t), NEW j \in 1..Len(s \o t)
  PROVE  \/ j \in 1..Len(s) /\ (s \o t)[j] = s[j]
         \/ \E k \in 1..Len(t) : j = Len(s) + k /\ (s \o t)[j] = t[k]
PROOF
<1>1. /\ Len(s) \in Nat /\ Len(t) \in Nat /\ Len(s \o t) = Len(s) + Len(t)
      /\ \A i \in 1..Len(s) : (s \o t)[i] = s[i]
      /\ \A i \in 1..Len(t) : (s \o t)[Len(s) + i] = t[i]
  BY ConcatAt
<1>2. CASE j <= Len(s)
  BY <1>1, <1>2
<1>3. CASE Len(s) < j
  <2>1. j - Len(s) \in 1..Len(t) /\ j = Len(s) + (j - Len(s))
    BY <1>1, <1>3
  <2> QED BY <1>1, <2>1
<1> QED BY <1>1, <1>2, <1>3

LEMMA PushQueue ==
  ASSUME NEW h \in Int, NEW s, NEW w, NEW v, NEW A, NEW R, NEW Q, NEW T, NEW t,
         FwOk(w, A, R), FwOk(v, A, Q), T \subseteq Subframes,
         QueueOk(h, s, w, A, R, T), Given(t, w, v, A, R, Q, T)
  PROVE  QueueOk(h, s \o t, v, A, Q, T)
PROOF
<1>1. w \in Int /\ v \in Int /\ w <= v /\ v <= w + BufSize /\ A \in Int /\ A >= 0 /\ BufSize \in Int
      /\ A <= BufSize
  BY NumsFacts DEF FwOk, Given
<1>2. Numbered(s) /\ \A j \in 1..Len(s) : s[j].type = "frame" => s[j].id \in Int
  BY QueueNumbered
<1>3. PICK u : u = s \o t
  OBVIOUS
<1>4. /\ IsSeq(s) /\ IsSeq(t) /\ IsSeq(u) /\ Len(s) \in Nat /\ Len(t) \in Nat
      /\ Len(u) = Len(s) + Len(t)
      /\ \A j \in 1..Len(s) : j \in 1..Len(u) /\ u[j] = s[j]
      /\ \A j \in 1..Len(t) : u[Len(s) + j] = t[j]
  <2>1. IsSeq(s) /\ IsSeq(t)
    BY DEF QueueOk, Given
  <2>2. /\ IsSeq(u) /\ Len(s) \in Nat /\ Len(t) \in Nat /\ Len(u) = Len(s) + Len(t)
        /\ \A j \in 1..Len(s) : u[j] = s[j]
        /\ \A j \in 1..Len(t) : u[Len(s) + j] = t[j]
    BY <1>3, <2>1, ConcatAt
  <2> QED BY <2>1, <2>2
<1>5. \A j \in 1..Len(u) : \/ j \in 1..Len(s) /\ u[j] = s[j]
                           \/ \E k \in 1..Len(t) : j = Len(s) + k /\ u[j] = t[k]
  BY <1>3, <1>4, PlaceAt
<1>6. Numbered(t) /\ \A j \in 1..Len(t) : Number(t[j]) = v
  BY <1>1, <1>4 DEF Given, Numbered
<1>7. \A j \in 1..Len(u) : MsgOk(u[j], v, A, Q, T)
  <2>1. \A j \in 1..Len(s) : MsgOk(s[j], v, A, Q, T)
    <3>1. \A j \in 1..Len(s) : MsgOk(s[j], w, A, R, T)
      BY DEF QueueOk
    <3>2. R \subseteq Q
      BY DEF Given
    <3> QED BY <1>1, <3>1, <3>2, MsgMore
  <2> QED BY <1>5, <2>1 DEF Given
<1>8. ASSUME NEW i \in 1..Len(u), NEW j \in 1..Len(u), i < j PROVE Follows(u[i], u[j], A)
  <2>1. CASE j \in 1..Len(s)
    <3>1. i \in 1..Len(s)
      BY <1>4, <1>8, <2>1
    <3> QED BY <1>4, <1>8, <2>1, <3>1 DEF QueueOk
  <2>2. CASE \E k \in 1..Len(t) : j = Len(s) + k /\ u[j] = t[k]
    <3>1. PICK k \in 1..Len(t) : j = Len(s) + k /\ u[j] = t[k]
      BY <2>2
    <3>2. PICK a, c : a = u[i] /\ c = u[j]
      OBVIOUS
    <3>3. Data(c) /\ Number(c) = v /\ (c.type = "frame" => w <= c.id /\ c.id \in Int)
      <4>1. MsgOk(c, v, A, Q, T)
        BY <1>7, <3>2
      <4> QED BY <3>1, <3>2, <4>1, NumsFacts DEF Given, MsgOk, Coded
    <3>4. CASE i \in 1..Len(s)
      <4>1. MsgOk(a, w, A, R, T)
        BY <1>4, <3>2, <3>4 DEF QueueOk
      <4>2. /\ Number(a) \in Int /\ (a.type = "frame" => a.id \in Int)
            /\ Number(a) <= IF Data(a) THEN w ELSE w + A
        BY <4>1, NumsFacts DEF MsgOk, Coded
      <4>3. Cap(a) \in Int /\ Cap(a) <= Number(a)
        BY <4>2, CapLess
      <4> QED BY <1>1, <3>2, <3>3, <4>2, <4>3 DEF Follows, Above
    <3>5. CASE \E l \in 1..Len(t) : i = Len(s) + l /\ u[i] = t[l]
      <4>1. PICK l \in 1..Len(t) : i = Len(s) + l /\ u[i] = t[l]
        BY <3>5
      <4>2. l < k /\ Data(a) /\ Number(a) = v /\ MsgOk(a, v, A, Q, T)
        BY <1>4, <1>7, <1>8, <3>1, <3>2, <4>1 DEF Given
      <4>3. c.type = "frame" => Cap(a) <= c.id
        <5> SUFFICES ASSUME c.type = "frame" PROVE Cap(a) <= c.id
          OBVIOUS
        <5>0. t[k].type = "frame" /\ a = t[l] /\ c = t[k] /\ l < k
          BY <3>1, <3>2, <4>1, <4>2
        <5>1. a.type = "frame" /\ a.id = c.id /\ ~Tells(a)
          BY <5>0 DEF Given
        <5>2. a.id \in Int
          <6>1. a.id \in Ids
            BY <4>2, <5>1 DEF MsgOk, Coded
          <6> QED BY <6>1, NumsFacts
        <5> QED BY <1>1, <4>2, <5>1, <5>2, CapLess
      <4> QED BY <1>1, <3>2, <3>3, <4>2, <4>3 DEF Follows, Above
    <3> QED BY <1>5, <3>4, <3>5
  <2> QED BY <1>5, <2>1, <2>2
<1>9. ASSUME NEW i \in 1..Len(u), u[i].type = "frame"
      PROVE  Leaves(h, u, i, u[i].id + 1, Number(u[i]), v)
  <2>1. CASE i \in 1..Len(s) /\ u[i] = s[i]
    <3>1. Leaves(h, s, i, s[i].id + 1, Number(s[i]), w)
      BY <1>9, <2>1 DEF QueueOk
    <3>2. PICK x, y \in Int : x = s[i].id + 1 /\ y = Number(s[i])
      <4>1. s[i].type = "frame"
        BY <1>9, <2>1
      <4>2. s[i].id \in Int /\ Number(s[i]) \in Int
        BY <1>2, <2>1, <4>1 DEF Numbered
      <4>3. s[i].id + 1 \in Int
        BY <4>2
      <4> QED BY <4>2, <4>3, Zenon
    <3>3. \/ t # <<>> /\ Tells(t[Len(t)]) /\ v <= Number(t[Len(t)])
          \/ v <= w \/ x <= w
      <4>1. CASE t # <<>>
        <5>1. Len(t) \in 1..Len(t)
          BY <1>4, <4>1, TailAt
        <5>2. v <= Number(t[Len(t)])
          BY <1>1, <1>6, <5>1
        <5> QED BY <4>1, <5>2 DEF Given
      <4>2. CASE t = <<>> /\ v = w
        BY <1>1, <4>2
      <4>3. CASE t = <<>> /\ \A z \in T : z[1] \in R => z[1] < w
        <5>1. MsgOk(s[i], w, A, R, T)
          BY <2>1 DEF QueueOk
        <5>2. <<s[i].id, s[i].sub>> \in T /\ s[i].id \in R
          BY <1>9, <2>1, <5>1 DEF MsgOk
        <5>3. s[i].id < w /\ s[i].id \in Int
          <6>1. <<s[i].id, s[i].sub>>[1] = s[i].id
            OBVIOUS
          <6> QED BY <1>2, <1>9, <2>1, <4>3, <5>2, <6>1
        <5> QED BY <1>1, <3>2, <5>3
      <4> QED BY <4>1, <4>2, <4>3 DEF Given
    <3>4. Leaves(h, s \o t, i, x, y, v)
      <4>1. i \in Nat /\ i <= Len(s) /\ (\A j \in 1..Len(t) : Number(t[j]) <= w + BufSize)
        BY <1>1, <1>4, <1>6, <2>1
      <4>2. Leaves(h, s, i, x, y, w)
        BY <3>1, <3>2
      <4> QED BY <1>1, <1>2, <1>6, <3>3, <4>1, <4>2, LeavesPush
    <3> QED BY <1>3, <2>1, <3>2, <3>4
  <2>2. CASE \E k \in 1..Len(t) : i = Len(s) + k /\ u[i] = t[k]
    <3>1. PICK k \in 1..Len(t) : i = Len(s) + k /\ u[i] = t[k]
      BY <2>2
    <3>2. t # <<>> /\ Tells(t[Len(t)]) /\ Number(t[k]) = v
      <4>1. t # <<>>
        BY <3>1, EmptyFacts
      <4> QED BY <1>6, <3>1, <4>1 DEF Given
    <3>3. Leaves(h, s \o t, Len(s) + k, t[k].id + 1, v, v)
      BY <1>1, <1>2, <1>6, <3>2, LeavesNew
    <3> QED BY <1>3, <3>1, <3>2, <3>3
  <2> QED BY <1>5, <2>1, <2>2
<1>10. ASSUME NEW i \in 1..Len(u), NEW j \in 1..Len(u), i < j, u[i].type = "frame",
              Fresh(u[j], u[i].id)
       PROVE  j = i + 1 /\ Parts(u[i], u[j])
  <2>1. CASE j \in 1..Len(s)
    <3>1. i \in 1..Len(s)
      BY <1>4, <1>10, <2>1
    <3> QED BY <1>4, <1>10, <2>1, <3>1 DEF QueueOk
  <2>2. CASE \E k \in 1..Len(t) : j = Len(s) + k /\ u[j] = t[k]
    <3>1. PICK k \in 1..Len(t) : j = Len(s) + k /\ u[j] = t[k]
      BY <2>2
    <3>2. CASE i \in 1..Len(s)
      <4>1. u[i].id \in R
        <5>1. MsgOk(s[i], w, A, R, T)
          BY <3>2 DEF QueueOk
        <5> QED BY <1>4, <1>10, <3>2, <5>1 DEF MsgOk
      <4>2. u[j].id \notin R
        BY <1>10, <3>1 DEF Given, Fresh
      <4> QED BY <1>10, <4>1, <4>2 DEF Fresh
    <3>3. CASE \E l \in 1..Len(t) : i = Len(s) + l /\ u[i] = t[l]
      <4>1. PICK l \in 1..Len(t) : i = Len(s) + l /\ u[i] = t[l]
        BY <3>3
      <4>2. l < k /\ k \in Int /\ l \in Int
        BY <1>4, <1>10, <3>1, <4>1
      <4>3. k = l + 1 /\ t[l].retry = t[k].retry /\ t[l].sub = 0 /\ t[k].sub = 1
        BY <1>10, <3>1, <4>1, <4>2 DEF Given, Fresh
      <4>4. ~t[l].retry
        BY <1>10, <3>1, <4>3, Zenon DEF Fresh
      <4> QED BY <1>4, <3>1, <4>1, <4>2, <4>3, <4>4 DEF Parts
    <3> QED BY <1>5, <3>2, <3>3
  <2> QED BY <1>5, <2>1, <2>2
<1> QED BY <1>3, <1>4, <1>7, <1>8, <1>9, <1>10 DEF QueueOk

LEMMA PushBuf ==
  ASSUME NEW h, NEW s, NEW w, NEW v, NEW A, NEW R, NEW Q, NEW T, NEW t, NEW b,
         FwOk(w, A, R), FwOk(v, A, Q), T \subseteq Subframes,
         QueueOk(h, s, w, A, R, T), BufOk(h, s, w, A, R, T, b), Given(t, w, v, A, R, Q, T)
  PROVE  QueueOk(h, s \o t, v, A, Q, T) /\ BufOk(h, s \o t, v, A, Q, T, b)
PROOF
<1>1. /\ w \in Int /\ v \in Int /\ w <= v /\ v <= w + BufSize /\ A \in Int /\ BufSize \in Int
      /\ h \in Int /\ h <= w + A
  BY NumsFacts DEF FwOk, Given, BufOk, Windowed
<1>2. PICK u : u = s \o t
  OBVIOUS
<1>3. /\ IsSeq(s) /\ IsSeq(t) /\ Len(s) \in Nat /\ Len(t) \in Nat
      /\ Len(u) = Len(s) + Len(t)
      /\ \A j \in 1..Len(t) : u[Len(s) + j] = t[j]
  <2>1. IsSeq(s) /\ IsSeq(t)
    BY DEF QueueOk, Given
  <2> QED BY <1>2, <2>1, ConcatAt
<1>4. \A j \in 1..Len(u) : \/ j \in 1..Len(s) /\ u[j] = s[j]
                           \/ \E k \in 1..Len(t) : j = Len(s) + k /\ u[j] = t[k]
  BY <1>2, <1>3, PlaceAt
<1>5. Numbered(s) /\ Numbered(t) /\ \A j \in 1..Len(t) : Number(t[j]) = v /\ Number(t[j]) <= w + BufSize
  <2>1. \A j \in 1..Len(t) : Number(t[j]) = v
    BY DEF Given
  <2> QED BY <1>1, <1>3, <2>1, QueueNumbered DEF Numbered
<1>6. ASSUME NEW j \in 1..Len(t), NEW x \in Int, x <= w PROVE Above(t[j], x)
  <2>1. x <= Number(t[j])
    BY <1>1, <1>5, <1>6
  <2>2. t[j].type = "frame" => w <= t[j].id /\ t[j].id \in Int
    <3>1. MsgOk(t[j], v, A, Q, T) /\ (t[j].type = "frame" => w <= t[j].id)
      BY DEF Given
    <3> QED BY <3>1, NumsFacts DEF MsgOk, Coded
  <2> QED BY <1>1, <1>6, <2>1, <2>2 DEF Above
<1>7. ASSUME NEW n \in Nat, Len(s) <= n, Told(h, s, 0, Len(s), w) PROVE Told(h, u, 0, n, w)
  <2>1. 0 \in Nat /\ Len(s) <= Len(s)
    BY <1>3
  <2> QED BY <1>1, <1>2, <1>3, <1>7, <2>1, ToldMore
<1>8. t # <<>> => Tells(t[Len(t)]) /\ v <= Number(t[Len(t)]) /\ Len(t) \in 1..Len(t)
  <2> SUFFICES ASSUME t # <<>>
               PROVE  Tells(t[Len(t)]) /\ v <= Number(t[Len(t)]) /\ Len(t) \in 1..Len(t)
    OBVIOUS
  <2>1. Len(t) \in 1..Len(t)
    BY <1>3, TailAt
  <2> QED BY <1>1, <1>5, <2>1 DEF Given
<1>9. ASSUME NEW g \in Held(b)
      PROVE  /\ g.id \in Q /\ <<g.id, g.sub>> \in T
             /\ Leaves(h, u, 0, g.id + 1, h + BufSize, v)
             /\ \A j \in 1..Len(u) : Data(u[j]) => Above(u[j], g.id + 1 - BufSize)
             /\ \A j \in 1..Len(u) : Fresh(u[j], g.id) =>
                  j = 1 /\ u[j].sub = 1 /\ g.sub = 0 /\ b.lastAmsdu = SnOf(g) /\ b.lastSub = 0
  <2>1. /\ g.id \in R /\ <<g.id, g.sub>> \in T
        /\ Leaves(h, s, 0, g.id + 1, h + BufSize, w)
        /\ \A j \in 1..Len(s) : Data(s[j]) => Above(s[j], g.id + 1 - BufSize)
        /\ \A j \in 1..Len(s) : Fresh(s[j], g.id) =>
             j = 1 /\ s[j].sub = 1 /\ g.sub = 0 /\ b.lastAmsdu = SnOf(g) /\ b.lastSub = 0
    BY DEF BufOk
  <2>2. g.id \in Q /\ g.id < w + BufSize /\ g.id \in Ids
    BY <2>1 DEF Given, FwOk
  <2>3. PICK x \in Int : x = g.id + 1
    BY <2>2, Numbers
  <2>4. Leaves(h, u, 0, x, h + BufSize, v)
    <3>1. \/ t # <<>> /\ Tells(t[Len(t)]) /\ v <= Number(t[Len(t)])
          \/ v <= w \/ x <= w
      <4>1. CASE t = <<>> /\ \A z \in T : z[1] \in R => z[1] < w
        <5>1. <<g.id, g.sub>>[1] = g.id
          OBVIOUS
        <5>2. g.id < w /\ g.id \in Int
          BY <2>1, <2>2, <4>1, <5>1, Numbers
        <5> QED BY <1>1, <2>3, <5>2
      <4>2. CASE v = w
        BY <1>1, <4>2
      <4> QED BY <1>8, <4>1, <4>2 DEF Given
    <3>2. Leaves(h, s, 0, x, h + BufSize, w) /\ 0 \in Nat /\ 0 <= Len(s) /\ h + BufSize \in Int
      BY <1>1, <1>3, <2>1, <2>3
    <3> QED BY <1>1, <1>2, <1>5, <3>1, <3>2, LeavesPush
  <2>5. \A j \in 1..Len(u) : Data(u[j]) => Above(u[j], g.id + 1 - BufSize)
    <3>1. x - BufSize \in Int /\ x - BufSize <= w /\ x - BufSize = g.id + 1 - BufSize
      <4>1. g.id \in Int
        BY <2>2, Numbers
      <4> QED BY <1>1, <2>2, <2>3, <4>1
    <3>2. \A k \in 1..Len(t) : Above(t[k], x - BufSize)
      BY <1>6, <3>1
    <3> QED BY <1>4, <2>1, <3>1, <3>2
  <2>6. \A k \in 1..Len(t) : ~Fresh(t[k], g.id)
    BY <2>1 DEF Given, Fresh
  <2> QED BY <1>4, <2>1, <2>2, <2>3, <2>4, <2>5, <2>6
<1>10. \A j \in 1..Len(u) : Data(u[j]) => Above(u[j], h - A)
  <2>1. h - A \in Int /\ h - A <= w
    BY <1>1
  <2>2. \A k \in 1..Len(t) : Above(t[k], h - A)
    BY <1>6, <2>1
  <2>3. \A j \in 1..Len(s) : Data(s[j]) => Above(s[j], h - A)
    BY DEF BufOk
  <2> QED BY <1>4, <2>2, <2>3
<1>11. ASSUME NEW x \in T, x[1] \in Q, v <= x[1] PROVE Told(h, u, 0, Len(u), v)
  <2>1. CASE t # <<>>
    <3>1. Tells(u[Len(u)]) /\ v <= Number(u[Len(u)]) /\ Len(u) # 0 /\ Len(u) \in 0..Len(u)
      BY <1>3, <1>8, <2>1
    <3> QED BY <3>1 DEF Told, TellsAt, NumberAt
  <2>2. CASE t = <<>>
    <3>1. x[1] \in R /\ x[1] \in Int
      <4>1. x[1] \in R
        BY <1>11, <2>2 DEF Given
      <4>2. x[1] \in Ids
        BY <4>1 DEF FwOk
      <4> QED BY <4>1, <4>2, Numbers
    <3>2. v = w
      BY <1>1, <1>11, <2>2, <3>1 DEF Given
    <3>3. Told(h, s, 0, Len(s), w)
      BY <1>11, <3>1, <3>2 DEF BufOk
    <3>4. Len(u) \in Nat /\ Len(s) <= Len(u)
      BY <1>3
    <3> QED BY <1>7, <3>2, <3>3, <3>4
  <2> QED BY <2>1, <2>2
<1>12. ASSUME NEW j \in 1..Len(u), u[j].type = "frame", u[j].retry
       PROVE  Told(h, u, 0, j - 1, Number(u[j]))
  <2>1. CASE j \in 1..Len(s) /\ u[j] = s[j]
    <3>1. Told(h, s, 0, j - 1, Number(s[j]))
      BY <1>12, <2>1 DEF BufOk
    <3>2. 0 \in Nat /\ j - 1 \in Nat /\ j - 1 <= Len(s) /\ j - 1 <= j - 1
      BY <1>3, <2>1
    <3> QED BY <1>2, <1>3, <2>1, <3>1, <3>2, ToldMore
  <2>2. CASE \E k \in 1..Len(t) : j = Len(s) + k /\ u[j] = t[k]
    <3>1. PICK k \in 1..Len(t) : j = Len(s) + k /\ u[j] = t[k]
      BY <2>2
    <3>2. v = w /\ t[k].id \in R /\ w <= t[k].id
      BY <1>12, <3>1 DEF Given
    <3>3. <<t[k].id, t[k].sub>> \in T
      BY <1>12, <3>1 DEF Given, MsgOk
    <3>4. Told(h, s, 0, Len(s), w)
      <4>1. <<t[k].id, t[k].sub>>[1] = t[k].id
        OBVIOUS
      <4> QED BY <3>2, <3>3, <4>1 DEF BufOk
    <3>5. j - 1 \in Nat /\ Len(s) <= j - 1
      BY <1>3, <3>1
    <3> QED BY <1>5, <1>7, <3>1, <3>2, <3>4, <3>5
  <2> QED BY <1>4, <2>1, <2>2
<1>13. Windowed(b, h) /\ ~b.removed /\ h <= v + A
  <2>1. h <= v + A
    BY <1>1
  <2> QED BY <2>1 DEF BufOk
<1>14. BufOk(h, u, v, A, Q, T, b)
  BY <1>9, <1>10, <1>11, <1>12, <1>13 DEF BufOk
<1> QED BY <1>1, <1>2, <1>14, PushQueue

LEMMA AppendAt ==
  ASSUME NEW s, NEW m, IsSeq(s)
  PROVE  /\ Append(s, m) = s \o <<m>> /\ IsSeq(<<m>>) /\ IsSeq(s \o <<m>>)
         /\ Len(s) \in Nat /\ Len(<<m>>) = 1 /\ <<m>>[1] = m /\ Len(s \o <<m>>) = Len(s) + 1
         /\ \A j \in 1..(Len(s) + 1) :
              \/ j \in 1..Len(s) /\ (s \o <<m>>)[j] = s[j]
              \/ j = Len(s) + 1 /\ (s \o <<m>>)[j] = m
PROOF
<1>1. PICK M : s \in Seq(M)
  BY DEF IsSeq
<1>2. PICK K : K = M \cup {m}
  OBVIOUS
<1>3. s \in Seq(K) /\ m \in K /\ <<m>> \in Seq(K) /\ Len(<<m>>) = 1 /\ <<m>>[1] = m
  BY <1>1, <1>2
<1>4. Append(s, m) = s \o <<m>>
  BY <1>3
<1>5. IsSeq(<<m>>) /\ IsSeq(s \o <<m>>) /\ Len(s) \in Nat /\ Len(s \o <<m>>) = Len(s) + 1
  BY <1>3 DEF IsSeq
<1>6. \A j \in 1..(Len(s) + 1) :
        \/ j \in 1..Len(s) /\ (s \o <<m>>)[j] = s[j]
        \/ j = Len(s) + 1 /\ (s \o <<m>>)[j] = m
  BY <1>3, <1>5
<1> QED BY <1>3, <1>4, <1>5, <1>6

(* An asynchronous NSSN message comes from another queue. *)
LEMMA PushSync ==
  ASSUME NEW h \in Int, NEW s, NEW w, NEW A, NEW R, NEW T, NEW m, FwOk(w, A, R),
         MsgOk(m, w, A, R, T), m.type = "sync", QueueOk(h, s, w, A, R, T)
  PROVE  /\ QueueOk(h, Append(s, m), w, A, R, T)
         /\ \A b : BufOk(h, s, w, A, R, T, b) => BufOk(h, Append(s, m), w, A, R, T, b)
PROOF
<1>1. PICK u : u = Append(s, m)
  OBVIOUS
<1>2. /\ u = s \o <<m>> /\ IsSeq(<<m>>) /\ IsSeq(s) /\ IsSeq(u)
      /\ Len(s) \in Nat /\ Len(<<m>>) = 1 /\ <<m>>[1] = m /\ Len(u) = Len(s) + 1
      /\ \A j \in 1..Len(u) : \/ j \in 1..Len(s) /\ u[j] = s[j]
                              \/ j = Len(s) + 1 /\ u[j] = m
  <2>1. IsSeq(s)
    BY DEF QueueOk
  <2>2. /\ u = s \o <<m>> /\ IsSeq(<<m>>) /\ IsSeq(u) /\ Len(s) \in Nat
        /\ Len(<<m>>) = 1 /\ <<m>>[1] = m /\ Len(u) = Len(s) + 1
        /\ \A j \in 1..(Len(s) + 1) : \/ j \in 1..Len(s) /\ u[j] = s[j]
                                      \/ j = Len(s) + 1 /\ u[j] = m
    <3>1. u = s \o <<m>>
      BY <1>1, <2>1, AppendAt
    <3> QED BY <2>1, <3>1, AppendAt
  <2> QED BY <2>1, <2>2
<1>3. w \in Int /\ A \in Int /\ BufSize \in Int /\ A <= BufSize
  BY NumsFacts DEF FwOk
<1>4. /\ ~Data(m) /\ m.type # "frame" /\ Number(m) \in Int /\ Number(m) <= w + BufSize
  <2>1. ~Data(m) /\ m.type # "frame"
    BY DEF Data
  <2>2. Number(m) \in Int /\ Number(m) <= w + A
    BY <2>1, NumsFacts DEF MsgOk
  <2> QED BY <1>3, <2>1, <2>2
<1>5. /\ Numbered(s) /\ Numbered(<<m>>) /\ \A j \in 1..Len(<<m>>) : Number(<<m>>[j]) <= w + BufSize
      /\ \A j \in 1..Len(s) : s[j].type = "frame" => s[j].id \in Int
  BY <1>2, <1>4, QueueNumbered DEF Numbered
<1>6. ASSUME NEW i \in Nat, i <= Len(s), NEW x \in Int, NEW y \in Int, Leaves(h, s, i, x, y, w)
      PROVE  Leaves(h, u, i, x, y, w)
  <2>1. w <= w
    BY <1>3
  <2>2. Leaves(h, s \o <<m>>, i, x, y, w)
    BY <1>3, <1>5, <1>6, <2>1, LeavesPush
  <2> QED BY <1>2, <2>2
<1>7. QueueOk(h, u, w, A, R, T)
  <2>1. \A j \in 1..Len(u) : MsgOk(u[j], w, A, R, T)
    BY <1>2 DEF QueueOk
  <2>2. \A i, j \in 1..Len(u) : i < j => i \in 1..Len(s) /\ u[i] = s[i]
    BY <1>2
  <2>3. \A i, j \in 1..Len(u) : i < j => Follows(u[i], u[j], A)
    <3>1. \A a : Follows(a, m, A)
      BY <1>4 DEF Follows
    <3>2. \A i, j \in 1..Len(s) : i < j => Follows(s[i], s[j], A)
      BY DEF QueueOk
    <3> QED BY <1>2, <2>2, <3>1, <3>2
  <2>4. ASSUME NEW i \in 1..Len(u), u[i].type = "frame"
        PROVE  Leaves(h, u, i, u[i].id + 1, Number(u[i]), w)
    <3>1. i \in 1..Len(s) /\ u[i] = s[i] /\ s[i].type = "frame"
      BY <1>2, <1>4, <2>4
    <3>2. Leaves(h, s, i, s[i].id + 1, Number(s[i]), w)
      BY <3>1 DEF QueueOk
    <3>3. i \in Nat /\ i <= Len(s) /\ s[i].id \in Int /\ Number(s[i]) \in Int
      BY <1>2, <1>5, <3>1 DEF Numbered
    <3>4. s[i].id + 1 \in Int
      BY <3>3
    <3> QED BY <1>6, <3>1, <3>2, <3>3, <3>4
  <2>5. \A i, j \in 1..Len(u) :
          i < j /\ u[i].type = "frame" /\ Fresh(u[j], u[i].id) => j = i + 1 /\ Parts(u[i], u[j])
    <3>1. \A x : ~Fresh(m, x)
      BY <1>4 DEF Fresh
    <3>2. \A i, j \in 1..Len(s) :
            i < j /\ s[i].type = "frame" /\ Fresh(s[j], s[i].id) => j = i + 1 /\ Parts(s[i], s[j])
      BY DEF QueueOk
    <3> QED BY <1>2, <2>2, <3>1, <3>2
  <2> QED BY <1>2, <2>1, <2>3, <2>4, <2>5 DEF QueueOk
<1>8. ASSUME NEW b, BufOk(h, s, w, A, R, T, b) PROVE BufOk(h, u, w, A, R, T, b)
  <2>1. \A j \in 1..Len(u) : Data(u[j]) => j \in 1..Len(s) /\ u[j] = s[j]
    BY <1>2, <1>4
  <2>2. \A j \in 1..Len(u) : u[j].type = "frame" => j \in 1..Len(s) /\ u[j] = s[j]
    BY <1>2, <1>4
  <2>3. \A j \in 1..Len(u) : Data(u[j]) => Above(u[j], h - A)
    BY <1>8, <2>1 DEF BufOk
  <2>4. ASSUME NEW g \in Held(b)
        PROVE  /\ g.id \in R /\ <<g.id, g.sub>> \in T
               /\ Leaves(h, u, 0, g.id + 1, h + BufSize, w)
               /\ \A j \in 1..Len(u) : Data(u[j]) => Above(u[j], g.id + 1 - BufSize)
               /\ \A j \in 1..Len(u) : Fresh(u[j], g.id) =>
                    j = 1 /\ u[j].sub = 1 /\ g.sub = 0 /\ b.lastAmsdu = SnOf(g) /\ b.lastSub = 0
    <3>1. /\ g.id \in R /\ <<g.id, g.sub>> \in T
          /\ Leaves(h, s, 0, g.id + 1, h + BufSize, w)
          /\ \A j \in 1..Len(s) : Data(s[j]) => Above(s[j], g.id + 1 - BufSize)
          /\ \A j \in 1..Len(s) : Fresh(s[j], g.id) =>
               j = 1 /\ s[j].sub = 1 /\ g.sub = 0 /\ b.lastAmsdu = SnOf(g) /\ b.lastSub = 0
      BY <1>8 DEF BufOk
    <3>2. Leaves(h, u, 0, g.id + 1, h + BufSize, w)
      <4>1. g.id \in Int
        <5>1. g.id \in Ids
          BY <3>1 DEF FwOk
        <5> QED BY <5>1, Numbers
      <4>2. g.id + 1 \in Int /\ h + BufSize \in Int /\ 0 \in Nat /\ 0 <= Len(s)
        BY <1>2, <1>3, <4>1
      <4> QED BY <1>6, <3>1, <4>2
    <3>3. \A j \in 1..Len(u) : Fresh(u[j], g.id) => j \in 1..Len(s) /\ u[j] = s[j]
      BY <2>2 DEF Fresh
    <3> QED BY <2>1, <3>1, <3>2, <3>3
  <2>5. ASSUME NEW n \in 0..Len(s), NEW k \in Nat, n <= k, NEW x, Told(h, s, 0, n, x)
        PROVE  Told(h, u, 0, k, x)
    <3>1. 0 \in Nat /\ n \in Nat /\ n <= Len(s)
      BY <1>2
    <3> QED BY <1>2, <2>5, <3>1, ToldMore
  <2>6. \A x \in T : x[1] \in R /\ w <= x[1] => Told(h, u, 0, Len(u), w)
    <3>1. Len(s) \in 0..Len(s) /\ Len(u) \in Nat /\ Len(s) <= Len(u)
      BY <1>2
    <3>2. \A x \in T : x[1] \in R /\ w <= x[1] => Told(h, s, 0, Len(s), w)
      BY <1>8 DEF BufOk
    <3> QED BY <2>5, <3>1, <3>2
  <2>7. ASSUME NEW j \in 1..Len(u), u[j].type = "frame", u[j].retry
        PROVE  Told(h, u, 0, j - 1, Number(u[j]))
    <3>1. j \in 1..Len(s) /\ u[j] = s[j] /\ j - 1 \in Nat /\ j - 1 \in 0..Len(s) /\ j - 1 <= j - 1
      BY <1>2, <2>2, <2>7
    <3>2. Told(h, s, 0, j - 1, Number(s[j]))
      BY <1>8, <2>7, <3>1 DEF BufOk
    <3> QED BY <2>5, <3>1, <3>2
  <2> QED BY <1>8, <2>3, <2>4, <2>6, <2>7 DEF BufOk
<1> QED BY <1>1, <1>7, <1>8

(* The head moves without a message: a reorder timer has released frames.  *)
LEMMA QueueAhead ==
  ASSUME NEW h \in Int, NEW g \in Int, h <= g, NEW s, NEW w \in Int, NEW A \in Int,
         NEW C \in Int, A <= C, NEW R, NEW T, QueueOk(h, s, w, A, R, T)
  PROVE  QueueOk(g, s, w, C, R, T)
PROOF
<1>1. Numbered(s) /\ \A j \in 1..Len(s) : s[j].type = "frame" => s[j].id \in Int
  BY QueueNumbered
<1>2. ASSUME NEW j \in 1..Len(s) PROVE MsgOk(s[j], w, C, R, T)
  <2>1. MsgOk(s[j], w, A, R, T) /\ Number(s[j]) \in Int
    BY <1>1 DEF QueueOk, Numbered
  <2>2. Number(s[j]) <= (IF Data(s[j]) THEN w ELSE w + A)
    BY <2>1 DEF MsgOk
  <2>3. Number(s[j]) <= (IF Data(s[j]) THEN w ELSE w + C)
    BY <2>1, <2>2
  <2> QED BY <2>1, <2>3 DEF MsgOk
<1>3. ASSUME NEW i \in 1..Len(s), NEW j \in 1..Len(s), i < j PROVE Follows(s[i], s[j], C)
  <2>1. Follows(s[i], s[j], A)
    BY <1>3 DEF QueueOk
  <2>2. Number(s[i]) \in Int /\ Number(s[j]) \in Int /\ (s[j].type = "frame" => s[j].id \in Int)
    BY <1>1 DEF Numbered
  <2>3. Above(s[j], Number(s[i]) - A) => Above(s[j], Number(s[i]) - C)
    BY <2>2 DEF Above
  <2> QED BY <2>1, <2>3 DEF Follows
<1>4. ASSUME NEW i \in 1..Len(s), s[i].type = "frame"
      PROVE  Leaves(g, s, i, s[i].id + 1, Number(s[i]), w)
  <2>1. Leaves(h, s, i, s[i].id + 1, Number(s[i]), w)
    BY <1>4 DEF QueueOk
  <2>2. PICK x \in Int : x = s[i].id + 1
    <3>1. s[i].id \in Int
      BY <1>1, <1>4
    <3> QED BY <3>1
  <2>3. PICK y \in Int : y = Number(s[i])
    BY <1>1 DEF Numbered
  <2>4. i \in Nat /\ y <= y
    BY <2>3
  <2> QED BY <1>1, <2>1, <2>2, <2>3, <2>4, LeavesAhead
<1> QED BY <1>2, <1>3, <1>4 DEF QueueOk

LEMMA BufAhead ==
  ASSUME NEW h, NEW g, NEW s, NEW w, NEW A, NEW C, NEW R, NEW T, NEW b, NEW c,
         FwOk(w, A, R), FwOk(w, C, R), A <= C,
         QueueOk(h, s, w, A, R, T), BufOk(h, s, w, A, R, T, b),
         Windowed(c, g), ~c.removed, Held(c) \subseteq Held(b),
         c.lastAmsdu = b.lastAmsdu, c.lastSub = b.lastSub, h <= g,
         g = h \/ (C = BufSize /\ \E f \in Held(b) : g = f.id + 1)
  PROVE  QueueOk(g, s, w, C, R, T) /\ BufOk(g, s, w, C, R, T, c)
PROOF
<1>1. /\ h \in Int /\ g \in Int /\ w \in Int /\ A \in Int /\ C \in Int /\ BufSize \in Int
      /\ h <= w + A
  BY NumsFacts DEF FwOk, BufOk, Windowed
<1>2. QueueOk(g, s, w, C, R, T)
  BY <1>1, QueueAhead
<1>3. Numbered(s) /\ \A j \in 1..Len(s) : s[j].type = "frame" => s[j].id \in Int
  BY QueueNumbered
<1>4. ASSUME NEW f \in Held(b) PROVE f.id \in Int /\ f.id \in R /\ f.id < w + BufSize
  <2>1. f.id \in R
    BY DEF BufOk
  <2>2. f.id \in Ids /\ f.id < w + BufSize
    BY <2>1 DEF FwOk
  <2> QED BY <2>1, <2>2, Numbers
<1>5. g <= w + C
  <2>1. CASE g = h
    BY <1>1, <2>1
  <2>2. CASE C = BufSize /\ \E f \in Held(b) : g = f.id + 1
    BY <1>1, <1>4, <2>2
  <2> QED BY <2>1, <2>2
<1>6. ASSUME NEW j \in 1..Len(s), Data(s[j]) PROVE Above(s[j], g - C)
  <2>1. Number(s[j]) \in Int /\ (s[j].type = "frame" => s[j].id \in Int)
    BY <1>3 DEF Numbered
  <2>2. CASE g = h
    <3>1. Above(s[j], h - A) /\ g - C <= h - A
      BY <1>1, <1>6, <2>2 DEF BufOk
    <3> QED BY <1>1, <2>1, <3>1 DEF Above
  <2>3. CASE C = BufSize /\ \E f \in Held(b) : g = f.id + 1
    <3>1. PICK f \in Held(b) : g = f.id + 1
      BY <2>3
    <3>2. Above(s[j], f.id + 1 - BufSize)
      BY <1>6 DEF BufOk
    <3>3. g - C = f.id + 1 - BufSize
      <4>1. f.id \in Int /\ g = f.id + 1 /\ C = BufSize
        BY <1>4, <2>3, <3>1
      <4>2. \A x \in Int : x + 1 - BufSize = (x + 1) - BufSize
        BY <1>1
      <4> QED BY <4>1, <4>2
    <3> QED BY <3>2, <3>3
  <2> QED BY <2>2, <2>3
<1>7. ASSUME NEW f \in Held(c)
      PROVE  /\ f.id \in R /\ <<f.id, f.sub>> \in T
             /\ Leaves(g, s, 0, f.id + 1, g + BufSize, w)
             /\ \A j \in 1..Len(s) : Data(s[j]) => Above(s[j], f.id + 1 - BufSize)
             /\ \A j \in 1..Len(s) : Fresh(s[j], f.id) =>
                  j = 1 /\ s[j].sub = 1 /\ f.sub = 0 /\ c.lastAmsdu = SnOf(f) /\ c.lastSub = 0
  <2>1. f \in Held(b)
    BY <1>7
  <2>2. PICK x \in Int : x = f.id + 1
    BY <1>4, <2>1
  <2>3. h + BufSize \in Int /\ g + BufSize \in Int /\ h + BufSize <= g + BufSize /\ 0 \in Nat
    BY <1>1
  <2>4. Leaves(h, s, 0, x, h + BufSize, w)
    BY <2>1, <2>2 DEF BufOk
  <2>5. Leaves(g, s, 0, x, g + BufSize, w)
    BY <1>1, <1>3, <2>3, <2>4, LeavesAhead
  <2> QED BY <2>1, <2>2, <2>5 DEF BufOk
<1>8. ASSUME NEW k, NEW x, Told(h, s, 0, k, x), x \in Int, k \in 0..Len(s) PROVE Told(g, s, 0, k, x)
  <2>1. PICK l \in 0..k : TellsAt(s, l) /\ x <= NumberAt(h, s, l)
    BY <1>8 DEF Told
  <2>2. x <= NumberAt(g, s, l)
    BY <1>1, <1>8, <2>1 DEF NumberAt
  <2> QED BY <2>1, <2>2 DEF Told
<1>9. Len(s) \in Nat
  BY <1>3, ConcatAt DEF Numbered
<1>10. \A x \in T : x[1] \in R /\ w <= x[1] => Told(g, s, 0, Len(s), w)
  <2>1. Len(s) \in 0..Len(s)
    BY <1>9
  <2> QED BY <1>1, <1>8, <2>1 DEF BufOk
<1>11. ASSUME NEW j \in 1..Len(s), s[j].type = "frame", s[j].retry
       PROVE  Told(g, s, 0, j - 1, Number(s[j]))
  <2>1. j - 1 \in 0..Len(s) /\ Number(s[j]) \in Int
    BY <1>3, <1>9 DEF Numbered
  <2> QED BY <1>8, <1>11, <2>1 DEF BufOk
<1> QED BY <1>2, <1>5, <1>6, <1>7, <1>10, <1>11 DEF BufOk

-----------------------------------------------------------------------------
(* The handlers of a queue *)

(* The first message of a queue and its window. *)
LEMMA FirstMsg ==
  ASSUME NEW h, NEW s, NEW w, NEW A, NEW R, NEW T, NEW b, FwOk(w, A, R),
         QueueOk(h, s, w, A, R, T), BufOk(h, s, w, A, R, T, b), s # <<>>
  PROVE  /\ MsgOk(s[1], w, A, R, T) /\ 1 \in 1..Len(s) /\ Number(s[1]) \in Int /\ h \in Int
         /\ Held(b) = {} \/ Number(s[1]) <= h + BufSize
         /\ Data(s[1]) => Above(s[1], h - A) /\ h - BufSize <= Number(s[1])
         /\ s[1].type = "frame" => s[1].id \in Int /\ h - BufSize <= s[1].id
         /\ s[1].type = "frame" /\ s[1].retry => Number(s[1]) <= h
PROOF
<1>1. PICK m : m = s[1]
  OBVIOUS
<1>2. 1 \in 1..Len(s) /\ 1 - 1 = 0
  <2>1. Len(s) \in Nat /\ Len(s) >= 1
    BY TailAt DEF QueueOk
  <2> QED BY <2>1
<1>3. MsgOk(m, w, A, R, T) /\ Number(m) \in Int /\ (m.type = "frame" => m.id \in Int)
  <2>1. MsgOk(m, w, A, R, T)
    BY <1>1, <1>2 DEF QueueOk
  <2> QED BY <2>1, NumsFacts DEF MsgOk, Coded
<1>4. h \in Int /\ A \in Int /\ A <= BufSize /\ BufSize \in Int /\ \A g \in Held(b) : h <= g.id
  BY NumsFacts DEF FwOk, BufOk, Windowed
<1>5. \A x : Told(h, s, 0, 0, x) => x <= h
  <2>1. \A l \in 0..0 : l = 0
    OBVIOUS
  <2> QED BY <2>1 DEF Told, NumberAt
<1>6. ASSUME NEW g \in Held(b) PROVE Number(m) <= h + BufSize
  <2>1. Leaves(h, s, 0, g.id + 1, h + BufSize, w) /\ g.id \in R
    BY DEF BufOk
  <2>2. g.id \in Int
    <3>1. g.id \in Ids
      BY <2>1 DEF FwOk
    <3> QED BY <3>1, Numbers
  <2>3. \/ Number(m) <= h + BufSize
        \/ Told(h, s, 0, 0, g.id + 1)
        \/ Told(h, s, 0, 0, Number(m) - BufSize)
    BY <1>1, <1>2, <2>1 DEF Leaves
  <2>4. ~(g.id + 1 <= h)
    BY <1>4, <2>2
  <2>5. Number(m) <= h + BufSize \/ Number(m) - BufSize <= h
    BY <1>5, <2>3, <2>4
  <2> QED BY <1>3, <1>4, <2>5
<1>7. ASSUME Data(m) PROVE Above(m, h - A) /\ h - BufSize <= Number(m)
                           /\ (m.type = "frame" => h - BufSize <= m.id)
  <2>1. Above(m, h - A)
    BY <1>1, <1>2, <1>7 DEF BufOk
  <2>2. h - A <= Number(m) /\ (m.type = "frame" => h - A <= m.id)
    BY <2>1 DEF Above
  <2> QED BY <1>3, <1>4, <2>1, <2>2
<1>8. m.type = "frame" /\ m.retry => Number(m) <= h
  BY <1>1, <1>2, <1>5 DEF BufOk
<1>9. m.type = "frame" => Data(m)
  BY DEF Data
<1> QED BY <1>1, <1>2, <1>3, <1>4, <1>6, <1>7, <1>8, <1>9

LEMMA ReorderHandled ==
  ASSUME Short, NEW h, NEW s, NEW w, NEW A, NEW R, NEW T, NEW b, FwOk(w, A, R),
         QueueOk(h, s, w, A, R, T), BufOk(h, s, w, A, R, T, b), s # <<>>, s[1].type = "frame",
         Drops(b, s[1]) => s[1].retry
  PROVE  LET r == Reorder(b, s[1])
         IN  /\ IsSeq(r.sync)
             /\ \E g \in Nums : Handled(s[1], A, b, h, r.buf, g) /\ UpToNum(r.sync, g)
PROOF
<1>1. PICK f, n : f = s[1] /\ n = Number(f)
  OBVIOUS
<1>2. /\ MsgOk(f, w, A, R, T) /\ n \in Int /\ h \in Int /\ f.id \in Int
      /\ (Held(b) = {} \/ n <= h + BufSize)
      /\ Above(f, h - A) /\ h - BufSize <= n /\ h - BufSize <= f.id
      /\ (f.retry => n <= h) /\ f.type = "frame" /\ Data(f)
  <2>1. Data(s[1])
    BY DEF Data
  <2> QED BY <1>1, <2>1, FirstMsg
<1>3. Coded(f, n) /\ Windowed(b, h) /\ ~b.removed /\ ~f.old /\ BufSize \in Int /\ A \in {0, BufSize}
  BY <1>1, <1>2, NumsFacts DEF MsgOk, BufOk, Coded, FwOk
<1>4. PICK a : a = Adjust(b, f)
  OBVIOUS
<1>5. /\ a.buf.lastAmsdu = b.lastAmsdu /\ a.buf.lastSub = b.lastSub
      /\ Held(a.buf) \subseteq Held(b) /\ IsSeq(a.sync)
      /\ \E k \in Nums :
           /\ Windowed(a.buf, k) /\ UpToNum(a.sync, k)
           /\ h <= k /\ f.id < k + BufSize /\ n <= k + BufSize
           /\ k = h \/ (k <= n /\ k <= f.id)
  BY <1>2, <1>3, <1>4, AdjustWindow
<1>6. PICK k \in Nums :
           /\ Windowed(a.buf, k) /\ UpToNum(a.sync, k)
           /\ h <= k /\ f.id < k + BufSize /\ n <= k + BufSize
           /\ k = h \/ (k <= n /\ k <= f.id)
  BY <1>5
<1>7. k \in Int /\ k - BufSize <= n
  <2>1. k \in Int
    BY NumsFacts
  <2> QED BY <1>2, <1>3, <1>6, <2>1, NumsFacts
<1>8. PICK p : p = Place(a.buf, f)
  OBVIOUS
<1>9. /\ Held(p.buf) \subseteq Held(a.buf) \cup {f} /\ IsSeq(p.sync)
      /\ f \in Held(p.buf) /\ f \notin Held(a.buf) /\ f.amsdu =>
           p.buf.lastAmsdu = SnOf(f) /\ p.buf.lastSub = f.sub
      /\ \E m \in Nums :
           /\ Windowed(p.buf, m) /\ UpToNum(p.sync, m) /\ k <= m
           /\ \/ m = k
              \/ WholeMpdu(f) /\ m = n
              \/ WholeMpdu(f) /\ m = f.id + 1 /\ n < f.id /\ k = f.id
           /\ WholeMpdu(f) /\ ~Outdated(a.buf, f) /\ (Immediate(a.buf, f) \/ ~Taken(a.buf, f))
                => n <= m
  BY <1>3, <1>6, <1>7, <1>8, PlaceWindow
<1>10. PICK m \in Nums :
           /\ Windowed(p.buf, m) /\ UpToNum(p.sync, m) /\ k <= m
           /\ \/ m = k
              \/ WholeMpdu(f) /\ m = n
              \/ WholeMpdu(f) /\ m = f.id + 1 /\ n < f.id /\ k = f.id
           /\ WholeMpdu(f) /\ ~Outdated(a.buf, f) /\ (Immediate(a.buf, f) \/ ~Taken(a.buf, f))
                => n <= m
  BY <1>9
<1>11. Reorder(b, f).buf = p.buf /\ Reorder(b, f).sync = a.sync \o p.sync
  BY <1>3, <1>4, <1>8 DEF Reorder
<1>12. ~p.buf.removed
  <2>1. IsFrame(f)
    BY <1>3, Numbers, NumsFacts DEF Coded, IsFrame
  <2>2. Good(b, Reorder(b, f))
    BY <1>3, <2>1, ReorderGood DEF Windowed
  <2> QED BY <1>3, <1>11, <2>2 DEF Good, Becomes
<1>13. m \in Int /\ h <= m
  <2>1. m \in Int
    BY NumsFacts
  <2> QED BY <1>2, <1>6, <1>7, <1>10, <2>1
<1>14. Tells(f) => n <= m
  <2> SUFFICES ASSUME Tells(f) PROVE n <= m
    OBVIOUS
  <2>1. WholeMpdu(f)
    BY <1>2 DEF Tells
  <2>2. CASE Drops(b, f)
    BY <1>1, <1>2, <1>13, <2>2
  <2>3. CASE ~Drops(b, f)
    BY <1>3, <1>4, <1>10, <2>1, <2>3 DEF Drops
  <2> QED BY <2>2, <2>3
<1>15. m = h \/ m <= Cap(f) \/ (A = BufSize /\ m <= f.id + 1)
  <2>1. k = h \/ k <= Cap(f)
    BY <1>1, <1>6 DEF Cap
  <2>2. CASE m = k
    BY <2>1, <2>2
  <2>3. CASE WholeMpdu(f) /\ m = n
    BY <1>1, <1>13, <2>3 DEF Cap, Tells
  <2>4. CASE WholeMpdu(f) /\ m = f.id + 1 /\ n < f.id /\ k = f.id
    <3>1. A = 0 => h <= n
      BY <1>1, <1>2 DEF Above
    <3>2. A # 0
      BY <1>2, <1>6, <1>7, <2>4, <3>1
    <3> QED BY <1>2, <1>3, <1>13, <2>4, <3>2
  <2> QED BY <1>10, <2>2, <2>3, <2>4
<1>16. ASSUME NEW g \in Held(p.buf), g \notin Held(b)
       PROVE  /\ g = f /\ f.type = "frame" /\ n <= m + BufSize
              /\ f.amsdu => p.buf.lastAmsdu = SnOf(f) /\ p.buf.lastSub = f.sub
  <2>1. g \notin Held(a.buf) /\ g = f
    BY <1>5, <1>9, <1>16
  <2>2. n <= m + BufSize
    BY <1>2, <1>3, <1>6, <1>7, <1>10, <1>13
  <2> QED BY <1>2, <1>9, <1>16, <2>1, <2>2
<1>17. Handled(f, A, b, h, p.buf, m)
  BY <1>1, <1>2, <1>10, <1>12, <1>13, <1>14, <1>15, <1>16 DEF Handled
<1>18. IsSeq(a.sync \o p.sync) /\ UpToNum(a.sync \o p.sync, m)
  <2>1. /\ IsSeq(a.sync \o p.sync) /\ IsSeq(a.sync) /\ IsSeq(p.sync)
        /\ Msgs(a.sync \o p.sync) = Msgs(a.sync) \cup Msgs(p.sync)
    BY <1>5, <1>9, MsgsConcat
  <2>2. ASSUME NEW x \in Msgs(a.sync) PROVE \E y \in Nums : x = y % SnMod /\ y <= m
    <3>1. PICK y \in Nums : x = y % SnMod /\ y <= k
      BY <1>6 DEF UpToNum
    <3>2. y \in Int
      BY NumsFacts
    <3> QED BY <1>7, <1>10, <1>13, <3>1, <3>2
  <2> QED BY <1>10, <2>1, <2>2 DEF UpToNum
<1> QED BY <1>1, <1>11, <1>17, <1>18

(* Without a reorder timer, nothing fresh is dropped. *)
LEMMA FreshStays ==
  ASSUME Short, NEW h, NEW s, NEW w, NEW R, NEW T, T \subseteq Subframes, NEW b, FwOk(w, 0, R),
         QueueOk(h, s, w, 0, R, T), BufOk(h, s, w, 0, R, T, b), s # <<>>, s[1].type = "frame",
         Drops(b, s[1])
  PROVE  s[1].retry
PROOF
<1> SUFFICES ASSUME ~s[1].retry PROVE FALSE
  OBVIOUS
<1>1. PICK f, n : f = s[1] /\ n = Number(f)
  OBVIOUS
<1>2. /\ MsgOk(f, w, 0, R, T) /\ n \in Int /\ h \in Int /\ f.id \in Int /\ 1 \in 1..Len(s)
      /\ (Held(b) = {} \/ n <= h + BufSize)
      /\ Above(f, h - 0) /\ h - BufSize <= n /\ h - BufSize <= f.id /\ f.type = "frame"
  <2>1. Data(s[1])
    BY DEF Data
  <2> QED BY <1>1, <2>1, FirstMsg
<1>3. Coded(f, n) /\ Windowed(b, h) /\ BufSize \in Int /\ h <= f.id /\ f.id \in Ids
  BY <1>1, <1>2, NumsFacts DEF MsgOk, BufOk, Coded, Above
<1>4. PICK a : a = Adjust(b, f).buf
  OBVIOUS
<1>5. /\ a.lastAmsdu = b.lastAmsdu /\ a.lastSub = b.lastSub /\ Held(a) \subseteq Held(b)
      /\ \E k \in Nums : Windowed(a, k) /\ f.id < k + BufSize /\ (k = h \/ (k <= n /\ k <= f.id))
  <2>1. LET r == Adjust(b, f)
        IN  /\ r.buf.lastAmsdu = b.lastAmsdu /\ r.buf.lastSub = b.lastSub
            /\ Held(r.buf) \subseteq Held(b) /\ IsSeq(r.sync)
            /\ \E k \in Nums :
                 /\ Windowed(r.buf, k) /\ UpToNum(r.sync, k)
                 /\ h <= k /\ f.id < k + BufSize /\ n <= k + BufSize
                 /\ k = h \/ (k <= n /\ k <= f.id)
    BY <1>2, <1>3, AdjustWindow
  <2> QED BY <1>4, <2>1
<1>6. PICK k \in Nums : Windowed(a, k) /\ f.id < k + BufSize /\ k <= f.id
  BY <1>3, <1>5
<1>7. k \in Int
  BY NumsFacts
<1>8. ~Outdated(a, f)
  <2>1. Outdated(a, f) <=> f.id < k
    BY <1>3, <1>6, OutdatedIs
  <2> QED BY <1>2, <1>6, <1>7, <2>1
<1>9. Taken(a, f)
  BY <1>1, <1>4, <1>8 DEF Drops
<1>10. PICK g \in Held(a) : /\ g.id = f.id
                            /\ ~f.amsdu \/ SnOf(g) # a.lastAmsdu \/ a.lastSub >= f.sub
  BY <1>3, <1>6, <1>9, TakenIs
<1>11. f.sub = 1 /\ b.lastAmsdu = SnOf(g) /\ b.lastSub = 0
  <2>1. Fresh(s[1], g.id) /\ g \in Held(b)
    BY <1>1, <1>2, <1>5, <1>10 DEF Fresh
  <2> QED BY <1>1, <1>2, <2>1 DEF BufOk
<1>12. f.id \in Amsdu
  <2>1. <<f.id, 1>> \in Subframes
    BY <1>2, <1>11 DEF MsgOk
  <2>2. PICK id \in Ids : <<f.id, 1>> \in {<<id, sub>> : sub \in Subs(id)}
    BY <2>1 DEF Subframes
  <2>3. f.id = id /\ 1 \in Subs(id)
    BY <2>2
  <2> QED BY <2>3 DEF Subs
<1>13. f.amsdu = (f.id \in Amsdu)
  BY <1>2 DEF MsgOk
<1>14. f.amsdu
  BY <1>12, <1>13, Zenon
<1> QED BY <1>5, <1>10, <1>11, <1>14

-----------------------------------------------------------------------------
(* What the firmware gives the queues *)

(* The k-th of the subframes of an MPDU that go to a queue. *)
LEMMA PartsOrder ==
  ASSUME NEW P, P \subseteq {0, 1}
  PROVE  /\ Cardinality(P) \in 0..2 /\ (Cardinality(P) = 0 <=> P = {})
         /\ \A k \in 1..Cardinality(P) : Nth(P, k) \in P
         /\ \A k, l \in 1..Cardinality(P) : k < l =>
              l = k + 1 /\ Nth(P, k) = 0 /\ Nth(P, l) = 1
         /\ 1 \in P => Nth(P, Cardinality(P)) = 1
PROOF
<1>1. Cardinality({}) = 0 /\ IsFiniteSet({})
  BY FS_EmptySet
<1>2. \A x : Cardinality({x}) = 1 /\ IsFiniteSet({x})
  BY FS_Singleton
<1>3. Cardinality({0, 1}) = 2
  <2>1. {0, 1} = {1} \cup {0} /\ 0 \notin {1}
    OBVIOUS
  <2>2. Cardinality({1} \cup {0}) = Cardinality({1}) + 1
    BY <1>2, <2>1, FS_AddElement
  <2> QED BY <1>2, <2>1, <2>2
<1>4. P = {} \/ P = {0} \/ P = {1} \/ P = {0, 1}
  OBVIOUS
<1>5. CASE P = {}
  BY <1>1, <1>5
<1>6. ASSUME NEW x \in {0, 1}, P = {x} PROVE Cardinality(P) = 1 /\ Nth(P, 1) = x
  <2>1. {y \in {x} : y <= x} = {x}
    OBVIOUS
  <2>2. \A z \in P : z = x
    BY <1>6
  <2>3. \E z \in P : Cardinality({y \in P : y <= z}) = 1
    BY <1>2, <1>6, <2>1
  <2>4. Nth(P, 1) \in P
    BY <2>3 DEF Nth
  <2> QED BY <1>2, <1>6, <2>2, <2>4
<1>7. CASE P = {0, 1}
  <2>1. {y \in {0, 1} : y <= 0} = {0} /\ {y \in {0, 1} : y <= 1} = {0, 1}
    OBVIOUS
  <2>2. Cardinality({y \in P : y <= 0}) = 1 /\ Cardinality({y \in P : y <= 1}) = 2
    BY <1>2, <1>3, <1>7, <2>1
  <2>3. Nth(P, 1) = 0
    <3>1. \E z \in P : Cardinality({y \in P : y <= z}) = 1
      BY <1>7, <2>2
    <3>2. Nth(P, 1) \in P /\ Cardinality({y \in P : y <= Nth(P, 1)}) = 1
      BY <3>1 DEF Nth
    <3>3. Nth(P, 1) # 1
      BY <2>2, <3>2
    <3> QED BY <1>7, <3>2, <3>3
  <2>4. Nth(P, 2) = 1
    <3>1. \E z \in P : Cardinality({y \in P : y <= z}) = 2
      BY <1>7, <2>2
    <3>2. Nth(P, 2) \in P /\ Cardinality({y \in P : y <= Nth(P, 2)}) = 2
      BY <3>1 DEF Nth
    <3>3. Nth(P, 2) # 0
      BY <2>2, <3>2
    <3> QED BY <1>7, <3>2, <3>3
  <2>5. \A k \in 1..2 : k = 1 \/ k = 2
    OBVIOUS
  <2> QED BY <1>3, <1>7, <2>3, <2>4, <2>5
<1>8. ASSUME NEW x \in {0, 1}, P = {x}
      PROVE  /\ Cardinality(P) \in 0..2 /\ (Cardinality(P) = 0 <=> P = {})
             /\ \A k \in 1..Cardinality(P) : Nth(P, k) \in P
             /\ \A k, l \in 1..Cardinality(P) : k < l =>
                  l = k + 1 /\ Nth(P, k) = 0 /\ Nth(P, l) = 1
             /\ 1 \in P => Nth(P, Cardinality(P)) = 1
  <2>1. Cardinality(P) = 1 /\ Nth(P, 1) = x
    BY <1>6, <1>8
  <2>2. \A k \in 1..1 : k = 1
    OBVIOUS
  <2> QED BY <1>8, <2>1, <2>2
<1> QED BY <1>4, <1>5, <1>7, <1>8

LEMMA ConcatThree ==
  ASSUME NEW s, NEW t, NEW u, IsSeq(s), IsSeq(t), IsSeq(u)
  PROVE  s \o t \o u = s \o (t \o u)
PROOF
<1>1. PICK M : s \in Seq(M)
  BY DEF IsSeq
<1>2. PICK K : t \in Seq(K)
  BY DEF IsSeq
<1>3. PICK L : u \in Seq(L)
  BY DEF IsSeq
<1>4. PICK S : S = M \cup K \cup L
  OBVIOUS
<1>5. s \in Seq(S) /\ t \in Seq(S) /\ u \in Seq(S)
  BY <1>1, <1>2, <1>3, <1>4
<1> QED BY <1>5

(* The subframes that go to a queue. *)
Share(q) == {x \in Subframes : steer[x] = q}

(* When a frame of the air is delivered, and what every queue gets of it. *)
DeliverTold(id, v, retry, A) ==
  /\ FwOk(fwNssn, A, rcvd) /\ Deliver(id, v, FALSE, retry) /\ fwNssn <= id
  /\ fwNssn <= v /\ v <= fwNssn + BufSize /\ id < v + BufSize /\ v <= id + BufSize /\ v # id
  /\ IF retry THEN v = fwNssn /\ id \in rcvd ELSE id \notin rcvd

DeliverGets(id, v, retry, A, q) ==
  \E t : /\ IsSeq(rxq[q]) => rxq'[q] = rxq[q] \o t
         /\ Given(t, fwNssn, v, A, rcvd, rcvd \cup {id}, Share(q))
         /\ \A j \in 1..Len(t) : t[j].type = "frame" => t[j].retry = retry

LEMMA DeliverGiven ==
  ASSUME Short, NEW id \in Ids, NEW v \in Nums, NEW retry \in BOOLEAN, NEW A,
         DeliverTold(id, v, retry, A), NEW q \in Queues
  PROVE  DeliverGets(id, v, retry, A, q)
PROOF
<1> SUFFICES ASSUME FwOk(fwNssn, A, rcvd), Deliver(id, v, FALSE, retry), fwNssn <= id,
                    fwNssn <= v, v <= fwNssn + BufSize, id < v + BufSize, v <= id + BufSize,
                    v # id, IF retry THEN v = fwNssn /\ id \in rcvd ELSE id \notin rcvd
             PROVE  \E t : /\ IsSeq(rxq[q]) => rxq'[q] = rxq[q] \o t
                           /\ Given(t, fwNssn, v, A, rcvd, rcvd \cup {id}, Share(q))
                           /\ \A j \in 1..Len(t) : t[j].type = "frame" => t[j].retry = retry
  BY DEF DeliverTold, DeliverGets
<1> DEFINE frame(sub, gp2) ==
             [type |-> "frame", id |-> id, sub |-> sub,
              amsdu |-> id \in Amsdu, last |-> sub + 1 \notin Subs(id),
              nssn |-> v % SnMod, old |-> FALSE, gp2 |-> gp2, retry |-> retry]
           parts(p) == {sub \in Subs(id) : steer[<<id, sub>>] = p}
           frames(p, gp2) == [k \in 1..Cardinality(parts(p)) |->
                                frame(Nth(parts(p), k), gp2)]
<1>1. PICK gp2 \in Gp2s :
        LET whole == {p \in Queues : \E sub \in parts(p) : WholeMpdu(frame(sub, gp2))}
            split == {p \in Queues : parts(p) # {}}
            release == Releases(rcvd \union {id}, v, whole, split)
        IN  rxq' = [p \in Queues |-> rxq[p] \o frames(p, gp2) \o release[p]]
  BY DEF Deliver
<1> DEFINE fr(sub) == frame(sub, gp2)
           whole == {p \in Queues : \E sub \in parts(p) : WholeMpdu(fr(sub))}
           split == {p \in Queues : parts(p) # {}}
<1>2. PICK P : P = parts(q)
  OBVIOUS
<1>3. PICK n \in 0..2 : n = Cardinality(P)
  BY <1>2, PartsOrder DEF Subs
<1>4. PICK F : F = [k \in 1..n |-> fr(Nth(P, k))]
  OBVIOUS
<1>5. PICK rel : rel = [type |-> "release", nssn |-> v % SnMod]
  OBVIOUS
<1>6. PICK L : L = Releases(rcvd \union {id}, v, whole, split)[q]
  OBVIOUS
<1>7. rxq'[q] = rxq[q] \o F \o L
  BY <1>1, <1>2, <1>3, <1>4, <1>6
<1>8. \A sub \in P : sub \in Subs(id) /\ steer[<<id, sub>>] = q /\ <<id, sub>> \in Share(q)
  <2>1. \A sub \in P : sub \in Subs(id) /\ steer[<<id, sub>>] = q
    BY <1>2
  <2>2. \A sub \in Subs(id) : <<id, sub>> \in Subframes
    BY DEF Subframes
  <2> QED BY <2>1, <2>2 DEF Share
<1>9. /\ P = {} <=> n = 0
      /\ \A k \in 1..n : Nth(P, k) \in P
      /\ \A k, l \in 1..n : k < l => l = k + 1 /\ Nth(P, k) = 0 /\ Nth(P, l) = 1
      /\ 1 \in P => Nth(P, n) = 1
      /\ P \subseteq {0, 1}
  <2>1. P \subseteq {0, 1}
    BY <1>8 DEF Subs
  <2> QED BY <1>3, <2>1, PartsOrder
<1>10. L = <<>> \/ L = <<rel>>
  BY <1>5, <1>6 DEF Releases
<1>11. ASSUME L = <<>>, ~(\E sub \in P : WholeMpdu(fr(sub)))
       PROVE  /\ P = {}
              /\ v = fwNssn \/ \A x \in Share(q) : x[1] \in rcvd \cup {id} => ~(fwNssn <= x[1])
  <2>1. q \notin whole
    BY <1>2, <1>11
  <2>2. ~(/\ q \notin whole
          /\ \/ q \in split
             \/ /\ v # fwNssn
                /\ \E s \in Subframes : steer[s] = q /\ s[1] \in rcvd \cup {id} /\ fwNssn <= s[1])
    BY <1>6, <1>11 DEF Releases
  <2>3. q \notin split => P = {}
    BY <1>2
  <2> HIDE DEF whole, split
  <2> QED BY <2>1, <2>2, <2>3 DEF Share
<1>12. v \in Int /\ v % SnMod \in Sns /\ Unwrap(v % SnMod) = v /\ id \in Int /\ FwOk(fwNssn, A, rcvd)
  BY WindowIs, NumsFacts
<1>13. ASSUME NEW sub \in P
       PROVE  /\ MsgOk(fr(sub), v, A, rcvd \cup {id}, Share(q)) /\ Data(fr(sub))
              /\ Number(fr(sub)) = v /\ fr(sub).type = "frame" /\ fr(sub).id = id
              /\ fr(sub).retry = retry /\ fr(sub).sub = sub
              /\ 1 \in P => (sub = 1 => Tells(fr(sub))) /\ (sub = 0 => ~Tells(fr(sub)))
              /\ id \notin Amsdu => Tells(fr(sub))
  <2>1. PICK m : m = fr(sub)
    OBVIOUS
  <2>2. /\ m.type = "frame" /\ m.id = id /\ m.retry = retry /\ m.sub = sub /\ m.nssn = v % SnMod
        /\ m.amsdu = (id \in Amsdu) /\ m.last = (sub + 1 \notin Subs(id)) /\ m.old = FALSE
    BY <2>1
  <2>3. Number(m) = v /\ Data(m)
    BY <1>12, <2>2 DEF Number, Data
  <2>4. Coded(m, v)
    BY <1>12, <2>2 DEF Coded
  <2>5. MsgOk(m, v, A, rcvd \cup {id}, Share(q))
    <3>1. Number(m) <= (IF Data(m) THEN v ELSE v + A)
      BY <1>12, <2>3
    <3>2. <<m.id, m.sub>> \in Share(q) /\ m.id \in rcvd \cup {id} /\ m.amsdu = (m.id \in Amsdu)
      BY <1>8, <2>2
    <3> QED BY <2>2, <2>3, <2>4, <3>1, <3>2 DEF MsgOk
  <2>6. WholeMpdu(m) <=> (id \notin Amsdu \/ sub + 1 \notin Subs(id))
    BY <2>2, Zenon DEF WholeMpdu
  <2>7. ASSUME 1 \in P PROVE id \in Amsdu
    <3>1. 1 \in Subs(id)
      BY <1>8, <2>7
    <3> QED BY <3>1 DEF Subs
  <2>8. id \in Amsdu => Subs(id) = {0, 1}
    BY DEF Subs
  <2>9. 1 \in P => (sub = 1 => WholeMpdu(m)) /\ (sub = 0 => ~WholeMpdu(m))
    BY <2>6, <2>7, <2>8
  <2> QED BY <2>1, <2>2, <2>3, <2>5, <2>6, <2>9 DEF Tells
<1>14. (\E sub \in P : WholeMpdu(fr(sub))) => n # 0 /\ Tells(fr(Nth(P, n)))
  <2> SUFFICES ASSUME NEW sub \in P, WholeMpdu(fr(sub)) PROVE n # 0 /\ Tells(fr(Nth(P, n)))
    OBVIOUS
  <2>1. n # 0 /\ n \in 1..n
    BY <1>3, <1>9
  <2>2. CASE id \notin Amsdu
    BY <1>9, <1>13, <2>1, <2>2
  <2>3. CASE id \in Amsdu
    <3>1. Tells(fr(sub))
      BY DEF Tells
    <3>2. fr(sub).amsdu /\ fr(sub).last = (sub + 1 \notin Subs(id))
      BY <2>3
    <3>3. sub + 1 \notin Subs(id)
      BY <3>2 DEF WholeMpdu
    <3>4. sub = 1 /\ 1 \in P
      BY <1>9, <2>3, <3>3 DEF Subs
    <3> HIDE DEF fr
    <3> QED BY <1>9, <2>1, <3>1, <3>4
  <2> QED BY <2>2, <2>3
<1> HIDE DEF fr
<1>15. rel.type = "release" /\ Data(rel) /\ Number(rel) = v /\ Tells(rel)
       /\ MsgOk(rel, v, A, rcvd \cup {id}, Share(q))
  <2>1. rel.type = "release" /\ rel.nssn = v % SnMod
    BY <1>5
  <2>2. Data(rel) /\ Number(rel) = v /\ Tells(rel)
    BY <1>12, <2>1 DEF Data, Number, Tells
  <2>3. Number(rel) <= (IF Data(rel) THEN v ELSE v + A)
    BY <1>12, <2>2
  <2> QED BY <2>1, <2>2, <2>3 DEF MsgOk
<1>16. /\ IsSeq(F) /\ Len(F) = n /\ \A k \in 1..n : F[k] = fr(Nth(P, k)) /\ Nth(P, k) \in P
  <2>1. PICK S : S = {fr(Nth(P, k)) : k \in 1..n}
    OBVIOUS
  <2>2. F \in [1..n -> S] /\ n \in Nat
    BY <1>4, <2>1
  <2>3. F \in Seq(S) /\ Len(F) = n
    BY <2>2
  <2> QED BY <1>4, <1>9, <2>3 DEF IsSeq
<1>17. PICK t : t = F \o L
  OBVIOUS
<1>18. /\ IsSeq(L) /\ Len(L) \in 0..1 /\ (Len(L) = 0 <=> L = <<>>)
       /\ \A k \in 1..Len(L) : L[k] = rel
  <2>1. IsSeq(<<rel>>) /\ Len(<<rel>>) = 1 /\ <<rel>>[1] = rel /\ <<rel>> # <<>>
    BY AppendAt, EmptyFacts
  <2>2. \A k \in 1..1 : k = 1
    OBVIOUS
  <2> QED BY <1>10, <2>1, <2>2, EmptyFacts
<1>19. /\ IsSeq(t) /\ Len(t) = n + Len(L) /\ Len(L) \in Nat /\ n \in Nat
       /\ \A j \in 1..n : t[j] = F[j]
       /\ \A j \in 1..Len(L) : t[n + j] = L[j]
  BY <1>16, <1>17, <1>18, ConcatAt
<1>20. \A j \in 1..Len(t) : \/ j \in 1..n /\ t[j] = fr(Nth(P, j)) /\ Nth(P, j) \in P
                            \/ j = n + 1 /\ Len(L) = 1 /\ t[j] = rel
  <2> TAKE j \in 1..Len(t)
  <2>1. CASE j <= n
    BY <1>16, <1>19, <2>1
  <2>2. CASE n < j
    <3>1. j - n \in 1..Len(L) /\ j = n + (j - n) /\ Len(L) = 1 /\ j = n + 1
      BY <1>18, <1>19, <2>2
    <3> QED BY <1>18, <1>19, <3>1
  <2> QED BY <1>19, <2>1, <2>2
<1>21. \A j \in 1..Len(t) : /\ MsgOk(t[j], v, A, rcvd \cup {id}, Share(q)) /\ Data(t[j])
                            /\ Number(t[j]) = v
  BY <1>13, <1>15, <1>20
<1>22. \A j \in 1..Len(t) : t[j].type = "frame" =>
         /\ j \in 1..n /\ t[j] = fr(Nth(P, j)) /\ Nth(P, j) \in P
         /\ t[j].id = id /\ t[j].retry = retry /\ t[j].sub = Nth(P, j)
  BY <1>13, <1>15, <1>20
<1>23. \A j \in 1..Len(t) : t[j].type = "frame" =>
         /\ fwNssn <= t[j].id
         /\ IF t[j].retry THEN v = fwNssn /\ t[j].id \in rcvd ELSE t[j].id \notin rcvd
  BY <1>22
<1>24. \A i, j \in 1..Len(t) : i < j /\ t[j].type = "frame" =>
       j = i + 1 /\ t[i].type = "frame" /\ t[i].id = t[j].id /\ t[i].retry = t[j].retry
       /\ t[i].sub = 0 /\ t[j].sub = 1 /\ ~Tells(t[i])
  <2> TAKE i, j \in 1..Len(t)
  <2> HAVE i < j /\ t[j].type = "frame"
  <2>1. j \in 1..n /\ i \in 1..n /\ t[j] = fr(Nth(P, j)) /\ Nth(P, j) \in P
    BY <1>22
  <2>2. t[i] = fr(Nth(P, i)) /\ Nth(P, i) \in P
    BY <1>16, <1>19, <2>1
  <2>3. j = i + 1 /\ Nth(P, i) = 0 /\ Nth(P, j) = 1 /\ 1 \in P
    BY <1>9, <2>1
  <2> QED BY <1>13, <2>1, <2>2, <2>3
<1>25. t # <<>> => Tells(t[Len(t)])
  <2> SUFFICES ASSUME t # <<>> PROVE Tells(t[Len(t)])
    OBVIOUS
  <2>1. CASE L = <<rel>>
    <3>1. Len(L) = 1 /\ Len(t) = n + 1 /\ t[Len(t)] = rel
      BY <1>18, <1>19, <2>1, EmptyFacts
    <3> QED BY <1>15, <3>1
  <2>2. CASE L = <<>>
    <3>1. Len(t) = n /\ Len(t) >= 1
      BY <1>18, <1>19, <2>2, TailAt
    <3>2. \E sub \in P : WholeMpdu(fr(sub))
      BY <1>9, <1>11, <1>19, <2>2, <3>1
    <3>3. t[n] = fr(Nth(P, n))
      BY <1>16, <1>19, <3>1
    <3> QED BY <1>14, <3>1, <3>2, <3>3
  <2> QED BY <1>10, <2>1, <2>2
<1>26. t = <<>> => /\ v = fwNssn \/ \A x \in Share(q) : x[1] \in rcvd => x[1] < fwNssn
                   /\ P = {}
  <2> SUFFICES ASSUME t = <<>>
               PROVE  /\ v = fwNssn \/ \A x \in Share(q) : x[1] \in rcvd => x[1] < fwNssn
                      /\ P = {}
    OBVIOUS
  <2>1. n = 0 /\ L = <<>> /\ P = {}
    BY <1>9, <1>18, <1>19, EmptyFacts
  <2>2. ~(\E sub \in P : WholeMpdu(fr(sub)))
    BY <2>1
  <2>3. v = fwNssn \/ \A x \in Share(q) : x[1] \in rcvd \cup {id} => ~(fwNssn <= x[1])
    BY <1>11, <2>1, <2>2
  <2>4. \A x \in rcvd : x \in Int /\ fwNssn \in Int
    BY <1>12, Numbers, NumsFacts DEF FwOk
  <2>5. \A x \in Share(q) : x[1] \in rcvd => (~(fwNssn <= x[1]) => x[1] < fwNssn)
    BY <2>4
  <2> QED BY <2>1, <2>3, <2>5
<1>27. \A x \in Share(q) : x[1] \in rcvd \cup {id} => x[1] \in rcvd \/ t # <<>>
  <2> TAKE x \in Share(q)
  <2> HAVE x[1] \in rcvd \cup {id}
  <2>1. CASE x[1] = id
    <3>1. x \in Subframes /\ steer[x] = q
      BY DEF Share
    <3>2. PICK y \in Ids : x \in {<<y, sub>> : sub \in Subs(y)}
      BY <3>1 DEF Subframes
    <3>3. PICK sub \in Subs(y) : x = <<y, sub>>
      BY <3>2
    <3>4. sub \in P
      BY <1>2, <2>1, <3>1, <3>3
    <3> QED BY <1>26, <3>4
  <2> QED BY <2>1
<1>28. Given(t, fwNssn, v, A, rcvd, rcvd \cup {id}, Share(q))
  <2> HIDE DEF whole, split, frames, parts, frame
  <2> QED BY <1>19, <1>21, <1>23, <1>24, <1>25, <1>26, <1>27 DEF Given
<1>29. IsSeq(rxq[q]) => rxq'[q] = rxq[q] \o t
  <2> SUFFICES ASSUME IsSeq(rxq[q]) PROVE rxq'[q] = rxq[q] \o t
    OBVIOUS
  <2>1. IsSeq(F) /\ IsSeq(L)
    BY <1>16, <1>18
  <2>2. PICK r : r = rxq[q]
    OBVIOUS
  <2>3. r \o F \o L = r \o (F \o L)
    <3>1. IsSeq(r)
      BY <2>2
    <3> QED BY <2>1, <3>1, ConcatThree
  <2> QED BY <1>7, <1>17, <2>2, <2>3
<1> QED BY <1>22, <1>28, <1>29

LEMMA NextMissingIs ==
  ASSUME NEW R, R \subseteq Ids, NEW n \in Nat, n <= LastId + 1
  PROVE  LET m == NextMissing(R, n)
         IN  /\ m \in Int /\ n <= m /\ m <= LastId + 1 /\ m \notin R
             /\ \A x \in Int : n <= x /\ x \notin R => m <= x
PROOF
<1>1. LastId \in Nat /\ LastId + 1 \notin R
  BY Numbers
<1>2. PICK m : m = NextMissing(R, n)
  OBVIOUS
<1>3. m \in n..(LastId + 1)
  BY <1>1, <1>2, NextMissingRange
<1>4. \E x \in n..(LastId + 1) : x \notin R /\ \A k \in n..(x - 1) : k \in R
  <2> DEFINE S == {x \in n..(LastId + 1) : x \notin R}
  <2>1. S \subseteq Nat /\ LastId + 1 \in S
    BY <1>1
  <2>2. PICK x \in S : \A k \in S : x <= k
    BY <2>1, Least
  <2>3. \A k \in n..(x - 1) : k \in R
    <3> TAKE k \in n..(x - 1)
    <3>1. k \in n..(LastId + 1) /\ ~(x <= k)
      BY <1>1, <2>1
    <3> QED BY <2>2, <3>1
  <2> QED BY <2>1, <2>3
<1>5. m \notin R /\ \A k \in n..(m - 1) : k \in R
  BY <1>2, <1>4 DEF NextMissing
<1>6. \A x \in Int : n <= x /\ x \notin R => m <= x
  <2> TAKE x \in Int
  <2> HAVE n <= x /\ x \notin R
  <2>1. CASE x <= m - 1
    BY <1>3, <1>5, <2>1
  <2>2. CASE ~(x <= m - 1)
    BY <1>3, <2>2
  <2> QED BY <2>1, <2>2
<1> QED BY <1>1, <1>2, <1>3, <1>5, <1>6

LEMMA OneAtMost ==
  ASSUME NEW t, NEW m, t = <<>> \/ t = <<m>>
  PROVE  /\ IsSeq(t) /\ Len(t) \in 0..1 /\ (t # <<>> => Len(t) = 1)
         /\ \A j \in 1..Len(t) : t[j] = m
PROOF
<1>1. /\ IsSeq(<<m>>) /\ Len(<<m>>) = 1 /\ <<m>>[1] = m
      /\ IsSeq(<<>>) /\ Len(<<>>) = 0 /\ 1..0 = {} /\ 1..1 = {1}
  BY AppendAt, EmptyFacts
<1>2. IsSeq(t)
  BY <1>1
<1>3. Len(t) \in 0..1 /\ (t # <<>> => Len(t) = 1)
  BY <1>1
<1>4. \A j \in 1..Len(t) : t[j] = m
  BY <1>1
<1> QED BY <1>2, <1>3, <1>4

LEMMA BarGiven ==
  ASSUME Short, NEW q \in Queues, NEW v \in Nums, NEW A, FwOk(fwNssn, A, rcvd),
         fwNssn <= v, v <= fwNssn + BufSize, NEW p \in Queues, NEW t, NEW m,
         m = [type |-> "release", nssn |-> v % SnMod],
         t = IF p = q THEN <<m>> ELSE Releases(rcvd, v, {q}, {})[p]
  PROVE  Given(t, fwNssn, v, A, rcvd, rcvd, Share(p))
PROOF
<1>1. v \in Int /\ fwNssn \in Int /\ v % SnMod \in Sns /\ Unwrap(v % SnMod) = v
  BY WindowIs, NumsFacts DEF FwOk
<1>2. m.type = "release" /\ Data(m) /\ Number(m) = v /\ Tells(m)
      /\ MsgOk(m, v, A, rcvd, Share(p))
  <2>1. m.type = "release" /\ m.nssn = v % SnMod
    OBVIOUS
  <2>2. Data(m) /\ Number(m) = v /\ Tells(m)
    BY <1>1, <2>1 DEF Data, Number, Tells
  <2>3. Number(m) <= (IF Data(m) THEN v ELSE v + A)
    BY <1>1, <2>2
  <2> QED BY <2>1, <2>2, <2>3 DEF MsgOk
<1>3. t = <<>> \/ t = <<m>>
  BY DEF Releases
<1>4. t = <<>> => v = fwNssn \/ \A x \in Share(p) : x[1] \in rcvd => x[1] < fwNssn
  <2> SUFFICES ASSUME t = <<>>, v # fwNssn, NEW x \in Share(p), x[1] \in rcvd PROVE x[1] < fwNssn
    OBVIOUS
  <2>1. p # q /\ Releases(rcvd, v, {q}, {})[p] = <<>>
    BY EmptyFacts, AppendAt
  <2>2. ~(\E s \in Subframes : steer[s] = p /\ s[1] \in rcvd /\ fwNssn <= s[1])
    BY <2>1 DEF Releases
  <2>3. ~(fwNssn <= x[1])
    BY <2>2 DEF Share
  <2>4. x[1] \in Int
    <3>1. x[1] \in Ids
      BY DEF FwOk
    <3> QED BY <3>1, Numbers
  <2> QED BY <1>1, <2>3, <2>4
<1>5. /\ IsSeq(t) /\ Len(t) \in 0..1 /\ (t # <<>> => Len(t) = 1)
      /\ \A j \in 1..Len(t) : t[j] = m
  <2> HIDE DEF IsSeq
  <2>1. CASE t = <<>>
    <3>1. IsSeq(t) /\ Len(t) \in 0..1
      BY <2>1, OneAtMost
    <3>2. t # <<>> => Len(t) = 1
      BY <2>1
    <3>3. \A j \in 1..Len(t) : t[j] = m
      BY <2>1, OneAtMost
    <3> QED BY <3>1, <3>2, <3>3
  <2>2. CASE t = <<m>>
    <3>1. IsSeq(t) /\ Len(t) \in 0..1
      BY <2>2, OneAtMost
    <3>2. t # <<>> => Len(t) = 1
      BY <2>2, OneAtMost
    <3>3. \A j \in 1..Len(t) : t[j] = m
      BY <2>2, OneAtMost
    <3> QED BY <3>1, <3>2, <3>3
  <2> QED BY <1>3, <2>1, <2>2
<1>6. /\ \A j \in 1..Len(t) : /\ MsgOk(t[j], v, A, rcvd, Share(p)) /\ Data(t[j])
                              /\ Number(t[j]) = v /\ t[j].type # "frame"
      /\ t # <<>> => Tells(t[Len(t)])
  <2>1. t # <<>> => Len(t) \in 1..Len(t)
    BY <1>5
  <2> QED BY <1>2, <1>5, <2>1
<1> QED BY <1>4, <1>5, <1>6 DEF Given

-----------------------------------------------------------------------------
(* The invariant *)

(* How far a head can be ahead of the firmware's NSSN. *)
Ahead == IF timedOut THEN BufSize ELSE 0

(* While the session lasts, each queue has its window; before it starts,   *)
(* the firmware goes in order and no frame comes twice.                    *)
Windows ==
  /\ FwOk(fwNssn, Ahead, rcvd)
  /\ \A m \in Msgs(cmds) : m.type = "sync" /\ MsgOk(m, fwNssn, Ahead, rcvd, {})
  /\ pc \in {"idle", "starting"} /\ (pc = "starting" => ssn = FirstId % SnMod)
  /\ fwOn => mapped \/ pc = "starting"
  /\ ~fwOn => ~mapped /\ pc = "idle" /\ rcvd = {} /\ fwNssn = FirstId
  /\ mapped => pc = "idle"
  /\ mapped => \A q \in Queues : \E h \in Nums :
       /\ QueueOk(h, rxq[q], fwNssn, Ahead, rcvd, Share(q))
       /\ BufOk(h, rxq[q], fwNssn, Ahead, rcvd, Share(q), buf[q])
  /\ ~mapped =>
       /\ \A x \in rcvd : x < fwNssn
       /\ \A q \in Queues :
            /\ QueueOk(FirstId, rxq[q], fwNssn, Ahead, rcvd, Share(q))
            /\ \A j \in 1..Len(rxq[q]) : rxq[q][j].type = "frame" => ~rxq[q][j].retry
            /\ buf[q].timer = "off" /\ ~handler[q]

(* Heads go forward. *)
Forward ==
  (mapped /\ mapped') => \A q \in Queues : ~SnLess(buf'[q].head, buf[q].head)

WindowsInv == Undisturbed => Windows

(* The firmware's part of a step: it has received more frames, its NSSN    *)
(* has moved, and it has told the queues.                                  *)
Gives ==
  /\ UNCHANGED <<buf, handler, cmds, mapped, pc, ssn, fwOn, steer, timedOut>> /\ fwOn
  /\ FwOk(fwNssn', Ahead, rcvd') /\ (~mapped => \A x \in rcvd' : x < fwNssn')
  /\ \A q \in Queues : \E t :
       /\ rxq'[q] = rxq[q] \o t
       /\ Given(t, fwNssn, fwNssn', Ahead, rcvd, rcvd', Share(q))
       /\ ~mapped => \A j \in 1..Len(t) : t[j].type = "frame" => ~t[j].retry
       /\ \A j \in 1..Len(t) : t[j].type = "frame" /\ t[j].retry => budget'.retries > 0

LEMMA GivenWindows ==
  ASSUME TypedInv, Windows, Gives
  PROVE  Windows'
PROOF
<1>0. /\ UNCHANGED <<buf, handler, cmds, mapped, pc, ssn, fwOn, steer, timedOut>> /\ fwOn
      /\ FwOk(fwNssn', Ahead, rcvd') /\ (~mapped => \A x \in rcvd' : x < fwNssn')
      /\ \A q \in Queues : \E t :
           /\ rxq'[q] = rxq[q] \o t
           /\ Given(t, fwNssn, fwNssn', Ahead, rcvd, rcvd', Share(q))
           /\ ~mapped => \A j \in 1..Len(t) : t[j].type = "frame" => ~t[j].retry
  BY DEF Gives
<1>1. Ahead' = Ahead /\ \A q \in Queues : Share(q)' = Share(q)
  BY <1>0 DEF Ahead, Share
<1>2. PICK w, v, A, R, Q : w = fwNssn /\ v = fwNssn' /\ A = Ahead /\ R = rcvd /\ Q = rcvd'
  OBVIOUS
<1>3. FwOk(w, A, R) /\ FwOk(v, A, Q)
  BY <1>0, <1>2 DEF Windows
<1>4. \A q \in Queues : Share(q) \subseteq Subframes
  BY DEF Share
<1>5. ASSUME NEW q \in Queues, mapped
      PROVE  \E h \in Nums :
               /\ QueueOk(h, rxq'[q], fwNssn', Ahead, rcvd', Share(q))
               /\ BufOk(h, rxq'[q], fwNssn', Ahead, rcvd', Share(q), buf[q])
  <2>1. PICK t : rxq'[q] = rxq[q] \o t /\ Given(t, w, v, A, R, Q, Share(q))
    BY <1>0, <1>2
  <2>2. PICK h \in Nums : /\ QueueOk(h, rxq[q], w, A, R, Share(q))
                          /\ BufOk(h, rxq[q], w, A, R, Share(q), buf[q])
    BY <1>2, <1>5 DEF Windows
  <2>3. /\ QueueOk(h, rxq[q] \o t, v, A, Q, Share(q))
        /\ BufOk(h, rxq[q] \o t, v, A, Q, Share(q), buf[q])
    BY <1>3, <1>4, <2>1, <2>2, PushBuf
  <2> QED BY <1>2, <2>1, <2>3
<1>6. ASSUME NEW q \in Queues, ~mapped
      PROVE  /\ QueueOk(FirstId, rxq'[q], fwNssn', Ahead, rcvd', Share(q))
             /\ \A j \in 1..Len(rxq'[q]) : rxq'[q][j].type = "frame" => ~rxq'[q][j].retry
  <2>1. PICK t : /\ rxq'[q] = rxq[q] \o t /\ Given(t, w, v, A, R, Q, Share(q))
                 /\ \A j \in 1..Len(t) : t[j].type = "frame" => ~t[j].retry
    BY <1>0, <1>2, <1>6
  <2>2. /\ QueueOk(FirstId, rxq[q], w, A, R, Share(q)) /\ FirstId \in Int
        /\ \A j \in 1..Len(rxq[q]) : rxq[q][j].type = "frame" => ~rxq[q][j].retry
    BY <1>2, <1>6, Numbers DEF Windows
  <2>3. QueueOk(FirstId, rxq[q] \o t, v, A, Q, Share(q))
    BY <1>3, <1>4, <2>1, <2>2, PushQueue
  <2>4. PICK s : s = rxq[q]
    OBVIOUS
  <2>5. IsSeq(s) /\ IsSeq(t)
    BY <2>1, <2>2, <2>4 DEF QueueOk, Given
  <2>6. \A j \in 1..Len(s \o t) : (s \o t)[j].type = "frame" => ~(s \o t)[j].retry
    <3> TAKE j \in 1..Len(s \o t)
    <3>1. \/ j \in 1..Len(s) /\ (s \o t)[j] = s[j]
          \/ \E k \in 1..Len(t) : j = Len(s) + k /\ (s \o t)[j] = t[k]
      BY <2>5, PlaceAt
    <3> QED BY <2>1, <2>2, <2>4, <3>1
  <2> QED BY <1>2, <2>1, <2>3, <2>4, <2>6
<1>7. \A m \in Msgs(cmds) : m.type = "sync" /\ MsgOk(m, v, A, Q, {})
  <2>1. \A m \in Msgs(cmds) : m.type = "sync" /\ MsgOk(m, w, A, R, {})
    BY <1>2 DEF Windows
  <2>2. w \in Int /\ v \in Int /\ A \in Int
    BY <1>3, NumsFacts DEF FwOk
  <2>3. \A m \in Msgs(cmds) : MsgOk(m, v, A, Q, {})
    <3>1. PICK q : q \in Queues
      BY ReorderBufferAssumption
    <3>2. w <= v /\ R \subseteq Q
      BY <1>0, <1>2, <3>1 DEF Given
    <3> QED BY <2>1, <2>2, <3>2, MsgMore
  <2> QED BY <2>1, <2>3
<1>8. /\ \A m \in Msgs(cmds)' : m.type = "sync" /\ MsgOk(m, fwNssn', Ahead', rcvd', {})
      /\ pc' \in {"idle", "starting"} /\ (pc' = "starting" => ssn' = FirstId % SnMod)
      /\ fwOn' /\ (mapped' \/ pc' = "starting") /\ (mapped' => pc' = "idle")
  <2>1. Msgs(cmds)' = Msgs(cmds)
    BY <1>0 DEF Msgs
  <2> QED BY <1>0, <1>1, <1>2, <1>7, <2>1 DEF Windows
<1>9. ~mapped => \A q \in Queues : buf[q].timer = "off" /\ ~handler[q]
  BY DEF Windows
<1> QED BY <1>0, <1>1, <1>5, <1>6, <1>8, <1>9 DEF Windows

LEMMA FrameGives ==
  ASSUME Short, TypedInv, Windows, NEW id \in Ids, NEW v \in Nums, NEW retry \in BOOLEAN,
         Deliver(id, v, FALSE, retry),
         UNCHANGED <<buf, handler, cmds, mapped, pc, ssn, fwOn, steer, timedOut>>,
         fwOn, fwNssn <= id, fwNssn <= v, v <= fwNssn + BufSize,
         id < v + BufSize, v <= id + BufSize, v # id,
         IF retry THEN v = fwNssn /\ id \in rcvd ELSE id \notin rcvd,
         FwOk(v, Ahead, rcvd \cup {id}), ~mapped => id < v, retry => budget'.retries > 0
  PROVE  Gives
PROOF
<1>1. FwOk(fwNssn, Ahead, rcvd)
  BY DEF Windows
<1>2. fwNssn' = v /\ rcvd' = rcvd \cup {id}
  BY DEF Deliver
<1>3. FwOk(fwNssn', Ahead, rcvd')
  BY <1>2
<1>4. ~mapped => \A x \in rcvd' : x < fwNssn'
  <2> SUFFICES ASSUME ~mapped, NEW x \in rcvd' PROVE x < v
    BY <1>2
  <2>1. CASE x = id
    BY <2>1
  <2>2. CASE x \in rcvd
    <3>1. x < fwNssn /\ x \in Int /\ fwNssn \in Int /\ v \in Int
      BY <1>1, <2>2, Numbers, NumsFacts DEF Windows, FwOk
    <3> QED BY <3>1
  <2> QED BY <1>2, <2>1, <2>2
<1>5. ASSUME NEW q \in Queues
      PROVE  \E t : /\ rxq'[q] = rxq[q] \o t
                    /\ Given(t, fwNssn, fwNssn', Ahead, rcvd, rcvd', Share(q))
                    /\ ~mapped => \A j \in 1..Len(t) : t[j].type = "frame" => ~t[j].retry
                    /\ \A j \in 1..Len(t) :
                         t[j].type = "frame" /\ t[j].retry => budget'.retries > 0
  <2>0. PICK A : A = Ahead
    OBVIOUS
  <2>1. FwOk(fwNssn, A, rcvd)
    BY <1>1, <2>0
  <2>a. DeliverTold(id, v, retry, A)
    BY <2>1 DEF DeliverTold
  <2>b. DeliverGets(id, v, retry, A, q)
    BY <2>a, DeliverGiven
  <2>2. PICK t : /\ IsSeq(rxq[q]) => rxq'[q] = rxq[q] \o t
                 /\ Given(t, fwNssn, v, Ahead, rcvd, rcvd \cup {id}, Share(q))
                 /\ \A j \in 1..Len(t) : t[j].type = "frame" => t[j].retry = retry
    BY <2>0, <2>b DEF DeliverGets
  <2>3. IsSeq(rxq[q])
    BY DEF TypedInv
  <2>4. ~mapped => \A j \in 1..Len(t) : t[j].type = "frame" => ~t[j].retry
    <3> SUFFICES ASSUME ~mapped, NEW j \in 1..Len(t), t[j].type = "frame", t[j].retry
                 PROVE  FALSE
      OBVIOUS
    <3>1. fwNssn <= t[j].id /\ t[j].id \in rcvd
      BY <2>2 DEF Given
    <3>2. PICK x : x = t[j].id
      OBVIOUS
    <3>3. x < fwNssn
      BY <3>1, <3>2 DEF Windows
    <3>4. x \in Int /\ fwNssn \in Int
      <4>1. x \in Ids /\ fwNssn \in Nums
        BY <1>1, <3>1, <3>2 DEF FwOk
      <4> QED BY <4>1, Numbers, NumsFacts
    <3> QED BY <3>1, <3>2, <3>3, <3>4
  <2> QED BY <1>2, <2>2, <2>3, <2>4
<1> QED BY <1>3, <1>4, <1>5 DEF Gives

LEMMA AirGives ==
  ASSUME Short, TypedInv, Faults, Windows, NEW id \in Ids, Air(id) \/ AirBeyond(id) \/ AirAgain(id)
  PROVE  Gives
PROOF
<1>1. UNCHANGED <<buf, handler, cmds, mapped, pc, ssn, fwOn, steer, timedOut>> /\ fwOn
  BY DEF Air, AirBeyond, AirAgain, bufVars, syncVars, ctlVars, envVars, histVars
<1>2. FwOk(fwNssn, Ahead, rcvd) /\ id \in Nat /\ BufSize \in Nat /\ BufSize >= 1
  BY Numbers, NumsFacts DEF Windows
<1>3. PICK w, R, A : w = fwNssn /\ R = rcvd /\ A = Ahead
  OBVIOUS
<1>4. /\ w \in Nat /\ FirstId <= w /\ w <= LastId + 1 /\ R \subseteq Ids /\ w \notin R
      /\ \A x \in R : x \in Int /\ x < w + BufSize
  BY <1>2, <1>3, NumsFacts, Numbers DEF FwOk
<1>5. R \cup {id} \subseteq Ids /\ FirstId \in Int /\ LastId \in Int
  BY <1>4, Numbers
<1>6. ASSUME NEW v \in Int, w <= v, v <= w + BufSize, v <= LastId + 1, v \notin R \cup {id},
             \A x \in R \cup {id} : x < v + BufSize
      PROVE  v \in Nums /\ FwOk(v, A, R \cup {id})
  <2>1. v \in Nums
    BY <1>4, <1>5, <1>6 DEF Nums
  <2>2. A \in {0, BufSize}
    BY <1>2, <1>3 DEF FwOk
  <2> QED BY <1>5, <1>6, <2>1, <2>2 DEF FwOk
<1>7. CASE Air(id)
  <2>1. PICK v : v = NextMissing(R \cup {id}, w)
    OBVIOUS
  <2>2. /\ v \in Int /\ w <= v /\ v <= LastId + 1 /\ v \notin R \cup {id}
        /\ \A x \in Int : w <= x /\ x \notin R \cup {id} => v <= x
    BY <1>4, <1>5, <2>1, NextMissingIs
  <2>3. /\ id \notin R /\ w <= id /\ id < w + BufSize /\ (~mapped => id = w)
        /\ Deliver(id, v, FALSE, FALSE)
    BY <1>3, <1>7, <2>1 DEF Air
  <2>4. v <= w + BufSize
    <3>1. w + BufSize \in Int /\ w <= w + BufSize /\ w + BufSize \notin R \cup {id}
      BY <1>2, <1>4, <2>3
    <3> QED BY <2>2, <3>1
  <2>5. \A x \in R \cup {id} : x < v + BufSize
    BY <1>2, <1>4, <2>2, <2>3
  <2>6. v \in Nums /\ FwOk(v, A, R \cup {id})
    BY <1>6, <2>2, <2>4, <2>5
  <2>7. id < v + BufSize /\ v <= id + BufSize /\ v # id /\ (~mapped => id < v)
    BY <1>2, <1>4, <2>2, <2>3, <2>4
  <2>8. fwNssn <= id /\ fwNssn <= v /\ v <= fwNssn + BufSize /\ id \notin rcvd
        /\ FwOk(v, Ahead, rcvd \cup {id}) /\ FALSE \in BOOLEAN
    BY <1>3, <2>2, <2>3, <2>4, <2>6
  <2> QED BY <1>1, <2>3, <2>6, <2>7, <2>8, FrameGives
<1>8. CASE AirBeyond(id)
  <2>1. PICK v : v = NextMissing(R \cup {id}, w + 1)
    OBVIOUS
  <2>2. /\ id = w + BufSize /\ v <= w + MaxStep /\ Deliver(id, v, FALSE, FALSE) /\ mapped
    BY <1>3, <1>8, <2>1 DEF AirBeyond
  <2>3. w + 1 \in Nat /\ w + 1 <= LastId + 1
    BY <1>2, <1>4, <2>2, Numbers
  <2>4. /\ v \in Int /\ w + 1 <= v /\ v <= LastId + 1 /\ v \notin R \cup {id}
    BY <1>5, <2>1, <2>3, NextMissingIs
  <2>5. v <= w + BufSize /\ w <= v /\ MaxStep \in Int
    BY <1>2, <1>4, <2>2, <2>4, ReorderBufferAssumption DEF Short
  <2>6. \A x \in R \cup {id} : x < v + BufSize
    BY <1>2, <1>4, <2>2, <2>4
  <2>7. v \in Nums /\ FwOk(v, A, R \cup {id})
    BY <1>6, <2>4, <2>5, <2>6
  <2>8. id < v + BufSize /\ v <= id + BufSize /\ v # id /\ id \notin R /\ w <= id
    BY <1>2, <1>4, <2>2, <2>4, <2>5
  <2>9. fwNssn <= id /\ fwNssn <= v /\ v <= fwNssn + BufSize /\ id \notin rcvd
        /\ FwOk(v, Ahead, rcvd \cup {id}) /\ FALSE \in BOOLEAN
    BY <1>3, <2>5, <2>7, <2>8
  <2> QED BY <1>1, <2>2, <2>7, <2>8, <2>9, FrameGives
<1>9. CASE AirAgain(id)
  <2>1. id \in R /\ w <= id /\ Deliver(id, w, FALSE, TRUE) /\ mapped
    BY <1>3, <1>9 DEF AirAgain
  <2>2. id # w /\ id < w + BufSize /\ w <= id + BufSize /\ w <= w /\ w <= w + BufSize
    BY <1>2, <1>4, <2>1
  <2>3. w \in Nums /\ FwOk(w, A, R \cup {id})
    <3>1. R \cup {id} = R
      BY <2>1
    <3> QED BY <1>2, <1>3, <3>1 DEF FwOk
  <2>4. fwNssn <= id /\ fwNssn <= w /\ w <= fwNssn + BufSize /\ id \in rcvd /\ w = fwNssn
        /\ FwOk(w, Ahead, rcvd \cup {id}) /\ TRUE \in BOOLEAN
    BY <1>3, <2>1, <2>2, <2>3
  <2>5. budget'.retries > 0
    BY <1>9 DEF AirAgain, Faults
  <2> QED BY <1>1, <2>1, <2>2, <2>3, <2>4, <2>5, FrameGives
<1> QED BY <1>7, <1>8, <1>9

LEMMA BarGives ==
  ASSUME Short, TypedInv, Windows, NEW q \in Queues, Bar(q)
  PROVE  Gives
PROOF
<1>1. /\ UNCHANGED <<buf, handler, cmds, mapped, pc, ssn, fwOn, steer, timedOut, rcvd>> /\ fwOn
      /\ mapped /\ fwNssn < LastId
  BY DEF Bar, bufVars, syncVars, ctlVars, envVars, histVars
<1>2. FwOk(fwNssn, Ahead, rcvd) /\ BufSize \in Nat /\ BufSize >= 1 /\ LastId \in Nat
  BY Numbers, NumsFacts DEF Windows
<1>3. PICK w, R, A : w = fwNssn /\ R = rcvd /\ A = Ahead
  OBVIOUS
<1>4. /\ w \in Nat /\ FirstId <= w /\ w < LastId /\ R \subseteq Ids /\ w \notin R
      /\ \A x \in R : x \in Int /\ x < w + BufSize
  BY <1>1, <1>2, <1>3, NumsFacts, Numbers DEF FwOk
<1>5. PICK v : v = NextMissing(R, w + 1)
  OBVIOUS
<1>6. /\ v \in Int /\ w + 1 <= v /\ v <= LastId + 1 /\ v \notin R
      /\ \A x \in Int : w + 1 <= x /\ x \notin R => v <= x
  <2>1. w + 1 \in Nat /\ w + 1 <= LastId + 1
    BY <1>2, <1>4
  <2> QED BY <1>4, <1>5, <2>1, NextMissingIs
<1>7. v <= w + BufSize /\ w <= v
  <2>1. w + BufSize \in Int /\ w + 1 <= w + BufSize /\ w + BufSize \notin R
    BY <1>2, <1>4
  <2> QED BY <1>4, <1>6, <2>1
<1>8. v \in Nums
  BY <1>4, <1>6, Numbers DEF Nums
<1>9. FwOk(v, A, R)
  <2>1. \A x \in R : x < v + BufSize
    BY <1>2, <1>4, <1>6
  <2>2. A \in {0, BufSize}
    BY <1>2, <1>3 DEF FwOk
  <2> QED BY <1>4, <1>6, <1>8, <2>1, <2>2 DEF FwOk
<1>10. PICK m : m = [type |-> "release", nssn |-> v % SnMod]
  OBVIOUS
<1>11. PICK rel : rel = Releases(R, v, {q}, {})
  OBVIOUS
<1>12. /\ fwNssn' = v
       /\ rxq' = [p \in Queues |-> IF p = q THEN Append(rxq[p], m) ELSE rxq[p] \o rel[p]]
  BY <1>3, <1>5, <1>10, <1>11 DEF Bar
<1>13. ASSUME NEW p \in Queues
       PROVE  \E t : rxq'[p] = rxq[p] \o t
                     /\ Given(t, fwNssn, fwNssn', Ahead, rcvd, rcvd', Share(p))
                     /\ \A j \in 1..Len(t) : t[j].type # "frame"
  <2>1. PICK t : t = IF p = q THEN <<m>> ELSE rel[p]
    OBVIOUS
  <2>2. t = IF p = q THEN <<m>> ELSE Releases(rcvd, v, {q}, {})[p]
    BY <1>3, <1>11, <2>1
  <2>3. FwOk(fwNssn, A, rcvd) /\ fwNssn <= v /\ v <= fwNssn + BufSize
    BY <1>2, <1>3, <1>7
  <2>4. Given(t, fwNssn, v, A, rcvd, rcvd, Share(p))
    BY <1>8, <1>10, <2>2, <2>3, BarGiven
  <2>6. \A j \in 1..Len(t) : t[j].type # "frame"
    <3>1. t = <<>> \/ t = <<m>>
      BY <1>10, <2>2 DEF Releases
    <3>2. \A j \in 1..Len(t) : t[j] = m
      BY <3>1, OneAtMost
    <3> QED BY <1>10, <3>2
  <2>5. rxq'[p] = rxq[p] \o t
    <3>1. IsSeq(rxq[p])
      BY DEF TypedInv
    <3>2. Append(rxq[p], m) = rxq[p] \o <<m>>
      BY <3>1, AppendAt
    <3>3. rxq'[p] = IF p = q THEN Append(rxq[p], m) ELSE rxq[p] \o rel[p]
      BY <1>12
    <3> QED BY <2>1, <3>2, <3>3
  <2> QED BY <1>1, <1>3, <1>12, <2>4, <2>5, <2>6
<1>14. FwOk(fwNssn', Ahead, rcvd')
  BY <1>1, <1>3, <1>9, <1>12
<1> QED BY <1>1, <1>13, <1>14 DEF Gives

LEMMA FirmwareWindows ==
  ASSUME Short, TypedInv, Windows, Faults, Undisturbed, Undisturbed',
         \/ \E id \in Ids : Air(id) \/ AirBeyond(id) \/ AirAgain(id) \/ AirOld(id)
         \/ \E q \in Queues : Bar(q)
  PROVE  Gives /\ Windows' /\ up' = up
PROOF
<1>1. ASSUME NEW id \in Ids, AirOld(id) PROVE FALSE
  <2>1. budget'.olds = budget.olds + 1 /\ budget.olds \in Nat
    BY <1>1 DEF AirOld, Faults
  <2> QED BY <2>1 DEF Undisturbed
<1>2. Gives
  BY <1>1, AirGives, BarGives
<1>3. up' = up
  BY DEF Air, AirBeyond, AirAgain, AirOld, Bar, histVars
<1> QED BY <1>2, <1>3, GivenWindows

(* Without a buffer, the place of the head does not matter. *)
LEMMA AnyHead ==
  ASSUME NEW h, NEW g, NEW s, NEW w, NEW A, NEW R, NEW T, QueueOk(h, s, w, A, R, T)
  PROVE  QueueOk(g, s, w, A, R, T)
PROOF
<1>1. ASSUME NEW i \in Nat, i >= 1, NEW k, NEW x
      PROVE  Told(h, s, i, k, x) = Told(g, s, i, k, x)
  <2>1. \A l \in i..k : l # 0
    BY <1>1
  <2>2. \A l \in i..k : NumberAt(h, s, l) = NumberAt(g, s, l)
    BY <2>1 DEF NumberAt
  <2> QED BY <2>2 DEF Told
<1>2. ASSUME NEW i \in Nat, i >= 1, NEW x, NEW y, Leaves(h, s, i, x, y, w)
      PROVE  Leaves(g, s, i, x, y, w)
  BY <1>1, <1>2 DEF Leaves
<1>3. \A i \in 1..Len(s) : i \in Nat /\ i >= 1
  OBVIOUS
<1> QED BY <1>2, <1>3 DEF QueueOk

(* A sync message means the same to every queue. *)
LEMMA SyncAny ==
  ASSUME NEW m, NEW w, NEW A, NEW R, NEW T, NEW S, m.type = "sync", MsgOk(m, w, A, R, S)
  PROVE  MsgOk(m, w, A, R, T)
PROOF
<1>1. m.type # "frame"
  OBVIOUS
<1> QED BY <1>1 DEF MsgOk

LEMMA TriggerWindows ==
  ASSUME TypedInv, Windows, Trigger
  PROVE  Windows' /\ buf' = buf
PROOF
<1>1. PICK m : m = Head(cmds)
  OBVIOUS
<1>2. /\ UNCHANGED <<buf, handler, mapped, pc, ssn, fwOn, fwNssn, rcvd, steer, timedOut>>
      /\ cmds # <<>> /\ cmds' = Tail(cmds) /\ rxq' = [q \in Queues |-> Append(rxq[q], m)]
  BY <1>1 DEF Trigger, bufVars, ctlVars, fwVars, envVars, histVars
<1>3. Ahead' = Ahead /\ \A q \in Queues : Share(q)' = Share(q)
  BY <1>2 DEF Ahead, Share
<1>4. PICK w, A, R : w = fwNssn /\ A = Ahead /\ R = rcvd
  OBVIOUS
<1>5. FwOk(w, A, R) /\ FirstId \in Int
  BY <1>4, Numbers DEF Windows
<1>6. IsSeq(cmds) /\ Msgs(cmds') \subseteq Msgs(cmds) /\ m \in Msgs(cmds)
  BY <1>1, <1>2, MsgsTail DEF TypedInv
<1>7. m.type = "sync" /\ MsgOk(m, w, A, R, {})
  BY <1>4, <1>6 DEF Windows
<1>8. ASSUME NEW q \in Queues, mapped
      PROVE  \E h \in Nums :
               /\ QueueOk(h, rxq'[q], w, A, R, Share(q))
               /\ BufOk(h, rxq'[q], w, A, R, Share(q), buf[q])
  <2>1. PICK h \in Nums : /\ QueueOk(h, rxq[q], w, A, R, Share(q))
                          /\ BufOk(h, rxq[q], w, A, R, Share(q), buf[q])
    BY <1>4, <1>8 DEF Windows
  <2>2. MsgOk(m, w, A, R, Share(q)) /\ h \in Int
    BY <1>7, SyncAny, NumsFacts
  <2>3. PICK s, T, b : s = rxq[q] /\ T = Share(q) /\ b = buf[q]
    OBVIOUS
  <2>4. /\ QueueOk(h, Append(s, m), w, A, R, T)
        /\ BufOk(h, Append(s, m), w, A, R, T, b)
    BY <1>5, <1>7, <2>1, <2>2, <2>3, PushSync
  <2>5. rxq'[q] = Append(s, m)
    BY <1>2, <2>3
  <2> QED BY <2>3, <2>4, <2>5
<1>9. ASSUME NEW q \in Queues, ~mapped
      PROVE  /\ QueueOk(FirstId, rxq'[q], w, A, R, Share(q))
             /\ \A j \in 1..Len(rxq'[q]) : rxq'[q][j].type = "frame" => ~rxq'[q][j].retry
  <2>1. PICK s, T : s = rxq[q] /\ T = Share(q)
    OBVIOUS
  <2>2. /\ QueueOk(FirstId, s, w, A, R, T)
        /\ \A j \in 1..Len(s) : s[j].type = "frame" => ~s[j].retry
    BY <1>4, <1>9, <2>1 DEF Windows
  <2>3. MsgOk(m, w, A, R, T)
    BY <1>7, SyncAny
  <2>4. QueueOk(FirstId, Append(s, m), w, A, R, T)
    BY <1>5, <1>7, <2>2, <2>3, PushSync
  <2>5. PICK u : u = Append(s, m)
    OBVIOUS
  <2>6. \A j \in 1..Len(u) : (j \in 1..Len(s) /\ u[j] = s[j]) \/ u[j] = m
    <3>1. IsSeq(s)
      BY <2>2 DEF QueueOk
    <3> QED BY <2>5, <3>1, AppendAt
  <2>7. \A j \in 1..Len(u) : u[j].type = "frame" => ~u[j].retry
    BY <1>7, <2>2, <2>6
  <2>8. rxq'[q] = u
    BY <1>2, <2>1, <2>5
  <2> QED BY <2>1, <2>4, <2>5, <2>7, <2>8
<1>10. \A x \in Msgs(cmds)' : x.type = "sync" /\ MsgOk(x, w, A, R, {})
  <2>1. Msgs(cmds)' = Msgs(cmds')
    BY DEF Msgs
  <2> QED BY <1>4, <1>6, <2>1 DEF Windows
<1>11. /\ fwNssn' = w /\ Ahead' = A /\ rcvd' = R
       /\ \A q \in Queues : Share(q)' = Share(q)
  BY <1>2, <1>3, <1>4
<1>12. /\ pc \in {"idle", "starting"} /\ (pc = "starting" => ssn = FirstId % SnMod)
       /\ (fwOn => mapped \/ pc = "starting") /\ (mapped => pc = "idle")
       /\ (~fwOn => ~mapped /\ pc = "idle" /\ R = {} /\ w = FirstId)
       /\ ~mapped => /\ \A x \in R : x < w
                     /\ \A q \in Queues : buf[q].timer = "off" /\ ~handler[q]
  BY <1>4 DEF Windows
<1> QED BY <1>2, <1>5, <1>8, <1>9, <1>10, <1>11, <1>12 DEF Windows

-----------------------------------------------------------------------------
(* What a handler of queue q leaves behind. *)
LEMMA AppliedWindows ==
  ASSUME Short, TypedInv, BufInv, Windows, mapped, NEW q \in Queues, NEW r, Apply(q, r),
         UNCHANGED <<mapped, pc, ssn, fwOn, fwNssn, rcvd, steer>>,
         \A p \in Queues \ {q} : rxq'[p] = rxq[p],
         IsSeq(r.sync), NEW h \in Nums, NEW g \in Nums, h <= g, Windowed(buf[q], h),
         UpToNum(r.sync, g), NEW C, FwOk(fwNssn, C, rcvd), Ahead <= C, Ahead' = C,
         QueueOk(g, rxq'[q], fwNssn, C, rcvd, Share(q)),
         BufOk(g, rxq'[q], fwNssn, C, rcvd, Share(q), r.buf)
  PROVE  Windows' /\ \A p \in Queues : ~SnLess(buf'[p].head, buf[p].head)
PROOF
<1>1. \A p \in Queues : Share(p)' = Share(p)
  BY DEF Share
<1>2. PICK w, A, R : w = fwNssn /\ A = Ahead /\ R = rcvd
  OBVIOUS
<1>3. FwOk(w, A, R) /\ FwOk(w, C, R) /\ w \in Int /\ C \in Int
  BY <1>2, NumsFacts DEF Windows, FwOk
<1>4. /\ buf' = [p \in Queues |-> buf'[p]] /\ buf'[q] = r.buf
      /\ \A p \in Queues \ {q} : buf'[p] = buf[p]
  BY DEF Apply, BufInv
<1>5. ASSUME NEW p \in Queues
      PROVE  /\ \E k \in Nums : /\ QueueOk(k, rxq'[p], w, C, R, Share(p))
                                /\ BufOk(k, rxq'[p], w, C, R, Share(p), buf'[p])
             /\ ~SnLess(buf'[p].head, buf[p].head)
  <2>1. CASE p = q
    <3>1. \E k \in Nums : /\ QueueOk(k, rxq'[p], w, C, R, Share(p))
                          /\ BufOk(k, rxq'[p], w, C, R, Share(p), buf'[p])
      BY <1>2, <1>4, <2>1
    <3>2. buf'[q].head = g % SnMod /\ buf[q].head = h % SnMod
      BY <1>4 DEF BufOk, Windowed
    <3>3. g \in Int /\ h \in Int /\ g - h < Half /\ h - g < Half /\ ~(g < h)
      BY NumsFacts
    <3>4. ~SnLess(g % SnMod, h % SnMod)
      BY <3>3, LessOf
    <3> QED BY <2>1, <3>1, <3>2, <3>4
  <2>2. CASE p # q
    <3>1. PICK k \in Nums : /\ QueueOk(k, rxq[p], w, A, R, Share(p))
                            /\ BufOk(k, rxq[p], w, A, R, Share(p), buf[p])
      BY <1>2 DEF Windows
    <3>2. PICK s, b, T : s = rxq[p] /\ b = buf[p] /\ T = Share(p)
      OBVIOUS
    <3>3. Windowed(b, k) /\ ~b.removed /\ k <= k /\ k \in Int /\ A <= C
      BY <1>2, <3>1, <3>2, NumsFacts DEF BufOk
    <3>4. QueueOk(k, s, w, C, R, T) /\ BufOk(k, s, w, C, R, T, b)
      BY <1>3, <3>1, <3>2, <3>3, BufAhead
    <3>5. rxq'[p] = s /\ buf'[p] = b
      BY <1>4, <2>2, <3>2
    <3>6. b.head = k % SnMod /\ k - k < Half /\ ~(k < k)
      BY <3>3, NumsFacts, Sizes DEF Windowed
    <3>7. ~SnLess(k % SnMod, k % SnMod)
      BY <3>3, <3>6, LessOf
    <3> QED BY <3>2, <3>4, <3>5, <3>6, <3>7
  <2> QED BY <2>1, <2>2
<1>6. \A m \in Msgs(cmds)' : m.type = "sync" /\ MsgOk(m, w, C, R, {})
  <2>1. PICK n \in Nat : n = Len(r.sync)
    BY ListLength
  <2>2. PICK f : f = [k \in 1..n |-> [type |-> "sync", nssn |-> r.sync[k]]]
    OBVIOUS
  <2>3. g <= w + C /\ g \in Int
    BY <1>2, NumsFacts DEF BufOk
  <2>4. ASSUME NEW k \in 1..n PROVE f[k].type = "sync" /\ MsgOk(f[k], w, C, R, {})
    <3>1. PICK m : m = f[k]
      OBVIOUS
    <3>2. m.type = "sync" /\ m.nssn = r.sync[k] /\ r.sync[k] \in Msgs(r.sync)
      BY <2>1, <2>2, <2>4, <3>1 DEF Msgs
    <3>3. PICK y \in Nums : m.nssn = y % SnMod /\ y <= g
      BY <3>2 DEF UpToNum
    <3>4. Number(m) = y /\ y \in Int
      BY <3>3, WindowIs DEF Number
    <3>5. y <= w + C /\ ~Data(m)
      BY <1>3, <2>3, <3>2, <3>3, <3>4 DEF Data
    <3> QED BY <3>1, <3>2, <3>3, <3>4, <3>5 DEF MsgOk
  <2>5. f = [k \in 1..n |-> f[k]]
    BY <2>2
  <2>6. IsSeq(f) /\ Msgs(f) = {f[k] : k \in 1..n}
    BY <2>5, MsgsTuple
  <2>7. cmds' = cmds \o f
    BY <2>1, <2>2 DEF Apply
  <2>8. Msgs(cmds') = Msgs(cmds) \cup Msgs(f)
    BY <2>6, <2>7, MsgsConcat DEF TypedInv
  <2>9. \A m \in Msgs(cmds) : m.type = "sync" /\ MsgOk(m, w, C, R, {})
    <3> TAKE m \in Msgs(cmds)
    <3>1. m.type = "sync" /\ MsgOk(m, w, A, R, {})
      BY <1>2 DEF Windows
    <3>2. ~Data(m) /\ A \in Int /\ A <= C
      BY <1>2, <1>3, <3>1, NumsFacts DEF Data, FwOk
    <3>3. Number(m) \in Int /\ Number(m) <= w + A
      BY <3>1, <3>2, NumsFacts DEF MsgOk
    <3>4. Number(m) <= w + C
      BY <1>3, <3>2, <3>3
    <3> QED BY <3>1, <3>2, <3>4 DEF MsgOk
  <2>10. Msgs(cmds)' = Msgs(cmds')
    BY DEF Msgs
  <2>11. \A m \in Msgs(f) : m.type = "sync" /\ MsgOk(m, w, C, R, {})
    BY <2>4, <2>6, Zenon
  <2> QED BY <2>8, <2>9, <2>10, <2>11
<1>7. fwNssn' = w /\ Ahead' = C /\ rcvd' = R
  BY <1>2
<1>8. /\ pc \in {"idle", "starting"} /\ (pc = "starting" => ssn = FirstId % SnMod)
      /\ (fwOn => mapped \/ pc = "starting") /\ (mapped => pc = "idle")
      /\ (~fwOn => ~mapped /\ pc = "idle" /\ R = {} /\ w = FirstId)
  BY <1>2 DEF Windows
<1> QED BY <1>1, <1>3, <1>5, <1>6, <1>7, <1>8 DEF Windows

(* A handler has taken the first message and left r. *)
LEMMA TakenWindows ==
  ASSUME Short, TypedInv, BufInv, Windows, mapped, NEW q \in Queues, NEW r, Apply(q, r),
         UNCHANGED <<mapped, pc, ssn, fwOn, fwNssn, rcvd, steer, timedOut>>,
         rxq[q] # <<>>, rxq' = [rxq EXCEPT ![q] = Tail(@)], IsSeq(r.sync),
         NEW h \in Nums, QueueOk(h, rxq[q], fwNssn, Ahead, rcvd, Share(q)),
         BufOk(h, rxq[q], fwNssn, Ahead, rcvd, Share(q), buf[q]),
         NEW g \in Nums, Handled(rxq[q][1], Ahead, buf[q], h, r.buf, g), UpToNum(r.sync, g)
  PROVE  Windows' /\ \A p \in Queues : ~SnLess(buf'[p].head, buf[p].head)
PROOF
<1>1. PICK s, w, A, R, T, b, c : /\ s = rxq[q] /\ w = fwNssn /\ A = Ahead /\ R = rcvd
                                 /\ T = Share(q) /\ b = buf[q] /\ c = r.buf
  OBVIOUS
<1>2. /\ rxq'[q] = Tail(s) /\ \A p \in Queues \ {q} : rxq'[p] = rxq[p]
  BY <1>1, ReceiveData
<1>3. FwOk(w, A, R) /\ Ahead' = A /\ T \subseteq Subframes
  BY <1>1 DEF Windows, Ahead, Share
<1>4. /\ QueueOk(h, s, w, A, R, T) /\ BufOk(h, s, w, A, R, T, b) /\ s # <<>>
      /\ Handled(s[1], A, b, h, c, g)
  BY <1>1
<1>5. QueueOk(g, Tail(s), w, A, R, T) /\ BufOk(g, Tail(s), w, A, R, T, c)
  BY <1>3, <1>4, PopBuf
<1>6. h <= g /\ Windowed(buf[q], h)
  BY <1>1, <1>4 DEF Handled, BufOk
<1>7. FwOk(fwNssn, A, rcvd) /\ Ahead <= A
  <2>1. A \in Int
    BY <1>3, NumsFacts DEF FwOk
  <2> QED BY <1>1, <1>3, <2>1
<1>8. /\ QueueOk(g, rxq'[q], fwNssn, A, rcvd, Share(q))
      /\ BufOk(g, rxq'[q], fwNssn, A, rcvd, Share(q), r.buf)
  BY <1>1, <1>2, <1>5
<1> QED BY <1>2, <1>3, <1>6, <1>7, <1>8, AppliedWindows

LEMMA RxWindows ==
  ASSUME Short, DataInv, Windows, Undisturbed', mapped, NEW q \in Queues,
         RxFrame(q) \/ RxRelease(q) \/ RxNssnSync(q)
  PROVE  Windows' /\ \A p \in Queues : ~SnLess(buf'[p].head, buf[p].head)
PROOF
<1>1. TypedInv /\ BufInv
  BY DEF DataInv
<1>2. /\ UNCHANGED <<mapped, pc, ssn, fwOn, fwNssn, rcvd, steer, timedOut>>
      /\ rxq[q] # <<>> /\ rxq' = [rxq EXCEPT ![q] = Tail(@)]
  BY DEF RxFrame, RxRelease, RxNssnSync, Receive, ctlVars, fwVars, envVars
<1>3. PICK s, w, A, R, T, b : /\ s = rxq[q] /\ w = fwNssn /\ A = Ahead /\ R = rcvd
                              /\ T = Share(q) /\ b = buf[q]
  OBVIOUS
<1>4. FwOk(w, A, R)
  BY <1>3 DEF Windows
<1>5. PICK h \in Nums : QueueOk(h, s, w, A, R, T) /\ BufOk(h, s, w, A, R, T, b)
  BY <1>3 DEF Windows
<1>6. PICK m : m = s[1]
  OBVIOUS
<1>7. s # <<>> /\ Head(rxq[q]) = m /\ Head(s) = m
  <2>1. IsSeq(s)
    BY <1>5 DEF QueueOk
  <2> QED BY <1>2, <1>3, <1>6, <2>1, TailAt
<1>8. /\ MsgOk(m, w, A, R, T) /\ Number(m) \in Int /\ h \in Int
      /\ Held(b) = {} \/ Number(m) <= h + BufSize
      /\ Data(m) => h - BufSize <= Number(m)
      /\ m.type = "frame" /\ m.retry => Number(m) <= h
  <2>1. /\ MsgOk(s[1], w, A, R, T) /\ Number(s[1]) \in Int /\ h \in Int
        /\ Held(b) = {} \/ Number(s[1]) <= h + BufSize
        /\ Data(s[1]) => h - BufSize <= Number(s[1])
        /\ s[1].type = "frame" /\ s[1].retry => Number(s[1]) <= h
    BY <1>4, <1>5, <1>7, FirstMsg
  <2> QED BY <1>6, <2>1
<1>9. Windowed(b, h) /\ ~b.removed /\ Shape(b)
  BY <1>5 DEF BufOk, Windowed
<1>10. SUFFICES \E r : /\ Apply(q, r) /\ IsSeq(r.sync)
                       /\ \E g \in Nums : Handled(m, A, b, h, r.buf, g) /\ UpToNum(r.sync, g)
  <2>1. PICK r : /\ Apply(q, r) /\ IsSeq(r.sync)
                 /\ \E g \in Nums : Handled(m, A, b, h, r.buf, g) /\ UpToNum(r.sync, g)
    BY <1>10
  <2>2. PICK g \in Nums : Handled(m, A, b, h, r.buf, g) /\ UpToNum(r.sync, g)
    BY <2>1
  <2>3. Handled(rxq[q][1], Ahead, buf[q], h, r.buf, g)
    BY <1>3, <1>6, <2>2
  <2>4. /\ QueueOk(h, rxq[q], fwNssn, Ahead, rcvd, Share(q))
        /\ BufOk(h, rxq[q], fwNssn, Ahead, rcvd, Share(q), buf[q])
    BY <1>3, <1>5
  <2> QED BY <1>1, <1>2, <2>1, <2>2, <2>3, <2>4, TakenWindows
<1>11. ASSUME NEW flags, flags \in {{}, {"from"}}, m.type \in {"release", "sync"},
              m.type = "sync" => flags = {"from"},
              Apply(q, ReleaseFrames(b, m.nssn, flags))
       PROVE  \E r : /\ Apply(q, r) /\ IsSeq(r.sync)
                     /\ \E g \in Nums : Handled(m, A, b, h, r.buf, g) /\ UpToNum(r.sync, g)
  <2>1. PICK n : n = Number(m)
    OBVIOUS
  <2>2. n \in Nums /\ m.nssn = n % SnMod /\ m.nssn \in Sns /\ n \in Int
    BY <1>8, <2>1, NumsFacts DEF MsgOk
  <2>3. PICK r : r = ReleaseFrames(b, n % SnMod, flags)
    OBVIOUS
  <2>4. PICK k : k = IF n <= h THEN h ELSE n
    OBVIOUS
  <2>5. ("from" \in flags \/ h - BufSize <= n) /\ (Held(b) = {} \/ n <= h + BufSize)
    <3>1. m.type = "release" => Data(m)
      BY DEF Data
    <3> QED BY <1>8, <1>11, <2>1, <3>1
  <2>6. /\ Windowed(r.buf, k) /\ Held(r.buf) \subseteq Held(b)
        /\ \A x \in Msgs(r.sync) : \E y \in Nums : x = y % SnMod /\ h < y /\ y <= k
    BY <1>9, <2>2, <2>3, <2>4, <2>5, ReleaseWindow
  <2>7. Good(b, r)
    BY <1>9, <2>2, <2>3, ReleaseGood
  <2>8. IsSeq(r.sync) /\ ~r.buf.removed
    BY <1>9, <2>7 DEF Good, Becomes
  <2>9. UpToNum(r.sync, k)
    BY <2>6 DEF UpToNum
  <2>10. m.type # "frame"
    BY <1>11
  <2>11. Tells(m) /\ Cap(m) = n
    BY <2>1, <2>10 DEF Tells, Cap
  <2>12. h <= k /\ n <= k /\ (k = h \/ k = n) /\ k <= k /\ k \in Nums
    BY <1>8, <2>2, <2>4
  <2>13. Handled(m, A, b, h, r.buf, k)
    <3>1. k = h \/ (Data(m) /\ k <= Cap(m)) \/ (~Data(m) /\ k <= Number(m))
      BY <2>1, <2>11, <2>12
    <3> QED BY <2>1, <2>6, <2>8, <2>12, <3>1 DEF Handled
  <2>14. Apply(q, r)
    BY <1>11, <2>2, <2>3
  <2> QED BY <2>8, <2>9, <2>12, <2>13, <2>14
<1>12. CASE RxRelease(q)
  <2>1. m.type = "release" /\ Apply(q, ReleaseFrames(b, m.nssn, {}))
    BY <1>3, <1>7, <1>12 DEF RxRelease, Receive
  <2>2. {} \in {{}, {"from"}} /\ m.type \in {"release", "sync"} /\ m.type # "sync"
    BY <2>1
  <2> QED BY <1>11, <2>1, <2>2
<1>13. CASE RxNssnSync(q)
  <2>1. m.type = "sync" /\ Apply(q, ReleaseFrames(b, m.nssn, {"from"}))
    BY <1>3, <1>7, <1>13 DEF RxNssnSync, Receive
  <2>2. {"from"} \in {{}, {"from"}} /\ m.type \in {"release", "sync"}
    BY <2>1
  <2> QED BY <1>11, <2>1, <2>2
<1>14. CASE RxFrame(q)
  <2>1. m.type = "frame"
    BY <1>7, <1>14 DEF RxFrame, Receive
  <2>2. CASE IsDup(dup[q], m)
    <3>1. m.retry
      BY <2>2 DEF IsDup
    <3>2. PICK r : r = Quiet(q)
      OBVIOUS
    <3>3. r.buf = b /\ r.sync = <<>> /\ Apply(q, r)
      BY <1>3, <1>7, <1>14, <2>2, <3>2 DEF RxFrame, Quiet
    <3>4. IsSeq(r.sync) /\ UpToNum(r.sync, h)
      BY <3>3, EmptyFacts, MsgsEmpty DEF UpToNum
    <3>5. h <= h /\ Number(m) <= h
      BY <1>8, <2>1, <3>1
    <3>6. Handled(m, A, b, h, r.buf, h)
      BY <1>9, <3>3, <3>5 DEF Handled
    <3> QED BY <3>3, <3>4, <3>6
  <2>3. CASE ~IsDup(dup[q], m)
    <3>1. Apply(q, Reorder(b, m))
      BY <1>3, <1>7, <1>14, <2>3 DEF RxFrame
    <3>2. Drops(b, m) => m.retry
      <4>1. SUFFICES ASSUME Drops(b, m), ~m.retry PROVE FALSE
        OBVIOUS
      <4>2. lost' = lost \cup {Key(m)}
        BY <1>3, <1>7, <1>14, <4>1 DEF RxFrame
      <4>3. lost' = {}
        BY DEF Undisturbed
      <4> QED BY <4>2, <4>3
    <3>3. s[1].type = "frame" /\ (Drops(b, s[1]) => s[1].retry)
      BY <1>6, <2>1, <3>2
    <3>4. PICK r : r = Reorder(b, s[1])
      OBVIOUS
    <3>5. /\ IsSeq(r.sync)
          /\ \E g \in Nums : Handled(s[1], A, b, h, r.buf, g) /\ UpToNum(r.sync, g)
      BY <1>4, <1>5, <1>7, <3>3, <3>4, ReorderHandled
    <3> QED BY <1>6, <3>1, <3>4, <3>5
  <2> QED BY <2>2, <2>3
<1> QED BY <1>12, <1>13, <1>14

(* Before the session is mapped the frames pass by the buffers. *)
LEMMA EarlyWindows ==
  ASSUME TypedInv, BufInv, Windows, ~mapped, NEW q \in Queues,
         RxFrame(q) \/ RxRelease(q) \/ RxNssnSync(q)
  PROVE  Windows' /\ buf' = buf
PROOF
<1>1. /\ UNCHANGED <<handler, mapped, pc, ssn, fwOn, fwNssn, rcvd, steer, timedOut>>
      /\ rxq[q] # <<>> /\ rxq' = [rxq EXCEPT ![q] = Tail(@)]
  BY DEF RxFrame, RxRelease, RxNssnSync, Receive, ctlVars, fwVars, envVars
<1>2. Apply(q, Quiet(q))
  BY DEF RxFrame, RxRelease, RxNssnSync
<1>3. buf' = buf
  <2>1. Quiet(q).buf = buf[q] /\ buf = [p \in Queues |-> buf[p]]
    BY DEF Quiet, BufInv
  <2> QED BY <1>2, <2>1 DEF Apply
<1>4. cmds' = cmds
  <2>1. PICK f : f = [k \in 1..0 |-> [type |-> "sync", nssn |-> <<>>[k]]]
    OBVIOUS
  <2>2. cmds' = cmds \o [k \in 1..Len(<<>>) |-> [type |-> "sync", nssn |-> <<>>[k]]]
    BY <1>2 DEF Apply, Quiet
  <2>3. Len(<<>>) = 0
    BY EmptyFacts
  <2>4. [k \in 1..Len(<<>>) |-> [type |-> "sync", nssn |-> <<>>[k]]] = <<>>
    BY <2>3
  <2>5. PICK M : cmds \in Seq(M)
    BY DEF TypedInv, IsSeq
  <2>6. cmds \o <<>> = cmds
    BY <2>5
  <2> QED BY <2>2, <2>4, <2>6
<1>5. Ahead' = Ahead /\ \A p \in Queues : Share(p)' = Share(p)
  BY <1>1 DEF Ahead, Share
<1>6. PICK w, A, R : w = fwNssn /\ A = Ahead /\ R = rcvd
  OBVIOUS
<1>7. FwOk(w, A, R) /\ w \in Int /\ FirstId \in Int
  BY <1>6, Numbers, NumsFacts DEF Windows, FwOk
<1>8. ASSUME NEW p \in Queues
      PROVE  /\ QueueOk(FirstId, rxq'[p], w, A, R, Share(p))
             /\ \A j \in 1..Len(rxq'[p]) : rxq'[p][j].type = "frame" => ~rxq'[p][j].retry
  <2>1. PICK s, T : s = rxq[p] /\ T = Share(p)
    OBVIOUS
  <2>2. /\ QueueOk(FirstId, s, w, A, R, T)
        /\ \A j \in 1..Len(s) : s[j].type = "frame" => ~s[j].retry
    BY <1>6, <2>1 DEF Windows
  <2>3. CASE p # q
    <3>1. rxq'[p] = s
      BY <1>1, <2>1, <2>3, ReceiveData
    <3> QED BY <2>1, <2>2, <3>1
  <2>4. CASE p = q
    <3>1. s # <<>> /\ rxq'[p] = Tail(s) /\ IsSeq(s)
      BY <1>1, <2>1, <2>2, <2>4, ReceiveData DEF QueueOk
    <3>2. PICK g : g = LastId + 1
      OBVIOUS
    <3>3. 1 \in 1..Len(s) /\ Len(s) \in Nat
      BY <3>1, TailAt
    <3>4. Number(s[1]) \in Nums
      BY <2>2, <3>3 DEF QueueOk, MsgOk
    <3>5. g \in Int /\ FirstId <= g /\ Number(s[1]) <= g
      <4>1. PICK n : n = Number(s[1])
        OBVIOUS
      <4>2. n \in Int /\ n <= LastId + 1
        BY <3>4, <4>1, NumsFacts
      <4>3. g \in Int /\ FirstId <= g
        BY <3>2, Numbers
      <4> QED BY <3>2, <4>1, <4>2, <4>3
    <3>6. QueueOk(g, Tail(s), w, A, R, T)
      BY <1>7, <2>2, <3>1, <3>5, PopQueue
    <3>7. QueueOk(FirstId, Tail(s), w, A, R, T)
      BY <3>6, AnyHead
    <3>8. PICK t : t = Tail(s)
      OBVIOUS
    <3>9. /\ Len(t) = Len(s) - 1 /\ \A j \in 1..(Len(s) - 1) : t[j] = s[j + 1]
      BY <3>1, <3>8, TailAt
    <3>10. \A j \in 1..Len(t) : t[j] = s[j + 1] /\ j + 1 \in 1..Len(s)
      BY <3>3, <3>9
    <3>11. \A j \in 1..Len(t) : t[j].type = "frame" => ~t[j].retry
      BY <2>2, <3>10
    <3> QED BY <2>1, <3>1, <3>7, <3>8, <3>11
  <2> QED BY <2>3, <2>4
<1>9. \A x \in Msgs(cmds)' : x.type = "sync" /\ MsgOk(x, w, A, R, {})
  <2>1. Msgs(cmds)' = Msgs(cmds)
    BY <1>4 DEF Msgs
  <2> QED BY <1>6, <2>1 DEF Windows
<1>10. /\ fwNssn' = w /\ Ahead' = A /\ rcvd' = R
       /\ \A p \in Queues : Share(p)' = Share(p)
  BY <1>1, <1>5, <1>6
<1>11. /\ pc \in {"idle", "starting"} /\ (pc = "starting" => ssn = FirstId % SnMod)
       /\ (fwOn => mapped \/ pc = "starting") /\ (mapped => pc = "idle")
       /\ (~fwOn => ~mapped /\ pc = "idle" /\ R = {} /\ w = FirstId)
       /\ \A x \in R : x < w
       /\ \A p \in Queues : buf[p].timer = "off" /\ ~handler[p]
  BY <1>6 DEF Windows
<1> QED BY <1>1, <1>3, <1>7, <1>8, <1>9, <1>10, <1>11 DEF Windows

(* Only the timer of a buffer changes, and what it looks at. *)
LEMMA TimersWindows ==
  ASSUME DataInv, Windows, TimePasses \/ \E q \in Queues : TimerFires(q)
  PROVE  Windows' /\ \A q \in Queues : buf'[q].head = buf[q].head
PROOF
<1>1. /\ UNCHANGED <<rxq, cmds, mapped, pc, ssn, fwOn, fwNssn, rcvd, steer, timedOut>>
  BY DEF TimePasses, TimerFires, syncVars, ctlVars, fwVars, envVars, histVars
<1>2. /\ buf = [p \in Queues |-> buf[p]] /\ handler = [p \in Queues |-> handler[p]]
      /\ \A p \in Queues : Shape(buf[p])
  BY DEF DataInv, BufInv
<1>3. ASSUME NEW p \in Queues
      PROVE  LET b == buf[p]
                 c == buf'[p]
             IN  /\ c = [x \in Fields |-> c[x]] /\ c.head = b.head /\ c.num = b.num
                 /\ c.entries = b.entries /\ c.removed = b.removed
                 /\ c.lastAmsdu = b.lastAmsdu /\ c.lastSub = b.lastSub
  <2>1. PICK b, c : b = buf[p] /\ c = buf'[p]
    OBVIOUS
  <2>2. Shape(b)
    BY <1>2, <2>1
  <2>3. CASE TimePasses
    <3>1. PICK a, t : /\ a = [i \in Indices |-> b.entries[i] # <<>>]
                      /\ t = IF b.timer = "on" THEN "due" ELSE b.timer
      OBVIOUS
    <3>2. c = [b EXCEPT !.aged = a, !.timer = t]
      BY <2>1, <2>3, <3>1 DEF TimePasses
    <3>3. /\ c = [x \in Fields |-> c[x]] /\ c.head = b.head /\ c.num = b.num
          /\ c.entries = b.entries /\ c.removed = b.removed
          /\ c.lastAmsdu = b.lastAmsdu /\ c.lastSub = b.lastSub
      BY <2>2, <3>2 DEF Shape, Fields
    <3> QED BY <2>1, <3>3
  <2>4. CASE \E q \in Queues : TimerFires(q)
    <3>1. PICK q \in Queues : TimerFires(q)
      BY <2>4
    <3>2. buf' = [buf EXCEPT ![q].timer = "off"]
      BY <3>1 DEF TimerFires
    <3>3. c = b \/ c = [b EXCEPT !.timer = "off"]
      BY <1>2, <2>1, <3>2
    <3> QED BY <2>1, <2>2, <3>3 DEF Shape, Fields
  <2> QED BY <2>3, <2>4
<1>4. mapped
  <2>1. \E q \in Queues : buf[q].timer # "off"
    BY DEF TimePasses, TimerFires
  <2> QED BY <2>1 DEF Windows
<1>5. Ahead' = Ahead /\ \A q \in Queues : Share(q)' = Share(q)
  BY <1>1 DEF Ahead, Share
<1>6. PICK w, A, R : w = fwNssn /\ A = Ahead /\ R = rcvd
  OBVIOUS
<1>7. FwOk(w, A, R) /\ A \in Int /\ A <= A
  BY <1>6, NumsFacts DEF Windows, FwOk
<1>8. ASSUME NEW q \in Queues
      PROVE  \E h \in Nums :
               /\ QueueOk(h, rxq'[q], w, A, R, Share(q))
               /\ BufOk(h, rxq'[q], w, A, R, Share(q), buf'[q])
  <2>1. PICK s, T, b, c : s = rxq[q] /\ T = Share(q) /\ b = buf[q] /\ c = buf'[q]
    OBVIOUS
  <2>2. PICK h \in Nums : QueueOk(h, s, w, A, R, T) /\ BufOk(h, s, w, A, R, T, b)
    BY <1>4, <1>6, <2>1 DEF Windows
  <2>3. /\ c = [x \in Fields |-> c[x]] /\ c.head = b.head /\ c.num = b.num
        /\ c.entries = b.entries /\ c.removed = b.removed
        /\ c.lastAmsdu = b.lastAmsdu /\ c.lastSub = b.lastSub
    BY <1>3, <2>1
  <2>4. Windowed(b, h) /\ ~b.removed
    BY <2>2 DEF BufOk
  <2>5. Windowed(c, h) /\ Held(c) = Held(b) /\ ~c.removed
    BY <2>3, <2>4, WindowedSame
  <2>6. h <= h /\ Held(c) \subseteq Held(b)
    BY <2>5, NumsFacts
  <2>7. QueueOk(h, s, w, A, R, T) /\ BufOk(h, s, w, A, R, T, c)
    BY <1>7, <2>2, <2>3, <2>5, <2>6, BufAhead
  <2>8. rxq'[q] = s
    BY <1>1, <2>1
  <2> QED BY <2>1, <2>7, <2>8
<1>9. /\ Msgs(cmds)' = Msgs(cmds) /\ fwNssn' = w /\ Ahead' = A /\ rcvd' = R
      /\ \A q \in Queues : Share(q)' = Share(q)
  BY <1>1, <1>5, <1>6 DEF Msgs
<1>10. /\ pc \in {"idle", "starting"} /\ (pc = "starting" => ssn = FirstId % SnMod)
       /\ (fwOn => mapped \/ pc = "starting") /\ (mapped => pc = "idle")
       /\ (~fwOn => ~mapped /\ pc = "idle" /\ R = {} /\ w = FirstId)
       /\ \A m \in Msgs(cmds) : m.type = "sync" /\ MsgOk(m, w, A, R, {})
  BY <1>6 DEF Windows
<1>11. Windows'
  BY <1>1, <1>4, <1>7, <1>8, <1>9, <1>10 DEF Windows
<1> QED BY <1>3, <1>11

LEMMA TimerWindows ==
  ASSUME Short, DataInv, Windows, NEW q \in Queues, TimerHandler(q)
  PROVE  Windows' /\ \A p \in Queues : ~SnLess(buf'[p].head, buf[p].head)
PROOF
<1>1. TypedInv /\ BufInv /\ handler[q]
  BY DEF DataInv, TimerHandler
<1>2. mapped
  BY <1>1 DEF Windows
<1>3. UNCHANGED <<rxq, mapped, pc, ssn, fwOn, fwNssn, rcvd, steer>>
  BY DEF TimerHandler, ctlVars, fwVars, envVars
<1>4. PICK s, w, A, R, T, b : /\ s = rxq[q] /\ w = fwNssn /\ A = Ahead /\ R = rcvd
                              /\ T = Share(q) /\ b = buf[q]
  OBVIOUS
<1>5. FwOk(w, A, R)
  BY <1>4 DEF Windows
<1>6. PICK h \in Nums : QueueOk(h, s, w, A, R, T) /\ BufOk(h, s, w, A, R, T, b)
  BY <1>2, <1>4 DEF Windows
<1>7. Windowed(b, h) /\ ~b.removed /\ Shape(b)
  BY <1>6 DEF BufOk, Windowed
<1>8. PICK r : r = TimerExpired(b)
  OBVIOUS
<1>9. Apply(q, r) /\ timedOut' = (timedOut \/ r.buf.head # b.head)
  BY <1>4, <1>8 DEF TimerHandler
<1>10. /\ r.buf.lastAmsdu = b.lastAmsdu /\ r.buf.lastSub = b.lastSub
       /\ Held(r.buf) \subseteq Held(b)
       /\ \E k \in Nums :
            /\ Windowed(r.buf, k) /\ h <= k
            /\ k = h \/ \E g \in Held(b) : k = g.id + 1
            /\ \A x \in Msgs(r.sync) : \E y \in Nums : x = y % SnMod /\ y <= k
  BY <1>7, <1>8, TimerWindow
<1>11. PICK g \in Nums : /\ Windowed(r.buf, g) /\ h <= g
                         /\ g = h \/ \E f \in Held(b) : g = f.id + 1
                         /\ \A x \in Msgs(r.sync) : \E y \in Nums : x = y % SnMod /\ y <= g
  BY <1>10
<1>12. Good(b, r)
  BY <1>7, <1>8, TimerGood
<1>13. IsSeq(r.sync) /\ ~r.buf.removed /\ UpToNum(r.sync, g)
  BY <1>7, <1>11, <1>12 DEF Good, Becomes, UpToNum
<1>14. PICK C : C = IF timedOut' THEN BufSize ELSE 0
  OBVIOUS
<1>15. C = BufSize \/ (C = 0 /\ ~timedOut /\ r.buf.head = b.head)
  BY <1>9, <1>14
<1>16. A = IF timedOut THEN BufSize ELSE 0
  BY <1>4 DEF Ahead
<1>17. A <= C /\ C \in {0, BufSize} /\ BufSize \in Nat
  BY <1>15, <1>16, NumsFacts
<1>18. FwOk(w, C, R)
  BY <1>5, <1>17 DEF FwOk
<1>19. g = h \/ (C = BufSize /\ \E f \in Held(b) : g = f.id + 1)
  <2>1. SUFFICES ASSUME r.buf.head = b.head PROVE g = h
    BY <1>11, <1>15
  <2>2. g % SnMod = h % SnMod
    BY <1>7, <1>11, <2>1 DEF Windowed
  <2> QED BY <2>2, WindowIs
<1>20. PICK c : c = r.buf
  OBVIOUS
<1>21. /\ Windowed(c, g) /\ ~c.removed /\ Held(c) \subseteq Held(b)
       /\ c.lastAmsdu = b.lastAmsdu /\ c.lastSub = b.lastSub
  BY <1>10, <1>11, <1>13, <1>20
<1>22. QueueOk(g, s, w, C, R, T) /\ BufOk(g, s, w, C, R, T, c)
  BY <1>5, <1>6, <1>11, <1>17, <1>18, <1>19, <1>21, BufAhead
<1>23. /\ \A p \in Queues \ {q} : rxq'[p] = rxq[p]
       /\ QueueOk(g, rxq'[q], fwNssn, C, rcvd, Share(q))
       /\ BufOk(g, rxq'[q], fwNssn, C, rcvd, Share(q), r.buf)
       /\ FwOk(fwNssn, C, rcvd) /\ Ahead <= C /\ Windowed(buf[q], h) /\ h <= g
  BY <1>3, <1>4, <1>7, <1>11, <1>17, <1>18, <1>20, <1>22
<1>24. Ahead' = C
  BY <1>14 DEF Ahead
<1> QED BY <1>1, <1>2, <1>3, <1>9, <1>13, <1>23, <1>24, AppliedWindows

-----------------------------------------------------------------------------
(* The session starts. *)
LEMMA StartFirmwareWindows ==
  ASSUME DataInv, Windows, StartFirmware
  PROVE  Windows' /\ ~mapped
PROOF
<1>1. /\ pc = "idle" /\ ~mapped /\ pc' = "starting" /\ fwOn' = TRUE
      /\ ssn' = fwNssn' % SnMod
      /\ UNCHANGED <<buf, handler, cmds, mapped, rcvd, rxq, steer, timedOut>>
  BY DEF StartFirmware, bufVars, syncVars, envVars, histVars
<1>2. ~fwOn /\ rcvd = {} /\ fwNssn = FirstId
  BY <1>1 DEF Windows
<1>3. fwNssn' = FirstId
  <2>1. FirstId \in Nat /\ LastId \in Nat /\ FirstId <= LastId /\ LastId + 1 \notin {}
    BY Numbers
  <2>2. Max({FirstId - 1}) = FirstId - 1
    <3>1. \E x \in {FirstId - 1} : \A y \in {FirstId - 1} : x >= y
      BY <2>1
    <3> QED BY <3>1 DEF Max
  <2>3. FirstId..(FirstId - 1) = {}
    BY <2>1
  <2>4. fwNssn' = NextMissing(FirstId..Max(rcvd \cup {FirstId - 1}), fwNssn)
    BY DEF StartFirmware
  <2>5. rcvd \cup {FirstId - 1} = {FirstId - 1}
    BY <1>2
  <2>6. FirstId..Max(rcvd \cup {FirstId - 1}) = {}
    BY <2>2, <2>3, <2>5
  <2>7. fwNssn' = NextMissing({}, FirstId)
    BY <1>2, <2>4, <2>6
  <2>8. PICK n : n = NextMissing({}, FirstId)
    OBVIOUS
  <2>9. /\ n \in Int /\ FirstId <= n
        /\ \A x \in Int : FirstId <= x /\ x \notin {} => n <= x
    <3>1. FirstId <= LastId + 1 /\ {} \subseteq Ids
      BY <2>1
    <3> QED BY <2>1, <2>8, <3>1, NextMissingIs
  <2>10. n <= FirstId
    BY <2>1, <2>9
  <2> QED BY <2>1, <2>7, <2>8, <2>9, <2>10
<1>4. Ahead' = Ahead /\ \A q \in Queues : Share(q)' = Share(q)
  BY <1>1 DEF Ahead, Share
<1>5. Msgs(cmds)' = Msgs(cmds)
  BY <1>1 DEF Msgs
<1>6. fwNssn' = fwNssn
  BY <1>2, <1>3
<1> QED BY <1>1, <1>2, <1>3, <1>4, <1>5, <1>6 DEF Windows

LEMMA StartMapWindows ==
  ASSUME DataInv, Windows, StartMap
  PROVE  Windows' /\ ~mapped
PROOF
<1>1. /\ pc = "starting" /\ pc' = "idle" /\ mapped' = TRUE
      /\ buf' = [q \in Queues |-> InitBuffer(ssn)]
      /\ UNCHANGED <<cmds, fwOn, fwNssn, rcvd, rxq, steer, timedOut>>
  BY DEF StartMap, syncVars, fwVars, envVars, histVars
<1>2. ~mapped /\ ssn = FirstId % SnMod /\ fwOn
  BY <1>1 DEF Windows
<1>3. Ahead' = Ahead /\ \A q \in Queues : Share(q)' = Share(q)
  BY <1>1 DEF Ahead, Share
<1>4. PICK w, A, R, b : w = fwNssn /\ A = Ahead /\ R = rcvd /\ b = InitBuffer(ssn)
  OBVIOUS
<1>5. /\ FwOk(w, A, R) /\ w \in Int /\ A \in Int /\ 0 <= A /\ FirstId <= w /\ FirstId \in Int
      /\ R \subseteq Ids /\ \A x \in R : x < w
  BY <1>2, <1>4, NumsFacts DEF Windows, FwOk
<1>6. Windowed(b, FirstId) /\ ~b.removed /\ Held(b) = {} /\ FirstId \in Nums
  <2>1. FirstId \in Nums /\ FirstId % SnMod \in Sns
    BY Numbers, NumsFacts DEF Nums
  <2>2. Shape(b) /\ Counts(b) /\ b.num = 0 /\ b.removed = FALSE
    BY <1>2, <1>4, <2>1, InitBufferShape
  <2>3. b.head = FirstId % SnMod
    BY <1>2, <1>4 DEF InitBuffer
  <2>4. Held(b) = {}
    BY <2>2, HeldNone
  <2>5. Placed(b)
    BY <2>4 DEF Placed, Held
  <2> QED BY <2>1, <2>2, <2>3, <2>4, <2>5 DEF Windowed
<1>7. ASSUME NEW q \in Queues
      PROVE  QueueOk(FirstId, rxq[q], w, A, R, Share(q))
             /\ BufOk(FirstId, rxq[q], w, A, R, Share(q), b)
  <2>1. PICK s, T : s = rxq[q] /\ T = Share(q)
    OBVIOUS
  <2>2. /\ QueueOk(FirstId, s, w, A, R, T)
        /\ \A j \in 1..Len(s) : s[j].type = "frame" => ~s[j].retry
    BY <1>2, <1>4, <2>1 DEF Windows
  <2>3. FirstId <= w + A
    BY <1>5
  <2>4. \A j \in 1..Len(s) : Above(s[j], FirstId - A)
    <3> TAKE j \in 1..Len(s)
    <3>1. MsgOk(s[j], w, A, R, T)
      BY <2>2 DEF QueueOk
    <3>2. PICK n, d : n = Number(s[j]) /\ d = s[j].id
      OBVIOUS
    <3>3. n \in Nums /\ (s[j].type = "frame" => d \in Ids)
      BY <3>1, <3>2 DEF MsgOk, Coded
    <3>4. FirstId - A <= n /\ (s[j].type = "frame" => FirstId - A <= d)
      BY <1>5, <3>3, NumsFacts
    <3> QED BY <3>2, <3>4 DEF Above
  <2>5. \A x \in T : ~(x[1] \in R /\ w <= x[1])
    <3> SUFFICES ASSUME NEW x \in T, x[1] \in R, w <= x[1] PROVE FALSE
      OBVIOUS
    <3>1. PICK i : i = x[1]
      OBVIOUS
    <3>2. i \in R /\ w <= i /\ i < w
      BY <1>5, <3>1
    <3>3. i \in Ids
      BY <1>5, <3>2
    <3>4. i \in Int
      BY <3>3, Numbers
    <3> QED BY <1>5, <3>2, <3>4
  <2>6. BufOk(FirstId, s, w, A, R, T, b)
    BY <1>6, <2>2, <2>3, <2>4, <2>5 DEF BufOk
  <2> QED BY <2>1, <2>2, <2>6
<1>8. /\ \A q \in Queues : rxq'[q] = rxq[q] /\ buf'[q] = b
      /\ fwNssn' = w /\ Ahead' = A /\ rcvd' = R /\ Msgs(cmds)' = Msgs(cmds)
  BY <1>1, <1>3, <1>4 DEF Msgs
<1>9. \A m \in Msgs(cmds) : m.type = "sync" /\ MsgOk(m, w, A, R, {})
  BY <1>4 DEF Windows
<1> QED BY <1>1, <1>2, <1>3, <1>5, <1>6, <1>7, <1>8, <1>9 DEF Windows

(* What has disturbed a session stays known. *)
LEMMA Recorded ==
  ASSUME Faults, [Next]_vars
  PROVE  /\ budget.stops \in Nat /\ budget'.stops \in Nat /\ budget.stops <= budget'.stops
         /\ budget.olds \in Nat /\ budget'.olds \in Nat /\ budget.olds <= budget'.olds
         /\ budget.retries \in Nat /\ budget'.retries \in Nat /\ budget.retries <= budget'.retries
         /\ lost \subseteq lost' /\ (timedOut => timedOut')
         /\ lost' = lost \/ \E q \in Queues : RxFrame(q)
PROOF
<1>1. CASE UNCHANGED vars
  <2>1. UNCHANGED <<budget, lost, timedOut>>
    BY <1>1 DEF vars, histVars
  <2> QED BY <2>1 DEF Faults
<1>2. CASE Next
  <2> DEFINE Lost == lost' = lost \/ \E q \in Queues : RxFrame(q)
             Timed == timedOut' = timedOut \/ \E q \in Queues : TimerHandler(q)
             Counted == \/ budget' = budget
                        \/ \E f \in {"retries", "olds", "jumps", "faults", "kills",
                                       "sessions", "stops"} :
                             budget' = [budget EXCEPT ![f] = @ + 1]
  <2>1. ASSUME \E id \in Ids : Air(id) \/ AirBeyond(id) \/ AirAgain(id) \/ AirOld(id)
        PROVE  Lost /\ Timed /\ Counted
    BY <2>1 DEF Air, AirBeyond, AirAgain, AirOld, histVars
  <2>2. ASSUME \E q \in Queues : Bar(q)
        PROVE  Lost /\ Timed /\ Counted
    BY <2>2 DEF Bar, histVars
  <2>3. ASSUME NEW q \in Queues, Rx(q) PROVE Lost /\ Timed /\ Counted
    <3>1. Lost
      BY <2>3 DEF Rx, RxRelease, RxNssnSync, RxDelBa
    <3>2. UNCHANGED <<timedOut, budget>>
      BY <2>3 DEF Rx, RxFrame, RxRelease, RxNssnSync, RxDelBa
    <3> QED BY <3>1, <3>2
  <2>4. ASSUME NEW q \in Queues, Timer(q) PROVE Lost /\ Timed /\ Counted
    <3>1. UNCHANGED <<lost, budget>>
      BY <2>4 DEF Timer, TimerFires, TimerHandler, histVars
    <3>2. Timed
      BY <2>4 DEF Timer, TimerFires, histVars
    <3> QED BY <3>1, <3>2
  <2>5. ASSUME Trigger \/ TimePasses \/ StartFirmware \/ StartMap \/ StopFirmware
        PROVE  Lost /\ Timed /\ Counted
    BY <2>5 DEF Trigger, TimePasses, StartFirmware, StartMap, StopFirmware, histVars
  <2>6. ASSUME Stop
        PROVE  Lost /\ Timed /\ Counted
    <3>1. UNCHANGED <<lost, timedOut>>
      BY <2>6 DEF Stop, SyncEnd, SyncNotify, SyncNotifyFails, SyncDone, SyncTimeout, EndSync,
                  FreeReorder, StopUnmap, histVars
    <3>2. Counted
      BY <2>6 DEF Stop, SyncEnd, SyncNotify, SyncNotifyFails, SyncDone, SyncTimeout,
                  FreeReorder, StopUnmap
    <3> QED BY <3>1, <3>2
  <2>11. ASSUME RadioKill \/ RadioBack
         PROVE  Lost /\ Timed /\ Counted
    BY <2>11 DEF RadioKill, RadioBack, histVars
  <2>7. Lost /\ Timed /\ Counted
    <3> HIDE DEF Lost, Timed, Counted
    <3> QED BY <1>2, <2>1, <2>2, <2>3, <2>4, <2>5, <2>6, <2>11 DEF Next
  <2>8. lost \subseteq lost'
    BY <2>7 DEF RxFrame
  <2>9. timedOut => timedOut'
    BY <2>7 DEF TimerHandler
  <2>10. /\ budget.stops \in Nat /\ budget'.stops \in Nat /\ budget.stops <= budget'.stops
         /\ budget.olds \in Nat /\ budget'.olds \in Nat /\ budget.olds <= budget'.olds
         /\ budget.retries \in Nat /\ budget'.retries \in Nat /\ budget.retries <= budget'.retries
    BY <2>7 DEF Faults
  <2> QED BY <2>7, <2>8, <2>9, <2>10
<1> QED BY <1>1, <1>2

LEMMA SelfLess == ASSUME NEW x \in Sns PROVE ~SnLess(x, x)
PROOF
<1>1. x \in Int /\ x % SnMod = x /\ x - x < Half /\ ~(x < x)
  BY ModSmall, Sizes DEF Sns
<1> QED BY <1>1, LessOf

(* No deletion is going on. *)
LEMMA NoDelBa ==
  ASSUME Windows, NEW q \in Queues
  PROVE  ~RxDelBa(q)
PROOF
<1> SUFFICES ASSUME RxDelBa(q) PROVE FALSE
  OBVIOUS
<1>1. PICK s : s = rxq[q]
  OBVIOUS
<1>2. s # <<>> /\ Head(s).type = "delba"
  BY <1>1 DEF RxDelBa, Receive
<1>3. \E h : QueueOk(h, s, fwNssn, Ahead, rcvd, Share(q))
  BY <1>1 DEF Windows
<1>4. IsSeq(s) /\ \A j \in 1..Len(s) : s[j].type # "delba"
  BY <1>3 DEF QueueOk, MsgOk
<1>5. Head(s) = s[1] /\ 1 \in 1..Len(s)
  BY <1>2, <1>4, TailAt
<1> QED BY <1>2, <1>4, <1>5

(* The switch of the radio changes nothing of a session. *)
LEMMA RadioSame ==
  ASSUME Faults, UNCHANGED vars \/ RadioKill \/ RadioBack
  PROVE  /\ UNCHANGED <<buf, handler, cmds, mapped, pc, ssn, fwOn, fwNssn, rcvd, rxq, steer>>
         /\ UNCHANGED <<timedOut, up>> /\ budget'.retries = budget.retries
PROOF
<1>1. CASE UNCHANGED vars
  BY <1>1 DEF vars, bufVars, syncVars, ctlVars, fwVars, envVars, histVars
<1>2. CASE RadioKill
  <2>1. UNCHANGED <<buf, handler, cmds, mapped, pc, ssn, fwOn, fwNssn, rcvd, rxq, steer,
                    timedOut, up>>
    BY <1>2 DEF RadioKill, bufVars, syncVars, ctlVars, fwVars
  <2>2. budget'.retries = budget.retries
    BY <1>2 DEF RadioKill, Faults
  <2> QED BY <2>1, <2>2
<1>3. CASE RadioBack
  BY <1>3 DEF RadioBack, bufVars, syncVars, ctlVars, fwVars, histVars
<1> QED BY <1>1, <1>2, <1>3

LEMMA WindowsStep ==
  ASSUME Short, DataInv, Windows, Undisturbed, Undisturbed', Next, ~(RadioKill \/ RadioBack)
  PROVE  Windows' /\ Forward
PROOF
<1>1. TypedInv /\ BufInv /\ Faults /\ \A q \in Queues : buf[q].head \in Sns
  BY DEF DataInv, BufInv, Shape
<1>2. \A q \in Queues : ~SnLess(buf[q].head, buf[q].head)
  BY <1>1, SelfLess
<1>3. buf' = buf => Forward
  BY <1>2 DEF Forward
<1>4. CASE \/ \E id \in Ids : Air(id) \/ AirBeyond(id) \/ AirAgain(id) \/ AirOld(id)
           \/ \E q \in Queues : Bar(q)
  BY <1>1, <1>3, <1>4, FirmwareWindows DEF Gives
<1>5. ASSUME NEW q \in Queues, Rx(q) PROVE Windows' /\ Forward
  <2>1. RxFrame(q) \/ RxRelease(q) \/ RxNssnSync(q)
    BY <1>5, NoDelBa DEF Rx
  <2>2. CASE mapped
    BY <2>1, <2>2, RxWindows DEF Forward
  <2>3. CASE ~mapped
    BY <1>1, <1>3, <2>1, <2>3, EarlyWindows
  <2> QED BY <2>2, <2>3
<1>6. ASSUME NEW q \in Queues, TimerHandler(q) PROVE Windows' /\ Forward
  BY <1>6, TimerWindows DEF Forward
<1>7. CASE Trigger
  BY <1>1, <1>3, <1>7, TriggerWindows
<1>8. CASE TimePasses \/ \E q \in Queues : TimerFires(q)
  BY <1>2, <1>8, TimersWindows DEF Forward
<1>9. CASE StartFirmware \/ StartMap
  BY <1>9, StartFirmwareWindows, StartMapWindows DEF Forward
<1>10. ~StopFirmware
  <2> SUFFICES ASSUME StopFirmware PROVE FALSE
    OBVIOUS
  <2>1. budget.stops \in Nat /\ budget'.stops = budget.stops + 1
    BY <1>1 DEF StopFirmware, Faults
  <2> QED BY <2>1 DEF Undisturbed
<1>11. ~Stop
  <2>1. pc \in {"idle", "starting"}
    BY DEF Windows
  <2> QED BY <2>1 DEF Stop, SyncEnd, SyncNotify, SyncNotifyFails, SyncDone, SyncTimeout,
                      FreeReorder, StopUnmap
<1> QED BY <1>4, <1>5, <1>6, <1>7, <1>8, <1>9, <1>10, <1>11 DEF Next, Timer

LEMMA WindowsKept ==
  ASSUME Short, DataInv, WindowsInv, [Next]_vars
  PROVE  WindowsInv' /\ (Undisturbed' => Forward)
PROOF
<1> SUFFICES ASSUME Undisturbed' PROVE Windows' /\ Forward
  BY DEF WindowsInv
<1>1. Faults /\ \A q \in Queues : buf[q].head \in Sns
  BY DEF DataInv, BufInv, Shape
<1>2. Undisturbed
  BY <1>1, Recorded DEF Undisturbed
<1>3. Windows
  BY <1>2 DEF WindowsInv
<1>4. CASE Next /\ ~(RadioKill \/ RadioBack)
  BY <1>2, <1>3, <1>4, WindowsStep
<1>5. CASE UNCHANGED vars \/ RadioKill \/ RadioBack
  <2>1. UNCHANGED <<buf, handler, cmds, mapped, pc, ssn, fwOn, fwNssn, rcvd, rxq, steer,
                    timedOut>>
    BY <1>1, <1>5, RadioSame
  <2>2. Ahead' = Ahead /\ Msgs(cmds)' = Msgs(cmds) /\ \A q \in Queues : Share(q)' = Share(q)
    BY <2>1 DEF Ahead, Share, Msgs
  <2>3. Windows'
    BY <1>3, <2>1, <2>2 DEF Windows
  <2>4. Forward
    BY <1>1, <2>1, SelfLess DEF Forward
  <2> QED BY <2>3, <2>4
<1> QED BY <1>4, <1>5

LEMMA WindowsInit == Init => WindowsInv
PROOF
<1> SUFFICES ASSUME Init PROVE Windows
  BY DEF WindowsInv
<1>1. /\ buf = [q \in Queues |-> InitBuffer(0)] /\ handler = [q \in Queues |-> FALSE]
      /\ mapped = FALSE /\ pc = "idle" /\ cmds = <<>> /\ rxq = [q \in Queues |-> <<>>]
      /\ fwOn = FALSE /\ fwNssn = FirstId /\ rcvd = {} /\ timedOut = FALSE
  BY DEF Init
<1>2. Ahead = 0 /\ FirstId \in Nums
  BY <1>1, Numbers, NumsFacts DEF Ahead, Nums
<1>3. FwOk(FirstId, 0, {})
  BY <1>2 DEF FwOk
<1>4. \A T : QueueOk(FirstId, <<>>, FirstId, 0, {}, T)
  BY EmptyFacts DEF QueueOk
<1>5. Msgs(cmds) = {}
  BY <1>1, MsgsEmpty
<1>6. \A q \in Queues : rxq[q] = <<>> /\ buf[q].timer = "off" /\ ~handler[q]
  BY <1>1 DEF InitBuffer
<1>7. \A j \in 1..Len(<<>>) : FALSE
  BY EmptyFacts
<1> QED BY <1>1, <1>2, <1>3, <1>4, <1>5, <1>6, <1>7 DEF Windows

(* head_sn never goes back in an undisturbed session (iwl_mvm_reorder,     *)
(* iwl_mvm_release_frames, iwl_mvm_reorder_timer_expired), for any window, *)
(* number of queues and order in which frames, release notifications, NSSN *)
(* messages of other queues and timers come to them.                       *)
THEOREM HeadNeverBack == ASSUME Short PROVE Spec => HeadForward
PROOF
<1>1. Init => DataInv /\ WindowsInv
  BY DataInit, WindowsInit
<1>2. DataInv /\ WindowsInv /\ [Next]_vars => (DataInv /\ WindowsInv)'
  BY DataStep, WindowsKept
<1>3. DataInv /\ WindowsInv /\ [Next]_vars =>
        [Undisturbed' => \A q \in Queues : (mapped /\ mapped') =>
           ~SnLess(buf'[q].head, buf[q].head)]_vars
  BY WindowsKept DEF Forward
<1> QED BY <1>1, <1>2, <1>3, PTL DEF Spec, HeadForward

-----------------------------------------------------------------------------
(* Nothing fresh is dropped *)

LEMMA FreshStep ==
  ASSUME Short, DataInv, WindowsInv, FreshKept, [Next]_vars
  PROVE  FreshKept'
PROOF
<1> SUFFICES ASSUME lost' # {}, ~timedOut', ~(budget'.olds > 0), ~(budget'.stops > 0)
             PROVE  FALSE
  BY DEF FreshKept
<1>1. Faults
  BY DEF DataInv
<1>2. budget.stops = 0 /\ budget.olds = 0 /\ ~timedOut
  BY <1>1, Recorded
<1>3. lost = {}
  BY <1>2 DEF FreshKept
<1>4. Windows /\ Ahead = 0
  BY <1>2, <1>3 DEF WindowsInv, Undisturbed, Ahead
<1>5. PICK q \in Queues : RxFrame(q)
  BY <1>1, <1>3, Recorded
<1>6. PICK s, w, R, T, b : /\ s = rxq[q] /\ w = fwNssn /\ R = rcvd /\ T = Share(q) /\ b = buf[q]
  OBVIOUS
<1>7. PICK f : f = Head(s)
  OBVIOUS
<1>8. s # <<>> /\ f.type = "frame" /\ mapped /\ ~f.retry /\ Drops(b, f)
  <2>1. lost' # lost
    BY <1>3
  <2> QED BY <1>5, <1>6, <1>7, <2>1 DEF RxFrame, Receive
<1>9. FwOk(w, 0, R) /\ T \subseteq Subframes
  BY <1>4, <1>6 DEF Windows, Share
<1>10. PICK h \in Nums : QueueOk(h, s, w, 0, R, T) /\ BufOk(h, s, w, 0, R, T, b)
  BY <1>4, <1>6, <1>8 DEF Windows
<1>11. f = s[1]
  <2>1. IsSeq(s)
    BY <1>10 DEF QueueOk
  <2> QED BY <1>7, <1>8, <2>1, TailAt
<1>12. s[1].type = "frame" /\ Drops(b, s[1])
  BY <1>8, <1>11
<1>13. s[1].retry
  BY <1>8, <1>9, <1>10, <1>12, FreshStays
<1> QED BY <1>8, <1>11, <1>13

(* No frame that reaches the driver for the first time is dropped by       *)
(* iwl_mvm_reorder while no reorder timer has fired, no frame came after   *)
(* the window had passed it and no deletion has begun: the window and the  *)
(* test for a place already taken only refuse what was sent again.         *)
THEOREM FirstFramesKept == ASSUME Short PROVE Spec => []FreshKept
PROOF
<1>1. Init => DataInv /\ WindowsInv /\ FreshKept
  <2>1. Init => FreshKept
    BY DEF Init, FreshKept
  <2> QED BY <2>1, DataInit, WindowsInit
<1>2. (DataInv /\ WindowsInv /\ FreshKept) /\ [Next]_vars
        => (DataInv /\ WindowsInv /\ FreshKept)'
  BY DataStep, WindowsKept, FreshStep
<1> QED BY <1>1, <1>2, PTL DEF Spec

-----------------------------------------------------------------------------
(* What the buffers hold *)

LEMMA AccountingHolds ==
  ASSUME Short, DataInv, WindowsInv
  PROVE  Accounting
PROOF
<1>1. NumStored
  BY DEF DataInv, BufInv, NumStored, Live, Counts
<1>2. ASSUME NEW q \in Queues, Live(q), NEW i \in Indices, NEW k \in 1..Len(buf[q].entries[i])
      PROVE  LET f == buf[q].entries[i][k]
             IN  /\ SnOf(f) % BufSize = i
                 /\ Undisturbed => SnSub(SnOf(f), buf[q].head) < BufSize
  <2>1. PICK b, f : b = buf[q] /\ f = buf[q].entries[i][k]
    OBVIOUS
  <2>2. SnOf(f) % BufSize = i
    <3>1. InPlace(b.entries)
      BY <2>1 DEF DataInv, BufInv, Shape
    <3> QED BY <2>1, <3>1 DEF InPlace
  <2>3. ASSUME Undisturbed PROVE SnSub(SnOf(f), b.head) < BufSize
    <3>1. \E h \in Nums : BufOk(h, rxq[q], fwNssn, Ahead, rcvd, Share(q), b)
      BY <1>2, <2>1, <2>3 DEF WindowsInv, Windows, Live
    <3>2. PICK h \in Nums : Windowed(b, h)
      BY <3>1 DEF BufOk
    <3>3. f \in Held(b) /\ f \in Msgs(b.entries[i])
      BY <2>1 DEF Held, Msgs
    <3>4. f.id \in Ids /\ h <= f.id /\ f.id < h + BufSize /\ b.head = h % SnMod
      BY <3>2, <3>3 DEF Windowed, Placed
    <3>5. PICK x : x = f.id
      OBVIOUS
    <3>6. x \in Int /\ h \in Int /\ h <= x /\ x - h < BufSize /\ x - h < SnMod
      BY <3>4, <3>5, Numbers, NumsFacts, Sizes
    <3>7. SnSub(x % SnMod, h % SnMod) = x - h
      BY <3>6, SubIs
    <3> QED BY <3>4, <3>5, <3>6, <3>7 DEF SnOf
  <2> QED BY <2>1, <2>2, <2>3
<1>3. \A q \in Queues : buf[q].head \in Sns
  BY DEF DataInv, BufInv, Shape
<1> QED BY <1>1, <1>2, <1>3 DEF Accounting

(* A frame that is stored is in the entry of its sequence number, counted  *)
(* in num_stored, and, in an undisturbed session, in the window that       *)
(* starts at head_sn, after any sequence of frames, releases, NSSN         *)
(* messages and timers: what iwl_mvm_release_frames and the reorder timer  *)
(* look up by index is the frame they mean.                                *)
THEOREM AccountingCorrect == ASSUME Short PROVE Spec => []Accounting
PROOF
<1>1. Init => DataInv /\ WindowsInv
  BY DataInit, WindowsInit
<1>2. (DataInv /\ WindowsInv) /\ [Next]_vars => (DataInv /\ WindowsInv)'
  BY DataStep, WindowsKept
<1>3. DataInv /\ WindowsInv => Accounting
  BY AccountingHolds
<1> QED BY <1>1, <1>2, <1>3, PTL DEF Spec

-----------------------------------------------------------------------------
(* The order in which frames are stored *)

(* A subframe that goes behind the earlier ones of its A-MSDU. *)
LEMMA StoreEntries ==
  ASSUME Short, NEW b, NEW k, Windowed(b, k), Entries(b), NEW f, f.id \in Ids, f.nssn \in Sns,
         k <= f.id, f.id < k + BufSize, ~Taken(b, f),
         f.sub \in {0, 1}, ~f.amsdu => f.sub = 0, \A g \in Held(b) : g.sub \in {0, 1}
  PROVE  Entries(WithFrame(b, f))
PROOF
<1> DEFINE sn == SnOf(f)
           index == sn % BufSize
           stored == [b EXCEPT !.entries[index] = Append(@, f),
                               !.num = @ + 1,
                               !.aged[index] = FALSE,
                               !.lastAmsdu = IF f.amsdu THEN sn ELSE @,
                               !.lastSub = IF f.amsdu THEN f.sub ELSE @]
<1>1. WithFrame(b, f) = stored
  BY DEF WithFrame
<1>2. PICK id \in Int : id = f.id
  BY Numbers
<1>3. index \in Indices /\ sn \in Sns
  <2>1. id % SnMod \in Int /\ id % SnMod \in Sns
    BY <1>2, SnRange DEF Sns
  <2>2. (id % SnMod) % BufSize \in Indices
    BY <2>1, SnRange
  <2>3. sn = id % SnMod
    BY <1>2 DEF SnOf
  <2> HIDE DEF sn
  <2> QED BY <2>1, <2>2, <2>3
<1>4. PICK j \in Indices, x \in Sns : j = index /\ x = sn
  BY <1>3
<1>5. Shape(b) /\ Lists(b.entries) /\ b.lastSub \in Nat
  BY DEF Windowed, Shape, Entries
<1>6. /\ stored.entries = [b.entries EXCEPT ![j] = Append(@, f)]
      /\ stored.lastAmsdu = IF f.amsdu THEN x ELSE b.lastAmsdu
      /\ stored.lastSub = IF f.amsdu THEN f.sub ELSE b.lastSub
  <2> HIDE DEF index, sn
  <2> QED BY <1>4, <1>5 DEF Shape, Fields
<1>7. PICK c, e : c = stored /\ e = b.entries[j]
  OBVIOUS
<1> HIDE DEF stored
<1>8. /\ c.entries[j] = Append(e, f)
      /\ \A i \in Indices \ {j} : c.entries[i] = b.entries[i]
  BY <1>5, <1>6, <1>7 DEF Lists
<1>9. IsSeq(e) /\ Rising(e)
  BY <1>5, <1>7 DEF Lists, Entries
<1>10. Msgs(Append(e, f)) = Msgs(e) \cup {f} /\ Append(e, f) = e \o <<f>>
  BY <1>9, MsgsAppend, AppendAt
<1>11. SnOf(f) = x /\ x % BufSize = j
  BY <1>4
(* What has the sequence number of f is in the same entry. *)
<1>12. ASSUME NEW g \in Held(b), SnOf(g) = x
       PROVE  e # <<>>
  <2>1. PICK i \in Indices : g \in Msgs(b.entries[i])
    BY DEF Held
  <2>2. x % BufSize = i
    BY <1>12, <2>1 DEF Windowed, Placed
  <2> QED BY <1>7, <1>11, <2>1, <2>2, MsgsEmpty
<1>13. e # <<>> => f.amsdu /\ x = b.lastAmsdu /\ ~(b.lastSub >= f.sub)
  BY <1>4, <1>7 DEF Taken
<1>14. ASSUME NEW g \in Held(b), SnOf(g) = x
       PROVE  f.amsdu /\ g.sub < f.sub
  <2>1. f.amsdu /\ x = b.lastAmsdu /\ ~(b.lastSub >= f.sub)
    BY <1>12, <1>13, <1>14
  <2>2. g.sub <= b.lastSub /\ g.sub \in Int
    BY <1>14, <2>1 DEF Entries
  <2> QED BY <1>5, <2>1, <2>2
<1>15. Rising(Append(e, f))
  <2>1. /\ IsSeq(<<f>>) /\ Len(<<f>>) = 1 /\ Msgs(<<f>>) = {f}
    BY MsgsSingle, AppendAt, EmptyFacts
  <2>2. Rising(<<f>>)
    BY <2>1 DEF Rising
  <2>3. ASSUME NEW g \in Msgs(e) PROVE Less(g, f)
    <3>1. g \in Held(b) /\ g.id \in Ids /\ SnOf(g) % BufSize = j
      BY <1>7 DEF Held, Windowed, Placed
    <3>2. k <= g.id /\ g.id < k + BufSize /\ k \in Int /\ BufSize \in Int
      BY <3>1, NumsFacts DEF Windowed
    <3>3. PICK y \in Int : y = g.id
      BY <3>1, Numbers
    <3>4. y - id < BufSize /\ id - y < BufSize
      BY <1>2, <3>2, <3>3
    <3>5. (y % SnMod) % BufSize = (id % SnMod) % BufSize
      BY <1>2, <1>11, <3>1, <3>3 DEF SnOf
    <3>6. y = id
      BY <3>4, <3>5, SamePlace
    <3>7. SnOf(g) = x
      BY <1>2, <1>11, <3>3, <3>6 DEF SnOf
    <3>8. g.sub < f.sub
      BY <1>14, <3>1, <3>7
    <3> QED BY <1>2, <3>3, <3>6, <3>8 DEF Less
  <2>4. \A g \in Msgs(e), y \in Msgs(<<f>>) : Less(g, y)
    BY <2>1, <2>3
  <2> QED BY <1>9, <1>10, <2>2, <2>4, RisingConcat
<1>16. \A i \in Indices : Rising(c.entries[i])
  BY <1>8, <1>15 DEF Entries
<1>17. \A g \in Held(c) : g \in Held(b) \/ g = f
  <2>1. \A i \in Indices : \A g \in Msgs(c.entries[i]) : g \in Msgs(b.entries[i]) \/ g = f
    BY <1>7, <1>8, <1>10
  <2> QED BY <2>1 DEF Held
<1>18. ASSUME NEW g \in Held(c), SnOf(g) = c.lastAmsdu PROVE g.sub <= c.lastSub
  <2>1. CASE f.amsdu
    <3>1. c.lastAmsdu = x /\ c.lastSub = f.sub
      BY <1>6, <1>7, <2>1
    <3>2. CASE g \in Held(b)
      BY <1>14, <1>18, <3>1, <3>2
    <3>3. CASE g = f
      BY <3>1, <3>3
    <3> QED BY <1>17, <3>2, <3>3
  <2>2. CASE ~f.amsdu
    <3>1. c.lastAmsdu = b.lastAmsdu /\ c.lastSub = b.lastSub /\ f.sub = 0
      BY <1>6, <1>7, <2>2
    <3>2. CASE g \in Held(b)
      BY <1>18, <3>1, <3>2 DEF Entries
    <3>3. CASE g = f
      BY <1>5, <3>1, <3>3
    <3> QED BY <1>17, <3>2, <3>3
  <2> QED BY <2>1, <2>2
<1>19. c.lastSub \in Nat
  BY <1>5, <1>6, <1>7
<1> QED BY <1>1, <1>7, <1>16, <1>18, <1>19 DEF Entries

-----------------------------------------------------------------------------
(* What has been passed up *)

Keys(v) == [k \in 1..Len(v) |-> Key(v[k])]
Sorted(u) == IsSeq(u) /\ \A i, j \in 1..Len(u) : i < j => Before(u[i], u[j])

(* What x names has been received and comes before all that is stored in b *)
(* and all that waits in s and will not be dropped.                        *)
Behind(x, h, s, w, R, b) ==
  /\ x[1] \in R /\ (x[1] < w \/ x[1] <= h)
  /\ \A g \in Held(b) : Before(x, Key(g))
  /\ \A j \in 1..Len(s) : s[j].type = "frame" => Before(x, Key(s[j])) \/ s[j].id < h

Ordered(u, h, s, w, R, b) ==
  /\ Sorted(u) /\ Entries(b)
  /\ \A x \in Msgs(u) : Behind(x, h, s, w, R, b)

LEMMA BeforeKey ==
  /\ \A f : Key(f)[1] = f.id /\ Key(f)[2] = f.sub
  /\ \A x, f : Before(x, Key(f)) <=> x[1] < f.id \/ (x[1] = f.id /\ x[2] < f.sub)
  /\ \A f, g : Less(f, g) <=> Before(Key(f), Key(g))
PROOF
<1>1. \A f : Key(f)[1] = f.id /\ Key(f)[2] = f.sub
  BY DEF Key
<1> QED BY <1>1 DEF Before, Less

LEMMA KeysOf ==
  ASSUME NEW v, IsSeq(v)
  PROVE  /\ IsSeq(Keys(v)) /\ Len(Keys(v)) = Len(v) /\ Len(v) \in Nat
         /\ \A k \in 1..Len(v) : Keys(v)[k] = Key(v[k])
         /\ Msgs(Keys(v)) = {Key(f) : f \in Msgs(v)}
PROOF
<1>1. PICK n \in Nat : n = Len(v)
  BY ListLength
<1>2. PICK h : h = Keys(v)
  OBVIOUS
<1>3. h = [k \in 1..n |-> h[k]] /\ \A k \in 1..n : h[k] = Key(v[k])
  BY <1>1, <1>2 DEF Keys
<1>4. IsSeq(h) /\ Msgs(h) = {h[k] : k \in 1..n} /\ Len(h) = n
  BY <1>3, MsgsTuple
<1>5. Msgs(v) = {v[k] : k \in 1..n}
  BY <1>1 DEF Msgs
<1>6. {h[k] : k \in 1..n} = {Key(f) : f \in Msgs(v)}
  BY <1>3, <1>5
<1> QED BY <1>1, <1>2, <1>3, <1>4, <1>6

LEMMA SortedMore ==
  ASSUME NEW u, Sorted(u), NEW v, Rising(v),
         \A x \in Msgs(u), g \in Msgs(v) : Before(x, Key(g))
  PROVE  /\ Sorted(u \o Keys(v))
         /\ Msgs(u \o Keys(v)) = Msgs(u) \cup {Key(g) : g \in Msgs(v)}
PROOF
<1>1. PICK t, n : t = Keys(v) /\ n = Len(v)
  OBVIOUS
<1>2. /\ IsSeq(t) /\ Len(t) = n /\ n \in Nat /\ \A k \in 1..n : t[k] = Key(v[k])
      /\ Msgs(t) = {Key(g) : g \in Msgs(v)}
  BY <1>1, KeysOf DEF Rising
<1>3. IsSeq(u)
  BY DEF Sorted
<1>4. PICK y : y = u \o t
  OBVIOUS
<1>5. /\ IsSeq(y) /\ Len(u) \in Nat /\ Len(y) = Len(u) + n
      /\ \A j \in 1..Len(u) : y[j] = u[j]
      /\ \A j \in 1..n : y[Len(u) + j] = t[j]
  BY <1>2, <1>3, <1>4, ConcatAt
<1>6. Msgs(y) = Msgs(u) \cup Msgs(t)
  BY <1>2, <1>3, <1>4, MsgsConcat
<1>7. ASSUME NEW i \in 1..Len(y), NEW j \in 1..Len(y), i < j PROVE Before(y[i], y[j])
  <2>1. CASE j <= Len(u)
    <3>1. i \in 1..Len(u) /\ j \in 1..Len(u) /\ y[i] = u[i] /\ y[j] = u[j]
      BY <1>5, <1>7, <2>1
    <3> QED BY <1>7, <3>1 DEF Sorted
  <2>2. CASE Len(u) < j
    <3>1. PICK l \in 1..n : j = Len(u) + l /\ y[j] = t[l]
      <4>1. j - Len(u) \in 1..n /\ j = Len(u) + (j - Len(u))
        BY <1>2, <1>5, <2>2
      <4> QED BY <1>5, <4>1
    <3>2. y[j] = Key(v[l]) /\ v[l] \in Msgs(v)
      BY <1>1, <1>2, <3>1 DEF Msgs
    <3>3. CASE i <= Len(u)
      <4>1. i \in 1..Len(u) /\ y[i] = u[i] /\ u[i] \in Msgs(u)
        BY <1>5, <3>3 DEF Msgs
      <4> QED BY <3>2, <4>1
    <3>4. CASE Len(u) < i
      <4>1. PICK k \in 1..n : i = Len(u) + k /\ y[i] = t[k]
        <5>1. i - Len(u) \in 1..n /\ i = Len(u) + (i - Len(u))
          BY <1>2, <1>5, <3>4
        <5> QED BY <1>5, <5>1
      <4>2. k < l /\ y[i] = Key(v[k])
        BY <1>2, <1>5, <1>7, <3>1, <4>1
      <4>3. Less(v[k], v[l])
        BY <1>1, <4>2 DEF Rising
      <4> QED BY <3>2, <4>2, <4>3, BeforeKey
    <3> QED BY <1>5, <3>3, <3>4
  <2> QED BY <1>5, <2>1, <2>2
<1> QED BY <1>1, <1>2, <1>4, <1>5, <1>6, <1>7 DEF Sorted

LEMMA KeysConcat ==
  ASSUME NEW u, NEW v, NEW z, IsSeq(u), IsSeq(v), IsSeq(z)
  PROVE  u \o Keys(v \o z) = (u \o Keys(v)) \o Keys(z)
PROOF
<1>1. PICK y, a, c : y = v \o z /\ a = Keys(v) /\ c = Keys(z)
  OBVIOUS
<1>2. /\ IsSeq(a) /\ IsSeq(c) /\ Len(a) = Len(v) /\ Len(c) = Len(z)
      /\ Len(v) \in Nat /\ Len(z) \in Nat
      /\ \A k \in 1..Len(v) : a[k] = Key(v[k])
      /\ \A k \in 1..Len(z) : c[k] = Key(z[k])
  BY <1>1, KeysOf
<1>3. /\ IsSeq(y) /\ Len(y) = Len(v) + Len(z)
      /\ \A k \in 1..Len(v) : y[k] = v[k]
      /\ \A k \in 1..Len(z) : y[Len(v) + k] = z[k]
  BY <1>1, ConcatAt
<1>4. PICK K : u \in Seq(K) /\ a \in Seq(K) /\ c \in Seq(K)
  <2>1. PICK M : u \in Seq(M)
    BY DEF IsSeq
  <2>2. PICK L : a \in Seq(L)
    BY <1>2 DEF IsSeq
  <2>3. PICK J : c \in Seq(J)
    BY <1>2 DEF IsSeq
  <2>4. PICK K : K = M \cup L \cup J
    OBVIOUS
  <2>5. M \subseteq K /\ L \subseteq K /\ J \subseteq K
    BY <2>4
  <2>6. u \in Seq(K)
    BY <2>1, <2>5
  <2>7. a \in Seq(K)
    BY <2>2, <2>5
  <2>8. c \in Seq(K)
    BY <2>3, <2>5
  <2> QED BY <2>6, <2>7, <2>8
<1>5. Keys(y) = a \o c
  <2>1. PICK e : e = a \o c
    OBVIOUS
  <2>2. /\ IsSeq(e) /\ Len(e) = Len(v) + Len(z)
        /\ \A k \in 1..Len(v) : e[k] = a[k]
        /\ \A k \in 1..Len(z) : e[Len(v) + k] = c[k]
    <3>1. /\ IsSeq(e) /\ Len(e) = Len(a) + Len(c)
          /\ \A k \in 1..Len(a) : e[k] = a[k]
          /\ \A k \in 1..Len(c) : e[Len(a) + k] = c[k]
      <4>1. IsSeq(a) /\ IsSeq(c)
        BY <1>2
      <4>2. /\ IsSeq(a \o c) /\ Len(a \o c) = Len(a) + Len(c)
            /\ \A k \in 1..Len(a) : (a \o c)[k] = a[k]
            /\ \A k \in 1..Len(c) : (a \o c)[Len(a) + k] = c[k]
        BY <4>1, ConcatAt
      <4> QED BY <2>1, <4>2
    <3> QED BY <1>2, <3>1
  <2>3. PICK d : d = Keys(y)
    OBVIOUS
  <2>4. IsSeq(d) /\ Len(d) = Len(v) + Len(z) /\ \A k \in 1..Len(d) : d[k] = Key(y[k])
    BY <1>3, <2>3, KeysOf
  <2>5. ASSUME NEW k \in 1..Len(d) PROVE d[k] = e[k]
    <3>1. CASE k <= Len(v)
      <4>1. k \in 1..Len(v)
        BY <1>2, <2>4, <3>1
      <4> QED BY <1>2, <1>3, <2>2, <2>4, <4>1
    <3>2. CASE Len(v) < k
      <4>1. PICK l \in 1..Len(z) : k = Len(v) + l
        <5>1. k - Len(v) \in 1..Len(z) /\ k = Len(v) + (k - Len(v))
          BY <1>2, <2>4, <3>2
        <5> QED BY <5>1
      <4> QED BY <1>2, <1>3, <2>2, <2>4, <4>1
    <3> QED BY <1>2, <2>4, <3>1, <3>2
  <2>6. d = [k \in 1..Len(d) |-> d[k]] /\ e = [k \in 1..Len(e) |-> e[k]]
    <3>1. \A q : IsSeq(q) => q = [k \in 1..Len(q) |-> q[k]]
      BY DEF IsSeq
    <3> QED BY <2>2, <2>4, <3>1
  <2>7. d = e
    BY <2>2, <2>4, <2>5, <2>6
  <2> QED BY <2>1, <2>3, <2>7
<1>6. (u \o a) \o c = u \o (a \o c)
  BY <1>4, ConcatAssociative
<1> QED BY <1>1, <1>5, <1>6

(* Frames of the buffer are passed up, and the window moves behind them. *)
LEMMA OrderedRelease ==
  ASSUME NEW u, NEW h \in Nums, NEW k \in Nums, h <= k, NEW s, NEW w \in Int, NEW R, R \subseteq Ids,
         NEW b, Ordered(u, h, s, w, R, b), Windowed(b, h), \A g \in Held(b) : g.id \in R,
         NEW r, Windowed(r.buf, k), Held(r.buf) \subseteq Held(b), Released(b, r, k),
         \A j \in 1..Len(s) : s[j].type = "frame" => s[j].id \in Int
  PROVE  Ordered(u \o Keys(r.up), k, s, w, R, r.buf)
PROOF
<1>1. PICK v, c : v = r.up /\ c = r.buf
  OBVIOUS
<1>2. /\ Entries(c) /\ Rising(v) /\ \A g \in Msgs(v) : g \in Held(b) /\ g.id < k
      /\ Windowed(c, k) /\ Held(c) \subseteq Held(b)
  BY <1>1 DEF Released
<1>3. Sorted(u) /\ \A x \in Msgs(u) : Behind(x, h, s, w, R, b)
  BY DEF Ordered
<1>4. \A x \in Msgs(u), g \in Msgs(v) : Before(x, Key(g))
  BY <1>2, <1>3 DEF Behind
<1>5. /\ Sorted(u \o Keys(v))
      /\ Msgs(u \o Keys(v)) = Msgs(u) \cup {Key(g) : g \in Msgs(v)}
  BY <1>2, <1>3, <1>4, SortedMore
<1>6. h \in Int /\ k \in Int
  BY NumsFacts
<1>7. ASSUME NEW x \in Msgs(u) PROVE Behind(x, k, s, w, R, c)
  <2>1. Behind(x, h, s, w, R, b)
    BY <1>3
  <2>2. x[1] \in Int
    <3>1. x[1] \in Ids
      BY <2>1 DEF Behind
    <3> QED BY <3>1, Numbers
  <2>3. x[1] < w \/ x[1] <= k
    BY <1>6, <2>1, <2>2 DEF Behind
  <2>4. \A j \in 1..Len(s) : s[j].type = "frame" => Before(x, Key(s[j])) \/ s[j].id < k
    <3> TAKE j \in 1..Len(s)
    <3> SUFFICES ASSUME s[j].type = "frame" PROVE Before(x, Key(s[j])) \/ s[j].id < k
      OBVIOUS
    <3>1. PICK n \in Int : n = s[j].id
      OBVIOUS
    <3>2. Before(x, Key(s[j])) \/ n < h
      BY <2>1, <3>1 DEF Behind
    <3> QED BY <1>6, <3>1, <3>2
  <2> QED BY <1>2, <2>1, <2>3, <2>4 DEF Behind
<1>8. ASSUME NEW g \in Msgs(v) PROVE Behind(Key(g), k, s, w, R, c)
  <2>1. g \in Held(b) /\ g.id < k /\ g.id \in R /\ Key(g)[1] = g.id
    BY <1>2, BeforeKey
  <2>2. PICK n \in Int : n = g.id /\ n < k /\ n <= k
    <3>1. g.id \in Ids
      BY <2>1
    <3>2. PICK n \in Int : n = g.id
      BY <3>1, Numbers
    <3> QED BY <1>6, <2>1, <3>2
  <2>3. \A f \in Held(c) : Before(Key(g), Key(f))
    <3> TAKE f \in Held(c)
    <3>1. PICK l \in Int : l = f.id /\ k <= l
      BY <1>2, HeldIds
    <3>2. n < l
      BY <1>6, <2>2, <3>1
    <3> QED BY <2>1, <2>2, <3>1, <3>2, BeforeKey
  <2>4. \A j \in 1..Len(s) : s[j].type = "frame" => Before(Key(g), Key(s[j])) \/ s[j].id < k
    <3> TAKE j \in 1..Len(s)
    <3> SUFFICES ASSUME s[j].type = "frame" PROVE Before(Key(g), Key(s[j])) \/ s[j].id < k
      OBVIOUS
    <3>1. PICK l \in Int : l = s[j].id
      OBVIOUS
    <3>2. l < k \/ n < l
      BY <1>6, <2>2
    <3> QED BY <2>1, <2>2, <3>1, <3>2, BeforeKey
  <2> QED BY <2>1, <2>2, <2>3, <2>4 DEF Behind
<1>9. \A x \in Msgs(u \o Keys(v)) : Behind(x, k, s, w, R, c)
  BY <1>5, <1>7, <1>8
<1> QED BY <1>1, <1>2, <1>5, <1>9 DEF Ordered

(* The first message is done with. *)
LEMMA OrderedPop ==
  ASSUME NEW u, NEW h, NEW s, IsSeq(s), s # <<>>, NEW w, NEW R, NEW b, Ordered(u, h, s, w, R, b)
  PROVE  Ordered(u, h, Tail(s), w, R, b)
PROOF
<1>1. PICK t : t = Tail(s)
  OBVIOUS
<1>2. \A j \in 1..Len(t) : j + 1 \in 1..Len(s) /\ t[j] = s[j + 1]
  <2>1. /\ Len(s) \in Nat /\ Len(s) >= 1 /\ Len(t) = Len(s) - 1
        /\ \A j \in 1..(Len(s) - 1) : t[j] = s[j + 1]
    BY <1>1, TailAt
  <2> QED BY <2>1
<1>3. \A x \in Msgs(u) : Behind(x, h, s, w, R, b)
  BY DEF Ordered
<1>4. ASSUME NEW x \in Msgs(u) PROVE Behind(x, h, t, w, R, b)
  BY <1>2, <1>3 DEF Behind
<1> QED BY <1>1, <1>4 DEF Ordered

(* The first message is a frame of the window: what was passed up before   *)
(* comes before it.                                                        *)
LEMMA OrderedFirst ==
  ASSUME NEW u, NEW k \in Nums, NEW s, IsSeq(s), s # <<>>, NEW w, NEW R, NEW b,
         Ordered(u, k, s, w, R, b), s[1].type = "frame", s[1].id \in Int, k <= s[1].id
  PROVE  \A x \in Msgs(u) : Before(x, Key(s[1]))
PROOF
<1>1. 1 \in 1..Len(s)
  <2>1. Len(s) \in Nat /\ Len(s) >= 1
    BY TailAt
  <2> QED BY <2>1
<1>2. ~(s[1].id < k)
  BY NumsFacts
<1>3. \A x \in Msgs(u) : Before(x, Key(s[1])) \/ s[1].id < k
  BY <1>1 DEF Ordered, Behind
<1> QED BY <1>2, <1>3

(* It is stored. *)
LEMMA OrderedStore ==
  ASSUME Short, NEW u, NEW k \in Nums, NEW s, IsSeq(s), s # <<>>, NEW w, NEW R, NEW T,
         T \subseteq Subframes, NEW A,
         NEW b, Ordered(u, k, s, w, R, b), Windowed(b, k), \A g \in Held(b) : <<g.id, g.sub>> \in T,
         s[1].type = "frame", MsgOk(s[1], w, A, R, T), k <= s[1].id, s[1].id < k + BufSize,
         ~Taken(b, s[1])
  PROVE  Ordered(u, k, s, w, R, WithFrame(b, s[1])) /\ Windowed(WithFrame(b, s[1]), k)
         /\ Held(WithFrame(b, s[1])) \subseteq Held(b) \cup {s[1]}
PROOF
<1>1. PICK f, c : f = s[1] /\ c = WithFrame(b, f)
  OBVIOUS
<1>2. /\ f.id \in Ids /\ f.id \in Int /\ f.nssn \in Sns /\ k <= f.id /\ f.id < k + BufSize
      /\ f.amsdu = (f.id \in Amsdu) /\ <<f.id, f.sub>> \in T
  <2>1. f.id \in Ids /\ Number(f) \in Nums /\ f.nssn = Number(f) % SnMod
    BY <1>1 DEF MsgOk, Coded
  <2>2. f.amsdu = (f.id \in Amsdu) /\ <<f.id, f.sub>> \in T
    BY <1>1 DEF MsgOk
  <2>3. f.id \in Int
    BY <2>1, Numbers
  <2>4. f.nssn \in Sns
    BY <2>1, NumsFacts
  <2>5. k <= f.id /\ f.id < k + BufSize
    BY <1>1
  <2> QED BY <2>1, <2>2, <2>3, <2>4, <2>5, Zenon
<1>3. \A x, y : <<x, y>> \in T => y \in {0, 1} /\ (x \notin Amsdu => y = 0)
  <2> TAKE x, y
  <2> SUFFICES ASSUME <<x, y>> \in T PROVE y \in {0, 1} /\ (x \notin Amsdu => y = 0)
    OBVIOUS
  <2>1. PICK id \in Ids : <<x, y>> \in {<<id, sub>> : sub \in Subs(id)}
    BY DEF Subframes
  <2>2. x = id /\ y \in Subs(id)
    BY <2>1
  <2> QED BY <2>2 DEF Subs
<1>4. f.sub \in {0, 1} /\ (~f.amsdu => f.sub = 0)
  <2>1. f.sub \in {0, 1} /\ (f.id \notin Amsdu => f.sub = 0)
    BY <1>2, <1>3
  <2>2. f.amsdu = (f.id \in Amsdu)
    BY <1>2
  <2> QED BY <2>1, <2>2, Zenon
<1>5. \A g \in Held(b) : g.sub \in {0, 1}
  BY <1>3
<1>6. Entries(b) /\ Sorted(u) /\ \A x \in Msgs(u) : Behind(x, k, s, w, R, b)
  BY DEF Ordered
<1>7. ~Taken(b, f)
  BY <1>1
<1>8. Entries(c)
  BY <1>1, <1>2, <1>4, <1>5, <1>6, <1>7, StoreEntries
<1>9. Windowed(c, k) /\ Held(c) \subseteq Held(b) \cup {f}
  BY <1>1, <1>2, WithFrameWindow
<1>10. \A x \in Msgs(u) : Before(x, Key(f))
  BY <1>1, <1>2, OrderedFirst
<1>11. ASSUME NEW x \in Msgs(u) PROVE Behind(x, k, s, w, R, c)
  BY <1>6, <1>9, <1>10 DEF Behind
<1> QED BY <1>1, <1>6, <1>8, <1>9, <1>11 DEF Ordered

(* What comes again is not beyond its number, and only while no reorder    *)
(* timer has given up on a frame.                                          *)
Retried(s, A) ==
  \A j \in 1..Len(s) : s[j].type = "frame" /\ s[j].retry => A = 0 /\ Number(s[j]) <= s[j].id

(* After a part of an MPDU comes another part, or a later frame.           *)
LEMMA PartFollows ==
  ASSUME NEW h, NEW s, NEW w, NEW A, NEW R, NEW T, QueueOk(h, s, w, A, R, T), Retried(s, A),
         NEW k \in Int, s # <<>>, s[1].type = "frame", ~WholeMpdu(s[1]),
         s[1].id < Number(s[1]) \/ s[1].id = k,
         A = 0 /\ s[1].id = k => k <= Number(s[1]),
         NEW j \in 1..Len(s), j # 1, s[j].type = "frame"
  PROVE  Before(Key(s[1]), Key(s[j])) \/ s[j].id < k
PROOF
<1>1. PICK f, g : f = s[1] /\ g = s[j]
  OBVIOUS
<1>2. 1 \in 1..Len(s) /\ 1 < j
  BY DEF QueueOk
<1>3. /\ f.id \in Int /\ g.id \in Int /\ Number(f) \in Int /\ Number(g) \in Int
  BY <1>1, <1>2, QueueNumbered DEF Numbered
<1>4. PICK x \in Int, y \in Int, n \in Int, l \in Int :
        x = f.id /\ y = g.id /\ n = Number(f) /\ l = Number(g)
  BY <1>3
<1>5. ~Tells(f) /\ Data(f) /\ Data(g) /\ n # x
  <2>1. MsgOk(s[1], w, A, R, T)
    BY <1>2 DEF QueueOk
  <2>2. n # x
    BY <1>1, <1>4, <2>1 DEF MsgOk, Coded
  <2> QED BY <1>1, <2>2 DEF Tells, Data
<1>6. n <= l /\ Cap(f) <= y
  <2>1. Follows(s[1], s[j], A)
    BY <1>2 DEF QueueOk
  <2> QED BY <1>1, <1>4, <1>5, <2>1 DEF Follows
<1>7. ASSUME y = x PROVE Before(Key(f), Key(g)) \/ y < k
  <2>1. CASE g.retry
    <3>1. A = 0 /\ l <= y
      BY <1>1, <1>4, <2>1 DEF Retried
    <3>2. x < n \/ (x = k /\ k <= n)
      BY <1>1, <1>4, <3>1
    <3> QED BY <1>5, <1>6, <1>7, <3>1, <3>2
  <2>2. CASE ~g.retry
    <3>1. Fresh(s[j], s[1].id)
      BY <1>1, <1>4, <1>7, <2>2 DEF Fresh
    <3>2. Parts(f, g)
      BY <1>1, <1>2, <3>1 DEF QueueOk
    <3>3. f.sub < g.sub
      BY <3>2 DEF Parts
    <3> QED BY <1>4, <1>7, <3>3, BeforeKey
  <2> QED BY <2>1, <2>2
<1>8. ASSUME x < y PROVE Before(Key(f), Key(g))
  BY <1>4, <1>8, BeforeKey
<1>9. y < x => y < k
  <2>1. Cap(f) = IF n <= x THEN n ELSE x
    BY <1>4, <1>5 DEF Cap
  <2>2. CASE x < n
    BY <1>6, <2>1, <2>2
  <2>3. CASE x = k
    BY <2>3
  <2> QED BY <1>1, <1>4, <2>2, <2>3
<1> QED BY <1>1, <1>4, <1>7, <1>8, <1>9

(* It is passed up at once: nothing is stored. *)
LEMMA OrderedPass ==
  ASSUME NEW u, NEW h, NEW s, NEW w, NEW A, NEW R, NEW T, FwOk(w, A, R),
         QueueOk(h, s, w, A, R, T), Retried(s, A), s # <<>>, s[1].type = "frame",
         NEW k \in Nums, NEW b, Ordered(u, k, s, w, R, b), k <= s[1].id,
         s[1].id < Number(s[1]) \/ s[1].id = k,
         A = 0 /\ s[1].id = k => k <= Number(s[1]),
         NEW m \in Nums, k <= m, WholeMpdu(s[1]) => s[1].id < m,
         NEW c, Entries(c), Held(c) = {}
  PROVE  Ordered(u \o Keys(<<s[1]>>), m, Tail(s), w, R, c)
PROOF
<1>1. PICK f, t, v : f = s[1] /\ t = Tail(s) /\ v = <<f>>
  OBVIOUS
<1>2. /\ 1 \in 1..Len(s) /\ IsSeq(s)
      /\ \A j \in 1..Len(t) : j + 1 \in 1..Len(s) /\ t[j] = s[j + 1] /\ j + 1 # 1
  <2>1. IsSeq(s)
    BY DEF QueueOk
  <2>2. /\ Len(s) \in Nat /\ Len(s) >= 1 /\ Len(t) = Len(s) - 1
        /\ \A j \in 1..(Len(s) - 1) : t[j] = s[j + 1]
    BY <1>1, <2>1, TailAt
  <2> QED BY <2>1, <2>2
<1>3. \A j \in 1..Len(s) : s[j].type = "frame" => s[j].id \in Int
  BY QueueNumbered
<1>4. k \in Int /\ m \in Int /\ w \in Int /\ f.id \in Int /\ Number(f) \in Int
  BY <1>1, <1>2, <1>3, QueueNumbered, NumsFacts DEF FwOk, Numbered
<1>5. f.id \in R /\ Number(f) <= w
  <2>1. MsgOk(f, w, A, R, T)
    BY <1>1, <1>2 DEF QueueOk
  <2> QED BY <1>1, <2>1 DEF MsgOk, Data
<1>6. /\ IsSeq(v) /\ Len(v) = 1 /\ Msgs(v) = {f} /\ Rising(v)
  <2>1. IsSeq(v) /\ Len(v) = 1 /\ Msgs(v) = {f}
    BY <1>1, MsgsSingle, AppendAt, EmptyFacts
  <2> QED BY <2>1 DEF Rising
<1>7. Sorted(u) /\ \A x \in Msgs(u) : Behind(x, k, s, w, R, b)
  BY DEF Ordered
<1>8. \A x \in Msgs(u) : Before(x, Key(f))
  BY <1>1, <1>2, <1>4, OrderedFirst
<1>9. Sorted(u \o Keys(v)) /\ Msgs(u \o Keys(v)) = Msgs(u) \cup {Key(f)}
  <2>1. \A x \in Msgs(u), g \in Msgs(v) : Before(x, Key(g))
    BY <1>6, <1>8
  <2>2. {Key(g) : g \in Msgs(v)} = {Key(f)}
    BY <1>6
  <2> QED BY <1>6, <1>7, <2>1, <2>2, SortedMore
<1>10. ASSUME NEW x \in Msgs(u) PROVE Behind(x, m, t, w, R, c)
  <2>1. Behind(x, k, s, w, R, b) /\ R \subseteq Ids
    BY <1>7 DEF FwOk
  <2>2. x[1] \in Int
    <3>1. x[1] \in Ids
      BY <2>1 DEF Behind
    <3> QED BY <3>1, Numbers
  <2>3. x[1] < w \/ x[1] <= m
    BY <1>4, <2>1, <2>2 DEF Behind
  <2>4. \A j \in 1..Len(t) : t[j].type = "frame" => Before(x, Key(t[j])) \/ t[j].id < m
    <3> TAKE j \in 1..Len(t)
    <3> SUFFICES ASSUME t[j].type = "frame" PROVE Before(x, Key(t[j])) \/ t[j].id < m
      OBVIOUS
    <3>1. PICK n \in Int : n = t[j].id
      BY <1>2, <1>3
    <3>2. Before(x, Key(t[j])) \/ n < k
      BY <1>2, <2>1, <3>1 DEF Behind
    <3> QED BY <1>4, <3>1, <3>2
  <2> QED BY <2>1, <2>3, <2>4 DEF Behind
<1>11. Behind(Key(f), m, t, w, R, c)
  <2>1. PICK x \in Int : x = f.id /\ Key(f)[1] = x
    BY <1>4, BeforeKey
  <2>2. x < w \/ x <= m
    BY <1>1, <1>4, <1>5, <2>1
  <2>3. \A j \in 1..Len(t) : t[j].type = "frame" => Before(Key(f), Key(t[j])) \/ t[j].id < m
    <3> TAKE j \in 1..Len(t)
    <3> SUFFICES ASSUME t[j].type = "frame" PROVE Before(Key(f), Key(t[j])) \/ t[j].id < m
      OBVIOUS
    <3>1. PICK l \in Int : l = t[j].id
      BY <1>2, <1>3
    <3>2. CASE WholeMpdu(f)
      <4>1. x < l \/ l < m
        BY <1>1, <1>4, <2>1, <3>2
      <4> QED BY <2>1, <3>1, <4>1, BeforeKey
    <3>3. CASE ~WholeMpdu(f)
      <4>1. PICK i \in 1..Len(s) : i # 1 /\ t[j] = s[i]
        BY <1>2
      <4>2. Before(Key(s[1]), Key(s[i])) \/ s[i].id < k
        BY <1>1, <1>4, <3>3, <4>1, PartFollows
      <4> QED BY <1>1, <1>4, <3>1, <4>1, <4>2
    <3> QED BY <3>2, <3>3
  <2> QED BY <1>5, <2>1, <2>2, <2>3 DEF Behind
<1>12. \A x \in Msgs(u \o Keys(v)) : Behind(x, m, t, w, R, c)
  BY <1>9, <1>10, <1>11
<1> QED BY <1>1, <1>9, <1>12 DEF Ordered

(* iwl_mvm_reorder keeps the order. *)
LEMMA ReorderOrdered ==
  ASSUME Short, NEW h \in Nums, NEW s, NEW w, NEW A, NEW R, NEW T, T \subseteq Subframes, NEW b,
         FwOk(w, A, R), QueueOk(h, s, w, A, R, T), BufOk(h, s, w, A, R, T, b), Retried(s, A),
         s # <<>>, s[1].type = "frame", NEW u, Ordered(u, h, s, w, R, b)
  PROVE  LET r == Reorder(b, s[1])
         IN  \E m \in Nums : /\ Windowed(r.buf, m)
                             /\ Ordered(u \o Keys(r.up), m, Tail(s), w, R, r.buf)
PROOF
<1>1. PICK f, n : f = s[1] /\ n = Number(f)
  OBVIOUS
<1>2. /\ MsgOk(f, w, A, R, T) /\ n \in Int /\ h \in Int /\ f.id \in Int
      /\ (Held(b) = {} \/ n <= h + BufSize)
      /\ Above(f, h - A) /\ h - BufSize <= n /\ h - BufSize <= f.id
      /\ f.type = "frame" /\ Data(f)
  <2>1. Data(s[1])
    BY DEF Data
  <2> QED BY <1>1, <2>1, FirstMsg
<1>3. Coded(f, n) /\ Windowed(b, h) /\ ~f.old /\ BufSize \in Int /\ f.id \in R
  BY <1>1, <1>2, NumsFacts DEF MsgOk, BufOk, Coded
<1>4. w \in Int /\ R \subseteq Ids /\ A \in Int /\ IsSeq(s)
  BY NumsFacts DEF FwOk, QueueOk
<1>5. \A j \in 1..Len(s) : s[j].type = "frame" => s[j].id \in Int
  BY QueueNumbered
<1>6. Entries(b) /\ \A g \in Held(b) : g.id \in R /\ <<g.id, g.sub>> \in T
  BY DEF Ordered, BufOk
<1>7. PICK a : a = Adjust(b, f)
  OBVIOUS
<1>8. /\ Held(a.buf) \subseteq Held(b)
      /\ \E k \in Nums :
           /\ Windowed(a.buf, k)
           /\ h <= k /\ f.id < k + BufSize /\ n <= k + BufSize
           /\ k = h \/ (k <= n /\ k <= f.id)
           /\ Released(b, a, k)
  BY <1>2, <1>3, <1>6, <1>7, AdjustWindow
<1>9. PICK k \in Nums :
           /\ Windowed(a.buf, k)
           /\ h <= k /\ f.id < k + BufSize /\ n <= k + BufSize
           /\ k = h \/ (k <= n /\ k <= f.id)
           /\ Released(b, a, k)
  BY <1>8
<1>10. k \in Int /\ k - BufSize <= n
  <2>1. k \in Int
    BY NumsFacts
  <2> QED BY <1>2, <1>3, <1>9, <2>1, NumsFacts
<1>11. PICK y : y = u \o Keys(a.up)
  OBVIOUS
<1>12. Ordered(y, k, s, w, R, a.buf)
  BY <1>3, <1>4, <1>5, <1>6, <1>8, <1>9, <1>11, OrderedRelease
<1>13. PICK p, d : p = Place(d, f) /\ d = a.buf
  OBVIOUS
<1>14. \E m \in Nums : Windowed(p.buf, m) /\ k <= m /\ Placing(d, f, n, k, m)
  BY <1>3, <1>9, <1>10, <1>13, PlaceWindow
<1>15. PICK m \in Nums : Windowed(p.buf, m) /\ k <= m /\ Placing(d, f, n, k, m)
  BY <1>14
<1>16. m \in Int
  BY NumsFacts
<1>17. /\ Windowed(d, k) /\ Entries(d) /\ \A g \in Held(d) : g.id \in R /\ <<g.id, g.sub>> \in T
       /\ Ordered(y, k, s, w, R, d)
  BY <1>6, <1>8, <1>9, <1>12, <1>13 DEF Released
<1>18. IsSeq(p.up) /\ Ordered(y \o Keys(p.up), m, Tail(s), w, R, p.buf)
  <2>1. ASSUME NEW c, Windowed(c, k), Ordered(y, k, s, w, R, c), \A g \in Held(c) : g.id \in R,
               Held(p.buf) \subseteq Held(c), Released(c, p, m)
        PROVE  IsSeq(p.up) /\ Ordered(y \o Keys(p.up), m, Tail(s), w, R, p.buf)
    <3>1. PICK z : z = y \o Keys(p.up)
      OBVIOUS
    <3>2. Ordered(z, m, s, w, R, p.buf)
      BY <1>4, <1>5, <1>15, <2>1, <3>1, OrderedRelease
    <3>3. Ordered(z, m, Tail(s), w, R, p.buf)
      BY <1>4, <3>2, OrderedPop
    <3> QED BY <2>1, <3>1, <3>3 DEF Released, Rising
  <2>2. CASE m = k /\ p = [buf |-> d, up |-> <<>>, sync |-> <<>>]
    <3>1. Released(d, p, m)
      BY <1>17, <2>2, RisingNone, MsgsEmpty DEF Released
    <3> QED BY <1>17, <2>1, <2>2, <3>1
  <2>3. CASE /\ k <= f.id /\ Held(d) = {} /\ p = PassUp(d, f, m % SnMod)
             /\ f.id < n \/ f.id = k
             /\ WholeMpdu(f) => f.id < m
    <3>1. p.up = <<f>> /\ p.buf = [d EXCEPT !.head = m % SnMod]
      BY <2>3 DEF PassUp
    <3>2. p.buf.entries = d.entries /\ p.buf.lastAmsdu = d.lastAmsdu /\ p.buf.lastSub = d.lastSub
      BY <1>17, <3>1 DEF Windowed, Shape, Fields
    <3>3. Held(p.buf) = {} /\ Entries(p.buf)
      <4>1. Held(p.buf) = Held(d)
        BY <3>2 DEF Held
      <4> QED BY <1>17, <2>3, <3>2, <4>1 DEF Entries
    <3>4. A = 0 /\ f.id = k => k <= n
      <4>1. A = 0 => h <= n
        BY <1>1, <1>2 DEF Above
      <4> QED BY <1>9, <4>1
    <3>5. Ordered(y \o Keys(<<f>>), m, Tail(s), w, R, p.buf)
      BY <1>1, <1>15, <1>17, <2>3, <3>3, <3>4, OrderedPass
    <3> QED BY <3>1, <3>5, MsgsSingle
  <2>4. ASSUME k <= f.id, ~Taken(d, f)
        PROVE  LET c == WithFrame(d, f)
               IN  /\ Ordered(y, k, s, w, R, c) /\ Windowed(c, k) /\ \A g \in Held(c) : g.id \in R
    <3>1. PICK c : c = WithFrame(d, f)
      OBVIOUS
    <3>2. Ordered(y, k, s, w, R, c) /\ Windowed(c, k) /\ Held(c) \subseteq Held(d) \cup {f}
      <4>1. /\ \A g \in Held(d) : <<g.id, g.sub>> \in T
            /\ MsgOk(s[1], w, A, R, T) /\ k <= s[1].id /\ s[1].id < k + BufSize
            /\ ~Taken(d, s[1])
        BY <1>1, <1>2, <1>9, <1>17, <2>4
      <4>2. /\ Ordered(y, k, s, w, R, WithFrame(d, s[1])) /\ Windowed(WithFrame(d, s[1]), k)
            /\ Held(WithFrame(d, s[1])) \subseteq Held(d) \cup {s[1]}
        BY <1>4, <1>17, <4>1, OrderedStore
      <4> QED BY <1>1, <3>1, <4>2
    <3> QED BY <1>3, <1>17, <3>1, <3>2
  <2>5. CASE /\ k <= f.id /\ ~Taken(d, f) /\ m = k
             /\ p = [buf |-> WithFrame(d, f), up |-> <<>>, sync |-> <<>>]
    <3>1. PICK c : c = WithFrame(d, f)
      OBVIOUS
    <3>2. Ordered(y, k, s, w, R, c) /\ Windowed(c, k) /\ \A g \in Held(c) : g.id \in R
      BY <2>4, <2>5, <3>1
    <3>3. p = [buf |-> c, up |-> <<>>, sync |-> <<>>]
      BY <2>5, <3>1
    <3>4. Released(c, p, m)
      BY <3>2, <3>3, RisingNone, MsgsEmpty DEF Released, Ordered
    <3> QED BY <2>1, <2>5, <3>2, <3>3, <3>4
  <2>6. CASE /\ k <= f.id /\ ~Taken(d, f) /\ n <= m
             /\ p = ReleaseFrames(WithFrame(d, f), n % SnMod, {"send"})
    <3>1. PICK c, S : c = WithFrame(d, f) /\ S = {"send"}
      OBVIOUS
    <3>2. Ordered(y, k, s, w, R, c) /\ Windowed(c, k) /\ \A g \in Held(c) : g.id \in R
      BY <2>4, <2>6, <3>1
    <3>3. p = ReleaseFrames(c, n % SnMod, S)
      BY <2>6, <3>1
    <3>4. /\ Entries(c) /\ n \in Nums /\ k - BufSize <= n
          /\ n <= k + BufSize
      BY <1>3, <1>9, <1>10, <3>2 DEF Ordered, Coded
    <3>5. /\ Entries(p.buf) /\ Rising(p.up)
          /\ \A g \in Msgs(p.up) : g \in Held(c) /\ g.id < n
      BY <3>2, <3>3, <3>4, ReleaseUp
    <3>6. \A g \in Msgs(p.up) : g.id < m
      <4> TAKE g \in Msgs(p.up)
      <4>1. g.id < n /\ g \in Held(c)
        BY <3>5
      <4>2. PICK x \in Int : x = g.id
        BY <3>2, <4>1, HeldIds
      <4> QED BY <1>2, <1>16, <2>6, <4>1, <4>2
    <3>7. Released(c, p, m)
      BY <3>5, <3>6 DEF Released
    <3>8. Held(p.buf) \subseteq Held(c)
      <4>1. Shape(c)
        BY <3>2 DEF Windowed
      <4>2. Fewer(c, p.buf) /\ p.buf.lastAmsdu = c.lastAmsdu /\ p.buf.lastSub = c.lastSub
        BY <3>3, <4>1, ReleaseFewer
      <4> QED BY <3>4, <4>2, EntriesFewer
    <3> QED BY <2>1, <3>2, <3>7, <3>8
  <2> QED BY <1>13, <1>15, <2>2, <2>3, <2>5, <2>6 DEF Placing
<1>19. Reorder(b, f).buf = p.buf /\ Reorder(b, f).up = a.up \o p.up
  BY <1>3, <1>7, <1>13 DEF Reorder
<1>20. u \o Keys(a.up \o p.up) = y \o Keys(p.up)
  <2>1. IsSeq(u) /\ IsSeq(a.up)
    BY <1>9 DEF Ordered, Sorted, Released, Rising
  <2> QED BY <1>11, <1>18, <2>1, KeysConcat
<1>21. PICK r : r = Reorder(b, f)
  OBVIOUS
<1>22. Ordered(u \o Keys(r.up), m, Tail(s), w, R, r.buf)
  BY <1>18, <1>19, <1>20, <1>21
<1> QED BY <1>1, <1>15, <1>19, <1>21, <1>22

LEMMA FwFacts ==
  ASSUME NEW w, NEW A, NEW R, FwOk(w, A, R)
  PROVE  w \in Int /\ A \in Int /\ R \subseteq Ids /\ w \notin R /\ \A x \in R : x \in Int
PROOF
<1>1. w \in Nums /\ A \in {0, BufSize} /\ R \subseteq Ids /\ w \notin R
  BY DEF FwOk
<1>2. w \in Int /\ A \in Int
  BY <1>1, NumsFacts
<1> QED BY <1>1, <1>2, Numbers

LEMMA BufFacts ==
  ASSUME NEW h, NEW s, NEW w, NEW A, NEW R, NEW T, NEW b, BufOk(h, s, w, A, R, T, b)
  PROVE  Windowed(b, h) /\ h <= w + A /\ \A g \in Held(b) : g.id \in R /\ <<g.id, g.sub>> \in T
PROOF BY DEF BufOk

(* The firmware gives the queue more. *)
LEMMA OrderedPush ==
  ASSUME NEW u, NEW h \in Nums, NEW s, NEW w, NEW v, NEW A, NEW R, NEW Q, NEW T, NEW t, NEW b,
         FwOk(w, A, R), FwOk(v, A, Q), QueueOk(h, s, w, A, R, T), Given(t, w, v, A, R, Q, T),
         Ordered(u, h, s, w, R, b), h <= w + A,
         \A j \in 1..Len(t) : t[j].type = "frame" /\ t[j].retry => A = 0
  PROVE  Ordered(u, h, s \o t, v, Q, b)
PROOF
<1>1. IsSeq(s) /\ IsSeq(t) /\ w \in Int /\ v \in Int /\ w <= v /\ R \subseteq Q /\ h \in Int
      /\ R \subseteq Ids /\ w \notin R /\ \A x \in R : x \in Int
  <2>1. IsSeq(s) /\ IsSeq(t) /\ w <= v /\ R \subseteq Q /\ v \in Int
    BY FwFacts DEF QueueOk, Given
  <2>2. h \in Int
    BY NumsFacts
  <2>3. w \in Int /\ R \subseteq Ids /\ w \notin R /\ \A x \in R : x \in Int
    BY FwFacts
  <2> QED BY <2>1, <2>2, <2>3
<1>2. ASSUME NEW x \in Msgs(u) PROVE Behind(x, h, s \o t, v, Q, b)
  <2>1. Behind(x, h, s, w, R, b)
    BY DEF Ordered
  <2>2. PICK i \in Int : i = x[1] /\ i \in R /\ (i < w \/ i <= h)
    <3>1. x[1] \in R /\ (x[1] < w \/ x[1] <= h)
      BY <2>1 DEF Behind
    <3>2. x[1] \in Int
      BY <1>1, <3>1
    <3> QED BY <3>1, <3>2
  <2>3. ASSUME NEW j \in 1..Len(t), t[j].type = "frame"
        PROVE  Before(x, Key(t[j])) \/ t[j].id < h
    <3>1. /\ MsgOk(t[j], v, A, Q, T) /\ w <= t[j].id
          /\ IF t[j].retry THEN v = w /\ t[j].id \in R ELSE t[j].id \notin R
      BY <2>3 DEF Given
    <3>2. PICK d \in Int : d = t[j].id
      <4>1. t[j].id \in Ids
        BY <2>3, <3>1 DEF MsgOk, Coded
      <4> QED BY <4>1, Numbers
    <3>3. i < d \/ d < h
      <4>1. CASE t[j].retry
        <5>1. A = 0 /\ h <= w
          BY <1>1, <2>3, <4>1
        <5>2. i # w
          BY <1>1, <2>2
        <5> QED BY <1>1, <2>2, <3>1, <3>2, <5>1, <5>2
      <4>2. CASE ~t[j].retry
        <5>1. d # i
          BY <2>2, <3>1, <3>2, <4>2
        <5> QED BY <1>1, <2>2, <3>1, <3>2, <5>1
      <4> QED BY <4>1, <4>2
    <3> QED BY <2>2, <3>2, <3>3, BeforeKey
  <2>4. ASSUME NEW j \in 1..Len(s \o t), (s \o t)[j].type = "frame"
        PROVE  Before(x, Key((s \o t)[j])) \/ (s \o t)[j].id < h
    <3>1. \/ j \in 1..Len(s) /\ (s \o t)[j] = s[j]
          \/ \E k \in 1..Len(t) : j = Len(s) + k /\ (s \o t)[j] = t[k]
      BY <1>1, PlaceAt
    <3>2. CASE j \in 1..Len(s) /\ (s \o t)[j] = s[j]
      BY <2>1, <2>4, <3>2 DEF Behind
    <3>3. CASE \E k \in 1..Len(t) : (s \o t)[j] = t[k]
      BY <2>3, <2>4, <3>3
    <3> QED BY <3>1, <3>2, <3>3
  <2>5. x[1] \in Q /\ (x[1] < v \/ x[1] <= h)
    BY <1>1, <2>2
  <2> QED BY <2>1, <2>4, <2>5 DEF Behind
<1> QED BY <1>2 DEF Ordered

(* A message that is no frame. *)
LEMMA OrderedAppend ==
  ASSUME NEW u, NEW h, NEW s, IsSeq(s), NEW w, NEW R, NEW b, NEW m, m.type # "frame",
         Ordered(u, h, s, w, R, b)
  PROVE  Ordered(u, h, Append(s, m), w, R, b)
PROOF
<1>1. PICK t : t = Append(s, m)
  OBVIOUS
<1>2. \A j \in 1..Len(t) : (j \in 1..Len(s) /\ t[j] = s[j]) \/ t[j] = m
  BY <1>1, AppendAt
<1>3. ASSUME NEW x \in Msgs(u) PROVE Behind(x, h, t, w, R, b)
  <2>1. Behind(x, h, s, w, R, b)
    BY DEF Ordered
  <2> QED BY <1>2, <2>1 DEF Behind
<1> QED BY <1>1, <1>3 DEF Ordered

(* Fields of the buffer that are not about the order. *)
LEMMA OrderedSame ==
  ASSUME NEW u, NEW h, NEW s, NEW w, NEW R, NEW b, Ordered(u, h, s, w, R, b), NEW c,
         c.entries = b.entries, c.lastAmsdu = b.lastAmsdu, c.lastSub = b.lastSub
  PROVE  Ordered(u, h, s, w, R, c)
PROOF
<1>1. Held(c) = Held(b)
  BY DEF Held
<1>2. Entries(c)
  BY <1>1 DEF Ordered, Entries
<1> QED BY <1>1, <1>2 DEF Ordered, Behind

(* The reorder timer. *)
LEMMA TimerOrdered ==
  ASSUME Short, NEW u, NEW h \in Nums, NEW s, NEW w, NEW A, NEW R, NEW T, NEW b, FwOk(w, A, R),
         QueueOk(h, s, w, A, R, T), BufOk(h, s, w, A, R, T, b), Ordered(u, h, s, w, R, b)
  PROVE  LET r == TimerExpired(b)
         IN  \E k \in Nums : Windowed(r.buf, k) /\ Ordered(u \o Keys(r.up), k, s, w, R, r.buf)
PROOF
<1>1. PICK r : r = TimerExpired(b)
  OBVIOUS
<1>2. Windowed(b, h) /\ (\A g \in Held(b) : g.id \in R) /\ Entries(b) /\ w \in Int /\ R \subseteq Ids
  BY BufFacts, FwFacts DEF Ordered
<1>3. \A j \in 1..Len(s) : s[j].type = "frame" => s[j].id \in Int
  BY QueueNumbered
<1>4. \E k \in Nums : h <= k /\ Windowed(r.buf, k) /\ Held(r.buf) \subseteq Held(b) /\ Released(b, r, k)
  <2>1. CASE \E t : r = [buf |-> [b EXCEPT !.timer = t], up |-> <<>>, sync |-> <<>>]
    <3>1. PICK t : r = [buf |-> [b EXCEPT !.timer = t], up |-> <<>>, sync |-> <<>>]
      BY <2>1
    <3>2. PICK c : c = r.buf
      OBVIOUS
    <3>3. /\ c = [x \in Fields |-> c[x]]
          /\ c.head = b.head /\ c.num = b.num /\ c.entries = b.entries
          /\ c.lastAmsdu = b.lastAmsdu /\ c.lastSub = b.lastSub
      BY <1>2, <3>1, <3>2 DEF Windowed, Shape, Fields
    <3>4. Windowed(c, h) /\ Held(c) = Held(b)
      BY <1>2, <3>3, WindowedSame
    <3>5. Entries(c)
      BY <1>2, <3>3, <3>4 DEF Entries
    <3>6. r.up = <<>> /\ h <= h
      BY <3>1, NumsFacts
    <3>7. Released(b, r, h)
      BY <3>2, <3>5, <3>6, RisingNone, MsgsEmpty DEF Released
    <3> QED BY <3>2, <3>4, <3>6, <3>7
  <2>2. CASE \E k \in Nums : /\ r = ReleaseFrames(b, k % SnMod, {"send"})
                            /\ h < k /\ k <= h + BufSize
    <3>1. PICK k \in Nums, S \in {{"send"}} :
                /\ r = ReleaseFrames(b, k % SnMod, S) /\ S = {"send"}
                /\ h < k /\ k <= h + BufSize
      BY <2>2
    <3>2. h \in Int /\ k \in Int /\ BufSize \in Int /\ BufSize >= 1 /\ h - BufSize <= k /\ ~(k <= h)
      <4>1. h \in Int /\ k \in Int /\ BufSize \in Int /\ BufSize >= 1
        BY NumsFacts
      <4> QED BY <3>1, <4>1
    <3>3. Windowed(r.buf, k) /\ Held(r.buf) \subseteq Held(b)
      BY <1>2, <3>1, <3>2, ReleaseWindow
    <3>4. /\ Entries(r.buf) /\ Rising(r.up) /\ \A g \in Msgs(r.up) : g \in Held(b) /\ g.id < k
      BY <1>2, <3>1, <3>2, ReleaseUp
    <3> QED BY <3>1, <3>2, <3>3, <3>4 DEF Released
  <2> QED BY <1>1, <1>2, <2>1, <2>2, TimerCases
<1>5. PICK k \in Nums : h <= k /\ Windowed(r.buf, k) /\ Held(r.buf) \subseteq Held(b) /\ Released(b, r, k)
  BY <1>4
<1>6. Ordered(u \o Keys(r.up), k, s, w, R, r.buf)
  BY <1>2, <1>3, <1>5, OrderedRelease
<1> QED BY <1>1, <1>5, <1>6

(* A frame release notification or an NSSN message. *)
LEMMA ReleaseOrdered ==
  ASSUME Short, NEW u, NEW h \in Nums, NEW s, NEW w, NEW A, NEW R, NEW T, NEW b, FwOk(w, A, R),
         QueueOk(h, s, w, A, R, T), BufOk(h, s, w, A, R, T, b), Ordered(u, h, s, w, R, b),
         s # <<>>, NEW flags, s[1].type = "sync" => "from" \in flags, s[1].type # "frame"
  PROVE  LET r == ReleaseFrames(b, s[1].nssn, flags)
         IN  \E k \in Nums : Windowed(r.buf, k) /\ Ordered(u \o Keys(r.up), k, Tail(s), w, R, r.buf)
PROOF
<1>1. PICK m, n : m = s[1] /\ n = Number(m)
  OBVIOUS
<1>2. PICK r : r = ReleaseFrames(b, m.nssn, flags)
  OBVIOUS
<1>3. Windowed(b, h) /\ (\A g \in Held(b) : g.id \in R) /\ Entries(b) /\ w \in Int /\ R \subseteq Ids
      /\ IsSeq(s)
  BY BufFacts, FwFacts DEF Ordered, QueueOk
<1>4. \A j \in 1..Len(s) : s[j].type = "frame" => s[j].id \in Int
  BY QueueNumbered
<1>5. /\ MsgOk(m, w, A, R, T) /\ n \in Int /\ h \in Int
      /\ Held(b) = {} \/ n <= h + BufSize
      /\ Data(m) => h - BufSize <= n
  <2>1. /\ MsgOk(s[1], w, A, R, T) /\ Number(s[1]) \in Int /\ h \in Int
        /\ Held(b) = {} \/ Number(s[1]) <= h + BufSize
        /\ Data(s[1]) => h - BufSize <= Number(s[1])
    BY FirstMsg
  <2> QED BY <1>1, <2>1
<1>6. n \in Nums /\ m.nssn = n % SnMod /\ (m.type = "sync" \/ Data(m))
  BY <1>1, <1>5 DEF MsgOk, Data
<1>7. ("from" \in flags \/ h - BufSize <= n) /\ r = ReleaseFrames(b, n % SnMod, flags)
  BY <1>1, <1>2, <1>5, <1>6
<1>8. PICK k : k = IF n <= h THEN h ELSE n
  OBVIOUS
<1>9. k \in Nums /\ h <= k /\ n <= k
  BY <1>5, <1>6, <1>8
<1>10. Windowed(r.buf, k) /\ Held(r.buf) \subseteq Held(b)
  BY <1>3, <1>5, <1>6, <1>7, <1>8, ReleaseWindow
<1>11. /\ Entries(r.buf) /\ Rising(r.up) /\ \A g \in Msgs(r.up) : g \in Held(b) /\ g.id < n
  BY <1>3, <1>5, <1>6, <1>7, ReleaseUp
<1>12. \A g \in Msgs(r.up) : g.id < k
  <2> TAKE g \in Msgs(r.up)
  <2>1. g \in Held(b) /\ g.id < n
    BY <1>11
  <2>2. PICK x \in Int : x = g.id
    BY <1>3, <2>1, HeldIds
  <2> QED BY <1>5, <1>8, <1>9, <2>1, <2>2, NumsFacts
<1>13. Released(b, r, k)
  BY <1>11, <1>12 DEF Released
<1>14. PICK y : y = u \o Keys(r.up)
  OBVIOUS
<1>15. Ordered(y, k, s, w, R, r.buf)
  BY <1>3, <1>4, <1>9, <1>10, <1>13, <1>14, OrderedRelease
<1>16. Ordered(y, k, Tail(s), w, R, r.buf)
  BY <1>3, <1>15, OrderedPop
<1> QED BY <1>1, <1>2, <1>9, <1>10, <1>14, <1>16

-----------------------------------------------------------------------------
(* The order of what is passed up *)

Calm == Undisturbed /\ (timedOut => budget.retries = 0)

(* A frame that comes again is the work of a retransmission, and at or     *)
(* beyond the NSSN it brings.                                              *)
Again(s, n) ==
  \A j \in 1..Len(s) : s[j].type = "frame" /\ s[j].retry => n > 0 /\ Number(s[j]) <= s[j].id

Orders ==
  /\ up = [q \in Queues |-> up[q]]
  /\ \A q \in Queues : Again(rxq[q], budget.retries)
  /\ ~mapped => \A q \in Queues : up[q] = <<>>
  /\ mapped => \A q \in Queues : \E h \in Nums :
       Windowed(buf[q], h) /\ Ordered(up[q], h, rxq[q], fwNssn, rcvd, buf[q])

OrderInv == Calm => Orders

(* The window, the queue and the order are about the same head. *)
LEMMA OneHead ==
  ASSUME Short, Windows, Orders, mapped, NEW q \in Queues
  PROVE  \E h \in Nums : /\ QueueOk(h, rxq[q], fwNssn, Ahead, rcvd, Share(q))
                         /\ BufOk(h, rxq[q], fwNssn, Ahead, rcvd, Share(q), buf[q])
                         /\ Ordered(up[q], h, rxq[q], fwNssn, rcvd, buf[q])
PROOF
<1>1. PICK h \in Nums : /\ QueueOk(h, rxq[q], fwNssn, Ahead, rcvd, Share(q))
                        /\ BufOk(h, rxq[q], fwNssn, Ahead, rcvd, Share(q), buf[q])
  BY DEF Windows
<1>2. PICK g \in Nums : Windowed(buf[q], g) /\ Ordered(up[q], g, rxq[q], fwNssn, rcvd, buf[q])
  BY DEF Orders
<1>3. h % SnMod = g % SnMod
  BY <1>1, <1>2 DEF BufOk, Windowed
<1>4. h = g
  BY <1>3, WindowIs
<1> QED BY <1>1, <1>2, <1>4

(* What is passed up before the session is mapped: nothing. *)
LEMMA QuietUp ==
  ASSUME NEW q \in Queues, NEW u, u = [p \in Queues |-> <<>>]
  PROVE  [u EXCEPT ![q] = @ \o [k \in 1..Len(Quiet(q).up) |-> Key(Quiet(q).up[k])]] = u
PROOF
<1>1. Len(<<>>) = 0 /\ Quiet(q).up = <<>>
  BY EmptyFacts DEF Quiet
<1>2. [k \in 1..0 |-> Key(<<>>[k])] = <<>>
  OBVIOUS
<1>3. <<>> \o <<>> = <<>>
  OBVIOUS
<1> QED BY <1>1, <1>2, <1>3

LEMMA GivesOrders ==
  ASSUME Short, TypedInv, Windows, Faults, Orders, Gives, up' = up, [Next]_vars, Calm'
  PROVE  Orders'
PROOF
<1>1. PICK w, v, A, R, Q, n, l : /\ w = fwNssn /\ v = fwNssn' /\ A = Ahead /\ R = rcvd /\ Q = rcvd'
                                 /\ n = budget.retries /\ l = budget'.retries
  OBVIOUS
<1>2. UNCHANGED <<buf, mapped, timedOut>> /\ FwOk(w, A, R) /\ FwOk(v, A, Q)
  BY <1>1 DEF Gives, Windows
<1>3. n \in Nat /\ l \in Nat /\ n <= l
  BY <1>1, Recorded
<1>4. l > 0 => A = 0
  BY <1>1, <1>2, <1>3 DEF Calm, Ahead
<1>5. ASSUME NEW q \in Queues
      PROVE  /\ Again(rxq'[q], l)
             /\ mapped => \E h \in Nums : Windowed(buf[q], h) /\ Ordered(up[q], h, rxq'[q], v, Q, buf[q])
  <2>1. PICK s, T : s = rxq[q] /\ T = Share(q)
    OBVIOUS
  <2>2. PICK t : /\ rxq'[q] = s \o t /\ Given(t, w, v, A, R, Q, T)
                 /\ \A j \in 1..Len(t) : t[j].type = "frame" /\ t[j].retry => l > 0
    BY <1>1, <2>1 DEF Gives
  <2>3. PICK g : QueueOk(g, s, w, A, R, T)
    BY <1>1, <2>1 DEF Windows
  <2>4. IsSeq(s) /\ IsSeq(t)
    BY <2>2, <2>3 DEF QueueOk, Given
  <2>5. Again(s, n)
    BY <1>1, <2>1 DEF Orders
  <2>6. \A j \in 1..Len(t) : t[j].type = "frame" /\ t[j].retry => l > 0 /\ Number(t[j]) <= t[j].id
    BY <2>2 DEF Given
  <2>7. Again(s \o t, l)
    <3> SUFFICES ASSUME NEW j \in 1..Len(s \o t), (s \o t)[j].type = "frame", (s \o t)[j].retry
                 PROVE  l > 0 /\ Number((s \o t)[j]) <= (s \o t)[j].id
      BY DEF Again
    <3>1. \/ j \in 1..Len(s) /\ (s \o t)[j] = s[j]
          \/ \E k \in 1..Len(t) : j = Len(s) + k /\ (s \o t)[j] = t[k]
      BY <2>4, PlaceAt
    <3>2. CASE j \in 1..Len(s) /\ (s \o t)[j] = s[j]
      <4>1. n > 0 /\ Number(s[j]) <= s[j].id
        BY <2>5, <3>2 DEF Again
      <4> QED BY <1>3, <3>2, <4>1
    <3>3. CASE \E k \in 1..Len(t) : (s \o t)[j] = t[k]
      BY <2>6, <3>3
    <3> QED BY <3>1, <3>2, <3>3
  <2>8. ASSUME mapped
        PROVE  \E h \in Nums : Windowed(buf[q], h) /\ Ordered(up[q], h, s \o t, v, Q, buf[q])
    <3>1. PICK b, u : b = buf[q] /\ u = up[q]
      OBVIOUS
    <3>2. PICK h \in Nums : /\ QueueOk(h, s, w, A, R, T) /\ BufOk(h, s, w, A, R, T, b)
                            /\ Ordered(u, h, s, w, R, b)
      BY <1>1, <2>1, <2>8, <3>1, OneHead
    <3>3. Windowed(b, h) /\ h <= w + A
      BY <3>2 DEF BufOk
    <3>4. \A j \in 1..Len(t) : t[j].type = "frame" /\ t[j].retry => A = 0
      BY <1>4, <2>2
    <3>5. Ordered(u, h, s \o t, v, Q, b)
      BY <1>2, <2>2, <3>2, <3>3, <3>4, OrderedPush
    <3> QED BY <3>1, <3>3, <3>5
  <2> QED BY <2>2, <2>7, <2>8
<1> QED BY <1>1, <1>2, <1>5 DEF Orders

LEMMA TriggerOrders ==
  ASSUME Short, TypedInv, Windows, Orders, Trigger
  PROVE  Orders'
PROOF
<1>1. PICK m : m = Head(cmds)
  OBVIOUS
<1>2. /\ UNCHANGED <<buf, mapped, fwNssn, rcvd, budget, up>>
      /\ cmds # <<>> /\ rxq' = [q \in Queues |-> Append(rxq[q], m)]
  BY <1>1 DEF Trigger, bufVars, ctlVars, fwVars, histVars
<1>3. m.type # "frame"
  <2>1. m \in Msgs(cmds)
    BY <1>1, <1>2, MsgsTail DEF TypedInv
  <2>2. m.type = "sync"
    BY <2>1 DEF Windows
  <2> QED BY <2>2
<1>4. ASSUME NEW q \in Queues
      PROVE  /\ Again(rxq'[q], budget.retries)
             /\ mapped => \E h \in Nums : Windowed(buf[q], h)
                                          /\ Ordered(up[q], h, rxq'[q], fwNssn, rcvd, buf[q])
  <2>1. PICK s, t : s = rxq[q] /\ t = Append(s, m) /\ rxq'[q] = t
    BY <1>2
  <2>2. IsSeq(s) /\ Again(s, budget.retries)
    BY <2>1 DEF TypedInv, Orders
  <2>3. \A j \in 1..Len(t) : (j \in 1..Len(s) /\ t[j] = s[j]) \/ t[j] = m
    BY <2>1, <2>2, AppendAt
  <2>4. Again(t, budget.retries)
    BY <1>3, <2>2, <2>3 DEF Again
  <2>5. ASSUME mapped
        PROVE  \E h \in Nums : Windowed(buf[q], h) /\ Ordered(up[q], h, t, fwNssn, rcvd, buf[q])
    <3>1. PICK u, w, R, b : u = up[q] /\ w = fwNssn /\ R = rcvd /\ b = buf[q]
      OBVIOUS
    <3>2. PICK h \in Nums : Windowed(b, h) /\ Ordered(u, h, s, w, R, b)
      BY <2>1, <2>5, <3>1 DEF Orders
    <3>3. Ordered(u, h, t, w, R, b)
      BY <1>3, <2>1, <2>2, <3>2, OrderedAppend
    <3> QED BY <3>1, <3>2, <3>3
  <2> QED BY <2>1, <2>4, <2>5
<1> QED BY <1>2, <1>4 DEF Orders

(* What a handler of queue q leaves behind. *)
LEMMA AppliedOrders ==
  ASSUME BufInv, Orders, mapped, NEW q \in Queues, NEW r, Apply(q, r),
         UNCHANGED <<mapped, fwNssn, rcvd, budget>>,
         \A p \in Queues \ {q} : rxq'[p] = rxq[p], Again(rxq'[q], budget.retries),
         NEW g \in Nums, Windowed(r.buf, g),
         Ordered(up[q] \o Keys(r.up), g, rxq'[q], fwNssn, rcvd, r.buf)
  PROVE  Orders'
PROOF
<1>1. /\ buf'[q] = r.buf /\ \A p \in Queues \ {q} : buf'[p] = buf[p]
  BY DEF Apply, BufInv
<1>2. /\ up' = [p \in Queues |-> up'[p]] /\ up'[q] = up[q] \o Keys(r.up)
      /\ \A p \in Queues \ {q} : up'[p] = up[p]
  BY DEF Apply, Orders, Keys
<1>3. ASSUME NEW p \in Queues
      PROVE  /\ Again(rxq'[p], budget.retries)
             /\ \E h \in Nums : Windowed(buf'[p], h)
                                /\ Ordered(up'[p], h, rxq'[p], fwNssn, rcvd, buf'[p])
  <2>1. CASE p = q
    BY <1>1, <1>2, <2>1
  <2>2. CASE p # q
    BY <1>1, <1>2, <2>2 DEF Orders
  <2> QED BY <2>1, <2>2
<1> QED BY <1>2, <1>3 DEF Orders

LEMMA RxOrders ==
  ASSUME Short, DataInv, Windows, Calm, Orders, mapped, NEW q \in Queues,
         RxFrame(q) \/ RxRelease(q) \/ RxNssnSync(q)
  PROVE  Orders'
PROOF
<1>1. TypedInv /\ BufInv /\ Faults
  BY DEF DataInv
<1>2. /\ UNCHANGED <<mapped, fwNssn, rcvd, budget>>
      /\ rxq[q] # <<>> /\ rxq' = [rxq EXCEPT ![q] = Tail(@)]
  BY DEF RxFrame, RxRelease, RxNssnSync, Receive, ctlVars, fwVars
<1>3. PICK s, w, A, R, T, b, u : /\ s = rxq[q] /\ w = fwNssn /\ A = Ahead /\ R = rcvd
                                 /\ T = Share(q) /\ b = buf[q] /\ u = up[q]
  OBVIOUS
<1>4. FwOk(w, A, R) /\ T \subseteq Subframes
  BY <1>3 DEF Windows, Share
<1>5. PICK h \in Nums : /\ QueueOk(h, s, w, A, R, T) /\ BufOk(h, s, w, A, R, T, b)
                        /\ Ordered(u, h, s, w, R, b)
  BY <1>3, OneHead
<1>6. IsSeq(s) /\ s # <<>> /\ Windowed(b, h)
  BY <1>2, <1>3, <1>5 DEF QueueOk, BufOk
<1>7. PICK m, t : m = s[1] /\ t = Tail(s) /\ Head(rxq[q]) = m
  BY <1>3, <1>6, TailAt
<1>8. rxq'[q] = t /\ \A p \in Queues \ {q} : rxq'[p] = rxq[p]
  BY <1>1, <1>2, <1>3, <1>7, ReceiveData
<1>9. Again(s, budget.retries) /\ Again(t, budget.retries)
  <2>1. Again(s, budget.retries)
    BY <1>3 DEF Orders
  <2>2. \A j \in 1..Len(t) : j + 1 \in 1..Len(s) /\ t[j] = s[j + 1]
    <3>1. /\ Len(s) \in Nat /\ Len(s) >= 1 /\ Len(t) = Len(s) - 1
          /\ \A j \in 1..(Len(s) - 1) : t[j] = s[j + 1]
      BY <1>6, <1>7, TailAt
    <3> QED BY <3>1
  <2> QED BY <2>1, <2>2 DEF Again
<1>10. Retried(s, A)
  <2>1. budget.retries > 0 => A = 0
    <3>1. budget.retries \in Nat
      BY <1>1 DEF Faults
    <3> QED BY <1>3, <3>1 DEF Calm, Ahead
  <2> QED BY <1>9, <2>1 DEF Again, Retried
<1>11. SUFFICES \E r : /\ Apply(q, r)
                       /\ \E g \in Nums : Windowed(r.buf, g) /\ Ordered(u \o Keys(r.up), g, t, w, R, r.buf)
  <2>1. PICK r : /\ Apply(q, r)
                 /\ \E g \in Nums : Windowed(r.buf, g) /\ Ordered(u \o Keys(r.up), g, t, w, R, r.buf)
    BY <1>11
  <2>2. PICK g \in Nums : Windowed(r.buf, g) /\ Ordered(u \o Keys(r.up), g, t, w, R, r.buf)
    BY <2>1
  <2>3. Ordered(up[q] \o Keys(r.up), g, rxq'[q], fwNssn, rcvd, r.buf)
    BY <1>3, <1>8, <2>2
  <2>4. Again(rxq'[q], budget.retries)
    BY <1>8, <1>9
  <2> QED BY <1>1, <1>2, <1>8, <2>1, <2>2, <2>3, <2>4, AppliedOrders
<1>12. ASSUME NEW flags, m.type # "frame", m.type = "sync" => "from" \in flags,
              Apply(q, ReleaseFrames(b, m.nssn, flags))
       PROVE  \E r : /\ Apply(q, r)
                     /\ \E g \in Nums : Windowed(r.buf, g) /\ Ordered(u \o Keys(r.up), g, t, w, R, r.buf)
  <2>1. PICK r : r = ReleaseFrames(b, s[1].nssn, flags)
    OBVIOUS
  <2>2. \E g \in Nums : Windowed(r.buf, g) /\ Ordered(u \o Keys(r.up), g, Tail(s), w, R, r.buf)
    BY <1>4, <1>5, <1>6, <1>7, <1>12, <2>1, ReleaseOrdered
  <2> QED BY <1>7, <1>12, <2>1, <2>2
<1>13. CASE RxRelease(q)
  <2>1. m.type = "release" /\ Apply(q, ReleaseFrames(b, m.nssn, {}))
    BY <1>3, <1>7, <1>13 DEF RxRelease, Receive
  <2>2. m.type # "frame" /\ m.type # "sync"
    BY <2>1
  <2> QED BY <1>12, <2>1, <2>2
<1>14. CASE RxNssnSync(q)
  <2>1. m.type = "sync" /\ Apply(q, ReleaseFrames(b, m.nssn, {"from"}))
    BY <1>3, <1>7, <1>14 DEF RxNssnSync, Receive
  <2>2. m.type # "frame" /\ "from" \in {"from"}
    BY <2>1
  <2> QED BY <1>12, <2>1, <2>2
<1>15. CASE RxFrame(q)
  <2>1. m.type = "frame"
    BY <1>7, <1>15 DEF RxFrame, Receive
  <2>2. CASE IsDup(dup[q], m)
    <3>1. PICK r : r = Quiet(q)
      OBVIOUS
    <3>2. r.buf = b /\ r.up = <<>> /\ Apply(q, r)
      BY <1>3, <1>7, <1>15, <2>2, <3>1 DEF RxFrame, Quiet
    <3>3. Entries(b) /\ IsSeq(u)
      BY <1>5 DEF Ordered, Sorted
    <3>4. Ordered(u, h, t, w, R, b)
      BY <1>5, <1>6, <1>7, OrderedPop
    <3>5. u \o Keys(r.up) = u
      <4>1. Len(<<>>) = 0
        BY EmptyFacts
      <4>2. Keys(<<>>) = [k \in 1..0 |-> Key(<<>>[k])]
        BY <4>1 DEF Keys
      <4>3. [k \in 1..0 |-> Key(<<>>[k])] = <<>>
        OBVIOUS
      <4>4. PICK M : u \in Seq(M)
        BY <3>3 DEF IsSeq
      <4>5. u \o <<>> = u
        BY <4>4
      <4> QED BY <3>2, <4>2, <4>3, <4>5
    <3> QED BY <1>6, <3>2, <3>4, <3>5
  <2>3. CASE ~IsDup(dup[q], m)
    <3>1. Apply(q, Reorder(b, m))
      BY <1>3, <1>7, <1>15, <2>3 DEF RxFrame
    <3>2. PICK r : r = Reorder(b, s[1])
      OBVIOUS
    <3>3. s[1].type = "frame"
      BY <1>7, <2>1
    <3>4. \E g \in Nums : Windowed(r.buf, g) /\ Ordered(u \o Keys(r.up), g, Tail(s), w, R, r.buf)
      BY <1>4, <1>5, <1>6, <1>10, <3>2, <3>3, ReorderOrdered
    <3> QED BY <1>7, <3>1, <3>2, <3>4
  <2> QED BY <2>2, <2>3
<1> QED BY <1>13, <1>14, <1>15

LEMMA EarlyOrders ==
  ASSUME TypedInv, Orders, ~mapped, NEW q \in Queues,
         RxFrame(q) \/ RxRelease(q) \/ RxNssnSync(q)
  PROVE  Orders'
PROOF
<1>1. /\ UNCHANGED <<mapped, budget>> /\ rxq[q] # <<>> /\ rxq' = [rxq EXCEPT ![q] = Tail(@)]
  BY DEF RxFrame, RxRelease, RxNssnSync, Receive, ctlVars
<1>2. Apply(q, Quiet(q))
  BY DEF RxFrame, RxRelease, RxNssnSync
<1>3. up = [p \in Queues |-> <<>>]
  BY DEF Orders
<1>4. up' = up
  BY <1>2, <1>3, QuietUp DEF Apply
<1>5. ASSUME NEW p \in Queues PROVE Again(rxq'[p], budget.retries)
  <2>1. PICK s, t : s = rxq[p] /\ t = rxq'[p] /\ (t = s \/ (s # <<>> /\ t = Tail(s)))
    <3>1. rxq'[q] = Tail(rxq[q]) /\ \A x \in Queues \ {q} : rxq'[x] = rxq[x]
      BY <1>1, ReceiveData
    <3> QED BY <1>1, <3>1
  <2>2. IsSeq(s) /\ Again(s, budget.retries)
    BY <2>1 DEF TypedInv, Orders
  <2>3. CASE t = s
    BY <2>1, <2>2, <2>3
  <2>4. CASE s # <<>> /\ t = Tail(s)
    <3>1. /\ Len(s) \in Nat /\ Len(s) >= 1 /\ Len(t) = Len(s) - 1
          /\ \A j \in 1..(Len(s) - 1) : t[j] = s[j + 1]
      BY <2>2, <2>4, TailAt
    <3>2. \A j \in 1..Len(t) : j + 1 \in 1..Len(s) /\ t[j] = s[j + 1]
      BY <3>1
    <3> QED BY <2>1, <2>2, <3>2 DEF Again
  <2> QED BY <2>1, <2>3, <2>4
<1> QED BY <1>1, <1>3, <1>4, <1>5 DEF Orders

LEMMA TimerOrders ==
  ASSUME Short, DataInv, Windows, Orders, NEW q \in Queues, TimerHandler(q)
  PROVE  Orders'
PROOF
<1>1. TypedInv /\ BufInv /\ handler[q]
  BY DEF DataInv, TimerHandler
<1>2. mapped
  BY <1>1 DEF Windows
<1>3. UNCHANGED <<rxq, mapped, fwNssn, rcvd, budget>>
  BY DEF TimerHandler, ctlVars, fwVars
<1>4. PICK s, w, A, R, T, b, u : /\ s = rxq[q] /\ w = fwNssn /\ A = Ahead /\ R = rcvd
                                 /\ T = Share(q) /\ b = buf[q] /\ u = up[q]
  OBVIOUS
<1>5. FwOk(w, A, R)
  BY <1>4 DEF Windows
<1>6. PICK h \in Nums : /\ QueueOk(h, s, w, A, R, T) /\ BufOk(h, s, w, A, R, T, b)
                        /\ Ordered(u, h, s, w, R, b)
  BY <1>2, <1>4, OneHead
<1>7. PICK r : r = TimerExpired(b)
  OBVIOUS
<1>8. Apply(q, r)
  BY <1>4, <1>7 DEF TimerHandler
<1>9. \E g \in Nums : Windowed(r.buf, g) /\ Ordered(u \o Keys(r.up), g, s, w, R, r.buf)
  BY <1>5, <1>6, <1>7, TimerOrdered
<1>10. PICK g \in Nums : Windowed(r.buf, g) /\ Ordered(u \o Keys(r.up), g, s, w, R, r.buf)
  BY <1>9
<1>11. Ordered(up[q] \o Keys(r.up), g, rxq'[q], fwNssn, rcvd, r.buf)
  BY <1>3, <1>4, <1>10
<1>12. Again(rxq'[q], budget.retries) /\ \A p \in Queues \ {q} : rxq'[p] = rxq[p]
  BY <1>3 DEF Orders
<1> QED BY <1>1, <1>2, <1>3, <1>8, <1>10, <1>11, <1>12, AppliedOrders

LEMMA TimersOrders ==
  ASSUME DataInv, Windows, Orders, TimePasses \/ \E q \in Queues : TimerFires(q)
  PROVE  Orders'
PROOF
<1>1. UNCHANGED <<rxq, mapped, fwNssn, rcvd, budget, up>>
  BY DEF TimePasses, TimerFires, ctlVars, fwVars, histVars
<1>2. /\ buf = [p \in Queues |-> buf[p]]
      /\ \A p \in Queues : Shape(buf[p])
  BY DEF DataInv, BufInv
<1>3. mapped
  <2>1. \E q \in Queues : buf[q].timer # "off"
    BY DEF TimePasses, TimerFires
  <2> QED BY <2>1 DEF Windows
<1>4. ASSUME NEW p \in Queues
      PROVE  \E h \in Nums : Windowed(buf'[p], h)
                             /\ Ordered(up[p], h, rxq[p], fwNssn, rcvd, buf'[p])
  <2>1. PICK b, c, u, s, w, R : /\ b = buf[p] /\ c = buf'[p] /\ u = up[p] /\ s = rxq[p]
                                /\ w = fwNssn /\ R = rcvd
    OBVIOUS
  <2>2. Shape(b)
    BY <1>2, <2>1
  <2>3. \E a, t : c = b \/ c = [b EXCEPT !.timer = t] \/ c = [b EXCEPT !.aged = a, !.timer = t]
    <3>1. CASE TimePasses
      <4>1. c = [b EXCEPT !.aged = [i \in Indices |-> b.entries[i] # <<>>],
                          !.timer = IF @ = "on" THEN "due" ELSE @]
        BY <2>1, <3>1 DEF TimePasses
      <4>2. PICK a : a = [i \in Indices |-> b.entries[i] # <<>>]
        OBVIOUS
      <4>3. PICK t : t = IF b.timer = "on" THEN "due" ELSE b.timer
        OBVIOUS
      <4>4. c = [b EXCEPT !.aged = a, !.timer = t]
        BY <4>1, <4>2, <4>3
      <4> QED BY <4>4
    <3>2. CASE \E q \in Queues : TimerFires(q)
      <4>1. PICK q \in Queues : buf' = [buf EXCEPT ![q].timer = "off"]
        BY <3>2 DEF TimerFires
      <4>2. c = b \/ c = [b EXCEPT !.timer = "off"]
        BY <1>2, <2>1, <4>1
      <4> QED BY <4>2
    <3> QED BY <3>1, <3>2
  <2>4. /\ c = [x \in Fields |-> c[x]] /\ c.head = b.head /\ c.num = b.num
        /\ c.entries = b.entries /\ c.lastAmsdu = b.lastAmsdu /\ c.lastSub = b.lastSub
    BY <2>2, <2>3 DEF Shape, Fields
  <2>5. PICK h \in Nums : Windowed(b, h) /\ Ordered(u, h, s, w, R, b)
    BY <1>3, <2>1 DEF Orders
  <2>6. Windowed(c, h)
    BY <2>4, <2>5, WindowedSame
  <2>7. Ordered(u, h, s, w, R, c)
    BY <2>4, <2>5, OrderedSame
  <2> QED BY <2>1, <2>6, <2>7
<1> QED BY <1>1, <1>3, <1>4 DEF Orders

LEMMA StartOrders ==
  ASSUME DataInv, Windows, Orders, [Next]_vars, StartFirmware \/ StartMap
  PROVE  Orders'
PROOF
<1>1. /\ ~mapped /\ UNCHANGED <<rxq, up>>
      /\ mapped' => StartMap
  BY DEF StartFirmware, StartMap, histVars, Windows
<1>2. /\ budget.retries \in Nat /\ budget'.retries \in Nat /\ budget.retries <= budget'.retries
  BY Recorded DEF DataInv
<1>3. ASSUME NEW q \in Queues PROVE Again(rxq[q], budget'.retries)
  <2>1. Again(rxq[q], budget.retries)
    BY DEF Orders
  <2> QED BY <1>2, <2>1 DEF Again
<1>4. \A q \in Queues : up[q] = <<>>
  BY <1>1 DEF Orders
<1>5. ASSUME StartMap, NEW q \in Queues
      PROVE  \E h \in Nums : Windowed(buf'[q], h)
                             /\ Ordered(<<>>, h, rxq[q], fwNssn', rcvd', buf'[q])
  <2>1. PICK b : b = InitBuffer(ssn)
    OBVIOUS
  <2>2. buf'[q] = b /\ ssn = FirstId % SnMod
    BY <1>5, <2>1 DEF StartMap, Windows
  <2>3. FirstId \in Nums /\ FirstId % SnMod \in Sns
    BY Numbers, NumsFacts DEF Nums
  <2>4. Shape(b) /\ Counts(b) /\ b.num = 0
    BY <2>1, <2>2, <2>3, InitBufferShape
  <2>5. b.head = FirstId % SnMod /\ b.lastSub = 0 /\ b.entries = EmptyEntries
    BY <2>1, <2>2 DEF InitBuffer
  <2>6. Held(b) = {}
    BY <2>4, HeldNone
  <2>7. Windowed(b, FirstId)
    <3>1. Placed(b)
      BY <2>6 DEF Placed, Held
    <3> QED BY <2>3, <2>4, <2>5, <2>6, <3>1 DEF Windowed
  <2>8. Entries(b)
    <3>1. \A i \in Indices : b.entries[i] = <<>>
      BY <2>5 DEF EmptyEntries
    <3> QED BY <2>5, <2>6, <3>1, RisingNone DEF Entries
  <2>9. Sorted(<<>>) /\ Msgs(<<>>) = {}
    <3>1. IsSeq(<<>>) /\ Len(<<>>) = 0 /\ 1..0 = {}
      BY EmptyFacts
    <3> QED BY <3>1, MsgsEmpty DEF Sorted
  <2>10. Ordered(<<>>, FirstId, rxq[q], fwNssn', rcvd', b)
    BY <2>8, <2>9 DEF Ordered
  <2> QED BY <2>2, <2>3, <2>7, <2>10
<1> QED BY <1>1, <1>3, <1>4, <1>5 DEF Orders

LEMMA OrdersStep ==
  ASSUME Short, DataInv, Windows, Calm, Calm', Orders, Next, ~(RadioKill \/ RadioBack)
  PROVE  Orders'
PROOF
<1>1. TypedInv /\ BufInv /\ Faults /\ Undisturbed /\ Undisturbed' /\ [Next]_vars
  BY DEF DataInv, Calm
<1>2. CASE \/ \E id \in Ids : Air(id) \/ AirBeyond(id) \/ AirAgain(id) \/ AirOld(id)
           \/ \E q \in Queues : Bar(q)
  <2>1. Gives /\ up' = up
    BY <1>1, <1>2, FirmwareWindows
  <2> QED BY <1>1, <2>1, GivesOrders
<1>3. ASSUME NEW q \in Queues, Rx(q) PROVE Orders'
  <2>1. RxFrame(q) \/ RxRelease(q) \/ RxNssnSync(q)
    BY <1>3, NoDelBa DEF Rx
  <2>2. CASE mapped
    BY <2>1, <2>2, RxOrders
  <2>3. CASE ~mapped
    BY <1>1, <2>1, <2>3, EarlyOrders
  <2> QED BY <2>2, <2>3
<1>4. ASSUME NEW q \in Queues, TimerHandler(q) PROVE Orders'
  BY <1>4, TimerOrders
<1>5. CASE Trigger
  BY <1>1, <1>5, TriggerOrders
<1>6. CASE TimePasses \/ \E q \in Queues : TimerFires(q)
  BY <1>6, TimersOrders
<1>7. CASE StartFirmware \/ StartMap
  BY <1>1, <1>7, StartOrders
<1>8. ~StopFirmware
  <2> SUFFICES ASSUME StopFirmware PROVE FALSE
    OBVIOUS
  <2>1. budget.stops \in Nat /\ budget'.stops = budget.stops + 1
    BY <1>1 DEF StopFirmware, Faults
  <2> QED BY <1>1, <2>1 DEF Undisturbed
<1>9. ~Stop
  <2>1. pc \in {"idle", "starting"}
    BY DEF Windows
  <2> QED BY <2>1 DEF Stop, SyncEnd, SyncNotify, SyncNotifyFails, SyncDone, SyncTimeout,
                      FreeReorder, StopUnmap
<1> QED BY <1>2, <1>3, <1>4, <1>5, <1>6, <1>7, <1>8, <1>9 DEF Next, Timer

LEMMA OrderKeptOn ==
  ASSUME Short, DataInv, WindowsInv, OrderInv, [Next]_vars
  PROVE  OrderInv'
PROOF
<1> SUFFICES ASSUME Calm' PROVE Orders'
  BY DEF OrderInv
<1>1. Calm
  <2>1. Faults
    BY DEF DataInv
  <2>2. /\ budget.stops \in Nat /\ budget'.stops \in Nat /\ budget.stops <= budget'.stops
        /\ budget.olds \in Nat /\ budget'.olds \in Nat /\ budget.olds <= budget'.olds
        /\ budget.retries \in Nat /\ budget'.retries \in Nat /\ budget.retries <= budget'.retries
        /\ lost \subseteq lost' /\ (timedOut => timedOut')
    BY <2>1, Recorded
  <2>3. Undisturbed
    BY <2>2 DEF Calm, Undisturbed
  <2>4. timedOut => budget.retries = 0
    BY <2>2 DEF Calm
  <2> QED BY <2>3, <2>4 DEF Calm
<1>2. Orders /\ Windows
  BY <1>1 DEF OrderInv, WindowsInv, Calm
<1>3. CASE Next /\ ~(RadioKill \/ RadioBack)
  BY <1>1, <1>2, <1>3, OrdersStep
<1>4. CASE UNCHANGED vars \/ RadioKill \/ RadioBack
  <2>1. UNCHANGED <<buf, mapped, fwNssn, rcvd, rxq, up>> /\ budget'.retries = budget.retries
    <3>1. Faults
      BY DEF DataInv
    <3> QED BY <1>4, <3>1, RadioSame
  <2> QED BY <1>2, <2>1 DEF Orders
<1> QED BY <1>3, <1>4

LEMMA OrderInit == Init => OrderInv
PROOF
<1> SUFFICES ASSUME Init PROVE Orders
  BY DEF OrderInv
<1>1. /\ mapped = FALSE /\ rxq = [q \in Queues |-> <<>>] /\ up = [q \in Queues |-> <<>>]
  BY DEF Init
<1>2. \A n : Again(<<>>, n)
  BY EmptyFacts DEF Again
<1> QED BY <1>1, <1>2 DEF Orders

LEMMA OrderHolds ==
  ASSUME OrderInv
  PROVE  InOrder
PROOF
<1> SUFFICES ASSUME Calm PROVE OrderKept
  BY DEF InOrder, Calm
<1>1. Orders
  BY DEF OrderInv
<1>2. ASSUME NEW q \in Queues, NEW k \in 1..Len(up[q])-1 PROVE Before(up[q][k], up[q][k + 1])
  <2>1. PICK u : u = up[q]
    OBVIOUS
  <2>2. Sorted(u)
    <3>1. CASE mapped
      BY <1>1, <2>1, <3>1 DEF Orders, Ordered
    <3>2. CASE ~mapped
      <4>1. u = <<>> /\ IsSeq(<<>>) /\ Len(<<>>) = 0 /\ 1..0 = {}
        BY <1>1, <2>1, <3>2, EmptyFacts DEF Orders
      <4> QED BY <4>1 DEF Sorted
    <3> QED BY <3>1, <3>2
  <2>3. Len(u) \in Nat
    BY <2>2, ListLength DEF Sorted
  <2>4. k \in 1..Len(u) /\ k + 1 \in 1..Len(u) /\ k < k + 1
    BY <1>2, <2>1, <2>3
  <2> QED BY <2>1, <2>2, <2>4 DEF Sorted
<1> QED BY <1>2 DEF OrderKept

(* What the reorder buffers let through to mac80211 is in the order of the *)
(* originator, and nothing is let through twice, for any window, number of *)
(* queues and order in which frames, parts of A-MSDUs, retransmissions,    *)
(* release notifications, NSSN messages of other queues and timers come to *)
(* the queues of an undisturbed session.                                   *)
THEOREM OrderCorrect == ASSUME Short PROVE Spec => []InOrder
PROOF
<1>1. Init => DataInv /\ WindowsInv /\ OrderInv
  BY DataInit, WindowsInit, OrderInit
<1>2. (DataInv /\ WindowsInv /\ OrderInv) /\ [Next]_vars => (DataInv /\ WindowsInv /\ OrderInv)'
  BY DataStep, WindowsKept, OrderKeptOn
<1>3. OrderInv => InOrder
  BY OrderHolds
<1> QED BY <1>1, <1>2, <1>3, PTL DEF Spec
=============================================================================
