------------------------- MODULE ReorderBufferProof -------------------------
(***************************************************************************)
(* Proofs about the reorder buffers and the deletion of a session, for any *)
(* number of queues, sessions, faults, frames and delayed messages:        *)
(*   - the counter of a deletion counts the queues its own message has     *)
(*     still to reach (SyncInv);                                           *)
(*   - num_stored counts the frames stored (DataInv);                      *)
(*   - a deletion that nothing disturbs leaves no frame, no timer and no   *)
(*     handler behind (DelInv, on top of the other two).                   *)
(***************************************************************************)
EXTENDS ReorderBuffer, FiniteSetTheorems, SequenceTheorems, WellFoundedInduction, TLAPS

-----------------------------------------------------------------------------
(* Sequences of messages.  Messages have several forms; what a sequence    *)
(* is made of does not matter here.                                        *)

IsSeq(s) == \E M : s \in Seq(M)

(* A message of the deletion with cookie c; s has one, has no two, has     *)
(* none of a deletion after c.                                             *)
Of(m, c) == m.type = "delba" /\ m.cookie = c
Holds(s, c) == \E i \in 1..Len(s) : Of(s[i], c)
Once(s, c) == \A i, j \in 1..Len(s) : Of(s[i], c) /\ Of(s[j], c) => i = j
UpTo(s, c) ==
  \A i \in 1..Len(s) : s[i].type = "delba" => s[i].cookie \in Nat /\ s[i].cookie <= c
NoDelba(s) == \A i \in 1..Len(s) : s[i].type # "delba"

(* Where messages are is known, ... *)
MsgInv ==
  /\ cookie \in Nat /\ counter \in Int
  /\ IsSeq(cmds) /\ UpTo(cmds, cookie)
  /\ rxq = [q \in Queues |-> rxq[q]]
  /\ \A q \in Queues : IsSeq(rxq[q]) /\ UpTo(rxq[q], cookie)

(* ... one message at most is sent per queue for a deletion, and none is   *)
(* left with its cookie when no thread waits for it.                       *)
OnceInv ==
  /\ pc # "wait" => ~Holds(cmds, cookie) /\ \A q \in Queues : ~Holds(rxq[q], cookie)
  /\ Once(cmds, cookie) /\ \A q \in Queues : Once(rxq[q], cookie)
  /\ Holds(cmds, cookie) => \A q \in Queues : ~Holds(rxq[q], cookie)

(* The queues that have still to handle the message. *)
Reaches == {q \in Queues : Holds(rxq[q], cookie)}
CountInv ==
  (pc \in {"notify", "wait"} /\ ~spoilt) =>
    counter = IF pc = "notify" \/ Holds(cmds, cookie) THEN Cardinality(Queues)
                                                      ELSE Cardinality(Reaches)

(* A kill of the radio during a deletion has not gone unnoticed. *)
KillInv == pc \in {"notify", "wait"} /\ killed => spoilt

SyncInv == MsgInv /\ OnceInv /\ CountInv
-----------------------------------------------------------------------------
(* What the operations on queues do to the messages *)

LEMMA EmptyFacts ==
  /\ IsSeq(<<>>) /\ NoDelba(<<>>) /\ Len(<<>>) = 0
  /\ \A c : UpTo(<<>>, c) /\ Once(<<>>, c) /\ ~Holds(<<>>, c)
PROOF
<1>1. <<>> \in Seq({}) /\ Len(<<>>) = 0
  OBVIOUS
<1> QED BY <1>1 DEF IsSeq, NoDelba, UpTo, Once, Holds

LEMMA SingleFacts ==
  ASSUME NEW m, m.type # "delba"
  PROVE  IsSeq(<<m>>) /\ NoDelba(<<m>>)
PROOF
<1>1. <<m>> \in Seq({m}) /\ Len(<<m>>) = 1 /\ <<m>>[1] = m
  OBVIOUS
<1>2. \A i \in 1..1 : i = 1
  OBVIOUS
<1>3. NoDelba(<<m>>)
  BY <1>1, <1>2, Zenon DEF NoDelba
<1>4. IsSeq(<<m>>)
  BY <1>1, Zenon DEF IsSeq
<1> QED BY <1>3, <1>4

(* Messages of another kind are added at the end. *)
LEMMA ConcatFacts ==
  ASSUME NEW s, NEW t, IsSeq(s), IsSeq(t), NoDelba(t)
  PROVE  /\ IsSeq(s \o t)
         /\ \A c : /\ UpTo(s, c) => UpTo(s \o t, c)
                   /\ Once(s, c) => Once(s \o t, c)
                   /\ Holds(s \o t, c) <=> Holds(s, c)
         /\ NoDelba(s) => NoDelba(s \o t)
PROOF
<1>1. PICK M : s \in Seq(M)
  BY DEF IsSeq
<1>2. PICK N : t \in Seq(N)
  BY DEF IsSeq
<1>3. s \in Seq(M \cup N) /\ t \in Seq(M \cup N)
  BY <1>1, <1>2
<1>4. s \o t \in Seq(M \cup N)
  BY <1>3
<1>5. /\ Len(s) \in Nat /\ Len(t) \in Nat /\ Len(s \o t) = Len(s) + Len(t)
      /\ \A i \in 1..Len(s) : (s \o t)[i] = s[i] /\ i \in 1..Len(s \o t)
      /\ \A i \in 1..Len(s \o t) : i \notin 1..Len(s) =>
           /\ (s \o t)[i] = t[i - Len(s)]
           /\ i - Len(s) \in 1..Len(t)
  BY <1>3
<1>6. \A i \in 1..Len(s \o t) : i \notin 1..Len(s) => (s \o t)[i].type # "delba"
  BY <1>5 DEF NoDelba
<1>7. IsSeq(s \o t)
  BY <1>4 DEF IsSeq
<1> HIDE <1>3, <1>4
<1>8. ASSUME NEW c
      PROVE  /\ UpTo(s, c) => UpTo(s \o t, c)
             /\ Once(s, c) => Once(s \o t, c)
             /\ Holds(s \o t, c) <=> Holds(s, c)
  <2>1. UpTo(s, c) => UpTo(s \o t, c)
    BY <1>5, <1>6, Zenon DEF UpTo
  <2>2. Once(s, c) => Once(s \o t, c)
    BY <1>5, <1>6, Zenon DEF Once, Of
  <2>3. Holds(s \o t, c) <=> Holds(s, c)
    BY <1>5, <1>6, Zenon DEF Holds, Of
  <2> QED BY <2>1, <2>2, <2>3
<1>9. NoDelba(s) => NoDelba(s \o t)
  BY <1>5, <1>6, Zenon DEF NoDelba
<1> QED BY <1>7, <1>8, <1>9

(* One message is added at the end. *)
LEMMA AppendFacts ==
  ASSUME NEW s, NEW m, IsSeq(s)
  PROVE  /\ IsSeq(Append(s, m))
         /\ \A c : /\ UpTo(s, c) /\ (m.type = "delba" => m.cookie \in Nat /\ m.cookie <= c)
                        => UpTo(Append(s, m), c)
                   /\ ~Of(m, c) => /\ Once(s, c) => Once(Append(s, m), c)
                                   /\ Holds(Append(s, m), c) <=> Holds(s, c)
                   /\ Of(m, c) => /\ ~Holds(s, c) => Once(Append(s, m), c)
                                  /\ Holds(Append(s, m), c)
PROOF
<1>1. PICK M : s \in Seq(M)
  BY DEF IsSeq
<1>2. s \in Seq(M \cup {m}) /\ Append(s, m) \in Seq(M \cup {m})
  BY <1>1
<1>3. PICK n \in Nat : n = Len(s)
  BY <1>1
<1>4. /\ Len(Append(s, m)) = n + 1
      /\ \A i \in 1..n : Append(s, m)[i] = s[i] /\ i \in 1..(n + 1)
      /\ \A i \in 1..(n + 1) : i \notin 1..n => i = n + 1
      /\ Append(s, m)[n + 1] = m /\ n + 1 \in 1..(n + 1)
  BY <1>2, <1>3
<1>5. IsSeq(Append(s, m))
  BY <1>2 DEF IsSeq
<1> HIDE <1>1, <1>2
<1>6. ASSUME NEW c
      PROVE  /\ UpTo(s, c) /\ (m.type = "delba" => m.cookie \in Nat /\ m.cookie <= c)
                  => UpTo(Append(s, m), c)
             /\ ~Of(m, c) => /\ Once(s, c) => Once(Append(s, m), c)
                             /\ Holds(Append(s, m), c) <=> Holds(s, c)
             /\ Of(m, c) => /\ ~Holds(s, c) => Once(Append(s, m), c)
                            /\ Holds(Append(s, m), c)
  <2>1. UpTo(s, c) /\ (m.type = "delba" => m.cookie \in Nat /\ m.cookie <= c)
                  => UpTo(Append(s, m), c)
    BY <1>3, <1>4, Zenon DEF UpTo
  <2>2. ~Of(m, c) => /\ Once(s, c) => Once(Append(s, m), c)
                     /\ Holds(Append(s, m), c) <=> Holds(s, c)
    BY <1>3, <1>4, Zenon DEF Once, Holds
  <2>3. Of(m, c) => /\ ~Holds(s, c) => Once(Append(s, m), c)
                    /\ Holds(Append(s, m), c)
    BY <1>3, <1>4, Zenon DEF Once, Holds
  <2> QED BY <2>1, <2>2, <2>3
<1> QED BY <1>5, <1>6

(* The first message is taken. *)
LEMMA TailFacts ==
  ASSUME NEW s, IsSeq(s), s # <<>>
  PROVE  /\ IsSeq(Tail(s))
         /\ \A c : /\ UpTo(s, c) =>
                        /\ UpTo(Tail(s), c)
                        /\ Head(s).type = "delba" => /\ Head(s).cookie \in Nat
                                                     /\ Head(s).cookie <= c
                   /\ Once(s, c) => Once(Tail(s), c)
                   /\ ~Of(Head(s), c) => (Holds(Tail(s), c) <=> Holds(s, c))
                   /\ Of(Head(s), c) /\ Once(s, c) => ~Holds(Tail(s), c)
                   /\ Of(Head(s), c) => Holds(s, c)
PROOF
<1>1. PICK M : s \in Seq(M)
  BY DEF IsSeq
<1>2. Tail(s) \in Seq(M)
  BY <1>1
<1>3. PICK n \in Nat : n = Len(s) /\ n >= 1
  BY <1>1
<1>4. /\ Len(Tail(s)) = n - 1 /\ Head(s) = s[1] /\ 1 \in 1..n
      /\ \A i \in 1..(n - 1) : Tail(s)[i] = s[i + 1] /\ i + 1 \in 1..n /\ i + 1 # 1
      /\ \A i, j \in 1..(n - 1) : i + 1 = j + 1 => i = j
      /\ \A i \in 1..n : i # 1 => \E j \in 1..(n - 1) : i = j + 1
  <2>1. /\ Len(Tail(s)) = n - 1 /\ Head(s) = s[1] /\ 1 \in 1..n
        /\ \A i \in 1..(n - 1) : Tail(s)[i] = s[i + 1] /\ i + 1 \in 1..n /\ i + 1 # 1
    BY <1>1, <1>2, <1>3
  <2>2. \A i \in 1..n : i # 1 => i - 1 \in 1..(n - 1) /\ i = (i - 1) + 1
    BY <1>3
  <2>3. \A i, j \in 1..(n - 1) : i + 1 = j + 1 => i = j
    OBVIOUS
  <2> QED BY <2>1, <2>2, <2>3
<1>5. IsSeq(Tail(s))
  BY <1>2 DEF IsSeq
<1> HIDE <1>1, <1>2
<1>6. ASSUME NEW c
      PROVE  /\ UpTo(s, c) =>
                  /\ UpTo(Tail(s), c)
                  /\ Head(s).type = "delba" => /\ Head(s).cookie \in Nat
                                               /\ Head(s).cookie <= c
             /\ Once(s, c) => Once(Tail(s), c)
             /\ ~Of(Head(s), c) => (Holds(Tail(s), c) <=> Holds(s, c))
             /\ Of(Head(s), c) /\ Once(s, c) => ~Holds(Tail(s), c)
             /\ Of(Head(s), c) => Holds(s, c)
  <2>1. UpTo(s, c) =>
          /\ UpTo(Tail(s), c)
          /\ Head(s).type = "delba" => /\ Head(s).cookie \in Nat
                                       /\ Head(s).cookie <= c
    <3>1. ASSUME UpTo(s, c), NEW i \in 1..Len(Tail(s)), Tail(s)[i].type = "delba"
          PROVE  Tail(s)[i].cookie \in Nat /\ Tail(s)[i].cookie <= c
      <4>1. Tail(s)[i] = s[i + 1] /\ i + 1 \in 1..Len(s)
        BY <1>3, <1>4
      <4> QED BY <3>1, <4>1, Zenon DEF UpTo
    <3>2. UpTo(s, c) => UpTo(Tail(s), c)
      BY <3>1 DEF UpTo
    <3>3. UpTo(s, c) /\ Head(s).type = "delba" => /\ Head(s).cookie \in Nat
                                                  /\ Head(s).cookie <= c
      BY <1>3, <1>4, Zenon DEF UpTo
    <3> QED BY <3>2, <3>3
  <2>2. Once(s, c) => Once(Tail(s), c)
    <3>1. ASSUME Once(s, c), NEW i \in 1..Len(Tail(s)), NEW j \in 1..Len(Tail(s)),
                 Of(Tail(s)[i], c), Of(Tail(s)[j], c)
          PROVE  i = j
      <4>1. /\ Tail(s)[i] = s[i + 1] /\ i + 1 \in 1..Len(s)
            /\ Tail(s)[j] = s[j + 1] /\ j + 1 \in 1..Len(s)
            /\ i + 1 = j + 1 => i = j
        BY <1>3, <1>4
      <4> QED BY <3>1, <4>1, Zenon DEF Once
    <3> QED BY <3>1 DEF Once
  <2>3. ~Of(Head(s), c) => (Holds(Tail(s), c) <=> Holds(s, c))
    <3>1. ASSUME Holds(Tail(s), c) PROVE Holds(s, c)
      <4>1. PICK i \in 1..Len(Tail(s)) : Of(Tail(s)[i], c)
        BY <3>1 DEF Holds
      <4>2. Tail(s)[i] = s[i + 1] /\ i + 1 \in 1..Len(s)
        BY <1>3, <1>4
      <4> QED BY <4>1, <4>2, Zenon DEF Holds
    <3>2. ASSUME ~Of(Head(s), c), Holds(s, c) PROVE Holds(Tail(s), c)
      <4>1. PICK i \in 1..Len(s) : Of(s[i], c)
        BY <3>2 DEF Holds
      <4>2. i # 1
        BY <1>4, <3>2, <4>1
      <4>3. PICK j \in 1..Len(Tail(s)) : i = j + 1
        BY <1>3, <1>4, <4>2
      <4>4. Tail(s)[j] = s[i]
        BY <1>4, <4>3
      <4> QED BY <4>1, <4>3, <4>4 DEF Holds
    <3> QED BY <3>1, <3>2
  <2>4. Of(Head(s), c) /\ Once(s, c) => ~Holds(Tail(s), c)
    BY <1>3, <1>4, Zenon DEF Holds, Once
  <2>5. Of(Head(s), c) => Holds(s, c)
    BY <1>3, <1>4, Zenon DEF Holds
  <2> QED BY <2>1, <2>2, <2>3, <2>4, <2>5
<1> QED BY <1>5, <1>6
-----------------------------------------------------------------------------
(* The NSSN messages of a step *)

(* A release meets at most one sync point. *)
One(s) == s = <<>> \/ \E x : s = <<x>>

LEMMA OneIsSeq == ASSUME NEW s, One(s) PROVE IsSeq(s)
PROOF
<1>1. \A x : <<x>> \in Seq({x}) /\ <<>> \in Seq({x})
  OBVIOUS
<1> QED BY <1>1 DEF One, IsSeq

LEMMA ReleaseSync ==
  ASSUME NEW b, NEW nssn, NEW flags
  PROVE  One(ReleaseFrames(b, nssn, flags).sync)
PROOF BY DEF ReleaseFrames, One

LEMMA TimerSync == ASSUME NEW b PROVE One(TimerExpired(b).sync)
PROOF
<1>1. \/ TimerExpired(b).sync = <<>>
      \/ \E nssn : TimerExpired(b) = ReleaseFrames(b, nssn, {"send"})
  BY DEF TimerExpired
<1> QED BY <1>1, ReleaseSync DEF One

LEMMA PlaceSync == ASSUME NEW b, NEW f PROVE One(Place(b, f).sync)
PROOF
<1>1. One(Store(b, f).sync)
  <2>1. \/ Store(b, f).sync = <<>>
        \/ \E s : Store(b, f) = ReleaseFrames(s, f.nssn, {"send"})
    BY DEF Store
  <2> QED BY <2>1, ReleaseSync DEF One
<1>2. \A h : One(PassUp(b, f, h).sync)
  BY DEF PassUp, One
<1>3. \/ Place(b, f).sync = <<>> \/ Place(b, f) = Store(b, f)
      \/ \E h : Place(b, f) = PassUp(b, f, h)
  BY DEF Place
<1> QED BY <1>1, <1>2, <1>3 DEF One

LEMMA ReorderSync == ASSUME NEW b, NEW f PROVE IsSeq(Reorder(b, f).sync)
PROOF
<1>1. \/ Reorder(b, f).sync = <<>>
      \/ \E r, p : One(r) /\ One(p) /\ Reorder(b, f).sync = r \o p
  <2>1. One(Adjust(b, f).sync)
    <3>1. \/ Adjust(b, f).sync = <<>>
          \/ \E c, m : Adjust(b, f).sync = ReleaseFrames(c, m, {"send"}).sync
      BY DEF Adjust
    <3> QED BY <3>1, ReleaseSync DEF One
  <2>2. \/ Reorder(b, f).sync = <<>>
        \/ Reorder(b, f).sync = Adjust(b, f).sync \o Place(Adjust(b, f).buf, f).sync
    BY DEF Reorder
  <2> QED BY <2>1, <2>2, PlaceSync
<1>2. ASSUME NEW r, NEW p, One(r), One(p) PROVE IsSeq(r \o p)
  <2>1. PICK M : r \in Seq(M)
    BY <1>2, OneIsSeq DEF IsSeq
  <2>2. PICK N : p \in Seq(N)
    BY <1>2, OneIsSeq DEF IsSeq
  <2>3. r \in Seq(M \cup N) /\ p \in Seq(M \cup N)
    BY <2>1, <2>2
  <2>4. r \o p \in Seq(M \cup N)
    BY <2>3
  <2> QED BY <2>4 DEF IsSeq
<1>3. IsSeq(<<>>)
  BY EmptyFacts
<1> QED BY <1>1, <1>2, <1>3
-----------------------------------------------------------------------------
(* Steps that move no DEL_BA message *)

(* t is s with messages of another kind taken or added. *)
Alike(s, t, c) ==
  IsSeq(t) /\ UpTo(t, c) /\ Once(t, c) /\ (Holds(t, c) <=> Holds(s, c))

LEMMA AlikeSelf ==
  ASSUME SyncInv
  PROVE  Alike(cmds, cmds, cookie) /\ \A q \in Queues : Alike(rxq[q], rxq[q], cookie)
PROOF BY DEF SyncInv, MsgInv, OnceInv, Alike

LEMMA AlikeConcat ==
  ASSUME NEW s, NEW c, Alike(s, s, c), NEW t, IsSeq(t), NoDelba(t)
  PROVE  Alike(s, s \o t, c) /\ Alike(s \o t, s \o t, c)
PROOF
<1>1. IsSeq(s) /\ UpTo(s, c) /\ Once(s, c)
  BY DEF Alike
<1> QED BY <1>1, ConcatFacts DEF Alike

LEMMA AlikeTail ==
  ASSUME NEW s, NEW c, Alike(s, s, c), s # <<>>, ~Of(Head(s), c)
  PROVE  Alike(s, Tail(s), c)
PROOF
<1>1. IsSeq(s) /\ UpTo(s, c) /\ Once(s, c)
  BY DEF Alike
<1> QED BY <1>1, TailFacts DEF Alike

(* A function on 1..n is a sequence. *)
LEMMA TupleFacts ==
  ASSUME NEW n \in Nat, NEW h, h = [k \in 1..n |-> h[k]],
         \A k \in 1..n : h[k].type # "delba"
  PROVE  IsSeq(h) /\ NoDelba(h)
PROOF
<1>1. PICK S : S = {h[k] : k \in 1..n}
  OBVIOUS
<1>2. h \in [1..n -> S]
  BY <1>1
<1>3. h \in Seq(S) /\ Len(h) = n
  BY <1>2
<1>4. IsSeq(h)
  BY <1>3 DEF IsSeq
<1>5. NoDelba(h)
  BY <1>3 DEF NoDelba
<1> QED BY <1>4, <1>5

(* No such step disturbs the invariant, whether it leaves the counter or   *)
(* clears it as iwl_mvm_sync_nssn does.                                    *)
LEMMA AlikeStep ==
  ASSUME SyncInv, cookie' = cookie, pc' = pc,
         Alike(cmds, cmds', cookie),
         rxq' = [q \in Queues |-> rxq'[q]],
         \A q \in Queues : Alike(rxq[q], rxq'[q], cookie),
         \/ counter' = counter /\ (spoilt' <=> spoilt)
         \/ counter' = 0 /\ (pc \in {"notify", "wait"} => spoilt')
  PROVE  SyncInv'
PROOF
<1>1. MsgInv'
  BY DEF SyncInv, MsgInv, Alike
<1>2. OnceInv'
  BY DEF SyncInv, OnceInv, Alike
<1>3. CountInv'
  <2>1. Reaches' = Reaches
    BY DEF Reaches, Alike
  <2>2. Holds(cmds', cookie) <=> Holds(cmds, cookie)
    BY DEF Alike
  <2> QED BY <2>1, <2>2 DEF SyncInv, CountInv
<1> QED BY <1>1, <1>2, <1>3 DEF SyncInv

(* What the firmware puts on the queues for an MPDU or a block-ack         *)
(* request.                                                                *)
LEMMA ReleasesFacts ==
  ASSUME NEW R, NEW nssn, NEW told, NEW split, NEW q \in Queues
  PROVE  IsSeq(Releases(R, nssn, told, split)[q]) /\ NoDelba(Releases(R, nssn, told, split)[q])
PROOF
<1>1. \/ Releases(R, nssn, told, split)[q] = <<>>
      \/ Releases(R, nssn, told, split)[q] = <<[type |-> "release", nssn |-> nssn % SnMod]>>
  BY DEF Releases
<1>2. [type |-> "release", nssn |-> nssn % SnMod].type # "delba"
  OBVIOUS
<1>3. /\ IsSeq(<<[type |-> "release", nssn |-> nssn % SnMod]>>)
      /\ NoDelba(<<[type |-> "release", nssn |-> nssn % SnMod]>>)
  BY <1>2, SingleFacts
<1> QED BY <1>1, <1>3, EmptyFacts

LEMMA DeliverFacts ==
  ASSUME NEW id, NEW nssn, NEW old, NEW retry, Deliver(id, nssn, old, retry)
  PROVE  \E A : /\ rxq' = [q \in Queues |-> rxq[q] \o A[q][1] \o A[q][2]]
                /\ \A q \in Queues : /\ IsSeq(A[q][1]) /\ NoDelba(A[q][1])
                                     /\ IsSeq(A[q][2]) /\ NoDelba(A[q][2])
PROOF
<1> DEFINE frame(sub, gp2) ==
             [type |-> "frame", id |-> id, sub |-> sub,
              amsdu |-> id \in Amsdu, last |-> sub + 1 \notin Subs(id),
              nssn |-> nssn % SnMod, old |-> old, gp2 |-> gp2, retry |-> retry]
           parts(q) == {sub \in Subs(id) : steer[<<id, sub>>] = q}
           frames(q, gp2) == [k \in 1..Cardinality(parts(q)) |->
                                frame(Nth(parts(q), k), gp2)]
<1>1. PICK gp2 \in Gp2s :
        LET whole == {q \in Queues : \E sub \in parts(q) : WholeMpdu(frame(sub, gp2))}
            split == {q \in Queues : parts(q) # {}}
            release == Releases(rcvd \union {id}, nssn, whole, split)
        IN  rxq' = [q \in Queues |-> rxq[q] \o frames(q, gp2) \o release[q]]
  BY DEF Deliver
<1>2. PICK release :
        /\ rxq' = [q \in Queues |-> rxq[q] \o frames(q, gp2) \o release[q]]
        /\ \A q \in Queues : IsSeq(release[q]) /\ NoDelba(release[q])
  <2>1. PICK W, X : rxq' = [q \in Queues |-> rxq[q] \o frames(q, gp2)
                                             \o Releases(rcvd \union {id}, nssn, W, X)[q]]
    BY <1>1
  <2> HIDE DEF frames
  <2> QED BY <2>1, ReleasesFacts
<1>3. ASSUME NEW q \in Queues PROVE IsSeq(frames(q, gp2)) /\ NoDelba(frames(q, gp2))
  <2>1. IsFiniteSet({0, 1})
    <3>1. IsFiniteSet({1}) /\ {0, 1} = {1} \cup {0}
      BY FS_Singleton
    <3> QED BY <3>1, FS_AddElement
  <2>2. parts(q) \in SUBSET {0, 1}
    BY DEF Subs
  <2>3. Cardinality(parts(q)) \in Nat
    BY <2>1, <2>2, FS_Subset, FS_CardinalityType
  <2>4. PICK n \in Nat : n = Cardinality(parts(q))
    BY <2>3
  <2>5. PICK h : h = frames(q, gp2)
    OBVIOUS
  <2>6. h = [k \in 1..n |-> h[k]] /\ \A k \in 1..n : h[k].type # "delba"
    <3> HIDE DEF parts
    <3> QED BY <2>4, <2>5
  <2>7. IsSeq(h) /\ NoDelba(h)
    BY <2>6, TupleFacts
  <2> QED BY <2>5, <2>7
<1> DEFINE A == [q \in Queues |-> <<frames(q, gp2), release[q]>>]
<1>4. \A q \in Queues : A[q][1] = frames(q, gp2) /\ A[q][2] = release[q]
  OBVIOUS
<1> HIDE DEF A, frames
<1>5. rxq' = [q \in Queues |-> rxq[q] \o A[q][1] \o A[q][2]]
  BY <1>2, <1>4
<1>6. \A q \in Queues : /\ IsSeq(A[q][1]) /\ NoDelba(A[q][1])
                         /\ IsSeq(A[q][2]) /\ NoDelba(A[q][2])
  BY <1>2, <1>3, <1>4, Zenon
<1> QED BY <1>5, <1>6, Zenon

(* A handler's result adds NSSN messages to the commands, and clears the   *)
(* counter if it adds any.                                                 *)
LEMMA ApplyFacts ==
  ASSUME SyncInv, NEW q, NEW r, IsSeq(r.sync), Apply(q, r)
  PROVE  /\ Alike(cmds, cmds', cookie)
         /\ \/ counter' = counter /\ (spoilt' <=> spoilt)
            \/ counter' = 0 /\ (pc \in {"notify", "wait"} => spoilt')
PROOF
<1>1. PICK n \in Nat : n = Len(r.sync)
  <2>1. PICK M : r.sync \in Seq(M)
    BY DEF IsSeq
  <2> QED BY <2>1
<1>2. PICK h : h = [k \in 1..n |-> [type |-> "sync", nssn |-> r.sync[k]]]
  OBVIOUS
<1>3. h = [k \in 1..n |-> h[k]] /\ \A k \in 1..n : h[k].type # "delba"
  BY <1>2
<1>4. IsSeq(h) /\ NoDelba(h)
  BY <1>3, TupleFacts
<1>5. cmds' = cmds \o h
  BY <1>1, <1>2 DEF Apply
<1>6. Alike(cmds, cmds', cookie)
  BY <1>4, <1>5, AlikeSelf, AlikeConcat
<1> QED BY <1>6 DEF Apply

(* NAPI takes a message that is no DEL_BA message of this deletion. *)
LEMMA ReceiveFacts ==
  ASSUME SyncInv, NEW q \in Queues, rxq[q] # <<>>, ~Of(Head(rxq[q]), cookie),
         rxq' = [rxq EXCEPT ![q] = Tail(@)]
  PROVE  /\ rxq' = [p \in Queues |-> rxq'[p]]
         /\ \A p \in Queues : Alike(rxq[p], rxq'[p], cookie)
PROOF
<1>1. rxq = [p \in Queues |-> rxq[p]]
  BY DEF SyncInv, MsgInv
<1>2. /\ rxq'[q] = Tail(rxq[q]) /\ rxq' = [p \in Queues |-> rxq'[p]]
      /\ \A p \in Queues : p # q => rxq'[p] = rxq[p]
  BY <1>1
<1>3. Alike(rxq[q], Tail(rxq[q]), cookie)
  BY AlikeSelf, AlikeTail
<1> QED BY <1>2, <1>3, AlikeSelf

(* The firmware. *)
LEMMA FirmwareSync ==
  ASSUME SyncInv,
         \/ \E id \in Ids : Air(id) \/ AirBeyond(id) \/ AirAgain(id) \/ AirOld(id)
         \/ \E q \in Queues : Bar(q)
  PROVE  SyncInv'
PROOF
<1>1. /\ UNCHANGED <<cookie, counter, cmds, pc, spoilt>>
  BY DEF Air, AirBeyond, AirAgain, AirOld, Bar, syncVars, ctlVars, histVars
<1>2. /\ rxq' = [q \in Queues |-> rxq'[q]]
      /\ \A q \in Queues : Alike(rxq[q], rxq'[q], cookie)
  <2>1. CASE \E id \in Ids : Air(id) \/ AirBeyond(id) \/ AirAgain(id) \/ AirOld(id)
    <3>1. PICK id, nssn, old, retry : Deliver(id, nssn, old, retry)
      BY <2>1 DEF Air, AirBeyond, AirAgain, AirOld
    <3>2. PICK A : /\ rxq' = [q \in Queues |-> rxq[q] \o A[q][1] \o A[q][2]]
                   /\ \A q \in Queues : /\ IsSeq(A[q][1]) /\ NoDelba(A[q][1])
                                        /\ IsSeq(A[q][2]) /\ NoDelba(A[q][2])
      BY <3>1, DeliverFacts
    <3>3. ASSUME NEW q \in Queues PROVE Alike(rxq[q], rxq'[q], cookie)
      <4>1. rxq'[q] = (rxq[q] \o A[q][1]) \o A[q][2]
        BY <3>2
      <4>2. PICK s : s = rxq[q] \o A[q][1]
        OBVIOUS
      <4>3. Alike(rxq[q], s, cookie) /\ Alike(s, s, cookie)
        BY <3>2, <4>2, AlikeSelf, AlikeConcat
      <4>4. Alike(s, s \o A[q][2], cookie)
        BY <3>2, <4>3, AlikeConcat
      <4> QED BY <4>1, <4>2, <4>3, <4>4 DEF Alike
    <3>4. rxq' = [q \in Queues |-> rxq'[q]]
      BY <3>2
    <3> QED BY <3>3, <3>4
  <2>2. ASSUME NEW q \in Queues, Bar(q)
        PROVE  /\ rxq' = [p \in Queues |-> rxq'[p]]
               /\ \A p \in Queues : Alike(rxq[p], rxq'[p], cookie)
    <3>1. PICK m, release :
            /\ m.type # "delba"
            /\ \A p \in Queues : IsSeq(release[p]) /\ NoDelba(release[p])
            /\ rxq' = [p \in Queues |-> IF p = q THEN Append(rxq[p], m)
                                                ELSE rxq[p] \o release[p]]
      <4>1. PICK nssn :
              rxq' = [p \in Queues |->
                        IF p = q
                        THEN Append(rxq[p], [type |-> "release", nssn |-> nssn % SnMod])
                        ELSE rxq[p] \o Releases(rcvd, nssn, {q}, {})[p]]
        BY <2>2 DEF Bar
      <4>2. [type |-> "release", nssn |-> nssn % SnMod].type # "delba"
        OBVIOUS
      <4>3. \A p \in Queues : /\ IsSeq(Releases(rcvd, nssn, {q}, {})[p])
                              /\ NoDelba(Releases(rcvd, nssn, {q}, {})[p])
        BY ReleasesFacts
      <4> QED BY <4>1, <4>2, <4>3
    <3>2. ASSUME NEW p \in Queues PROVE Alike(rxq[p], rxq'[p], cookie)
      <4>1. Alike(rxq[p], rxq[p], cookie)
        BY AlikeSelf
      <4>2. CASE p = q
        <5>1. rxq'[p] = Append(rxq[p], m)
          BY <3>1, <4>2
        <5>2. ~Of(m, cookie) /\ m.type # "delba"
          BY <3>1 DEF Of
        <5> QED BY <4>1, <5>1, <5>2, AppendFacts DEF Alike
      <4>3. CASE p # q
        <5>1. rxq'[p] = rxq[p] \o release[p]
          BY <3>1, <4>3
        <5> QED BY <3>1, <4>1, <5>1, AlikeConcat
      <4> QED BY <4>2, <4>3
    <3>3. rxq' = [p \in Queues |-> rxq'[p]]
      BY <3>1
    <3> QED BY <3>2, <3>3
  <2> QED BY <2>1, <2>2
<1> QED BY <1>1, <1>2, AlikeSelf, AlikeStep
(* The handlers of the queues that handle another message or no message.   *)
LEMMA ApplySync ==
  ASSUME SyncInv, NEW q \in Queues,
         RxFrame(q) \/ RxRelease(q) \/ RxNssnSync(q) \/ TimerHandler(q)
  PROVE  SyncInv'
PROOF
<1>0. IsSeq(Quiet(q).sync)
  BY EmptyFacts DEF Quiet
<1>1. PICK r : IsSeq(r.sync) /\ Apply(q, r)
  <2>1. CASE RxFrame(q)
    BY <1>0, <2>1, ReorderSync DEF RxFrame
  <2>2. CASE RxRelease(q) \/ RxNssnSync(q)
    BY <1>0, <2>2, ReleaseSync, OneIsSeq DEF RxRelease, RxNssnSync
  <2>3. CASE TimerHandler(q)
    BY <2>3, TimerSync, OneIsSeq DEF TimerHandler
  <2> QED BY <2>1, <2>2, <2>3
<1>2. /\ Alike(cmds, cmds', cookie)
      /\ \/ counter' = counter /\ (spoilt' <=> spoilt)
         \/ counter' = 0 /\ (pc \in {"notify", "wait"} => spoilt')
  BY <1>1, ApplyFacts
<1>3. UNCHANGED <<cookie, pc>>
  BY DEF RxFrame, RxRelease, RxNssnSync, TimerHandler, ctlVars
<1>4. /\ rxq' = [p \in Queues |-> rxq'[p]]
      /\ \A p \in Queues : Alike(rxq[p], rxq'[p], cookie)
  <2>1. CASE TimerHandler(q)
    <3>1. rxq' = rxq
      BY <2>1 DEF TimerHandler
    <3>2. rxq = [p \in Queues |-> rxq[p]]
      BY DEF SyncInv, MsgInv
    <3> QED BY <3>1, <3>2, AlikeSelf
  <2>2. CASE RxFrame(q) \/ RxRelease(q) \/ RxNssnSync(q)
    <3>1. /\ rxq[q] # <<>> /\ Head(rxq[q]).type # "delba"
          /\ rxq' = [rxq EXCEPT ![q] = Tail(@)]
      BY <2>2 DEF RxFrame, RxRelease, RxNssnSync, Receive
    <3>2. ~Of(Head(rxq[q]), cookie)
      BY <3>1 DEF Of
    <3> QED BY <3>1, <3>2, ReceiveFacts
  <2> QED BY <2>1, <2>2
<1> QED BY <1>2, <1>3, <1>4, AlikeStep

(* A DEL_BA message: one that has expired is ignored, and the message of   *)
(* this deletion is counted once for its queue.                            *)
LEMMA DelbaSync ==
  ASSUME SyncInv, NEW q \in Queues, RxDelBa(q)
  PROVE  SyncInv'
PROOF
<1>1. /\ rxq[q] # <<>> /\ Head(rxq[q]).type = "delba"
      /\ rxq' = [rxq EXCEPT ![q] = Tail(@)]
      /\ UNCHANGED <<cookie, pc, spoilt>>
  BY DEF RxDelBa, Receive, ctlVars
<1>2. CASE Expired(Head(rxq[q]))
  <2>1. ~Of(Head(rxq[q]), cookie)
    BY <1>2 DEF Of, Expired
  <2>2. UNCHANGED <<cmds, counter>>
    BY <1>2 DEF RxDelBa
  <2> QED BY <1>1, <2>1, <2>2, ReceiveFacts, AlikeSelf, AlikeStep
<1>3. CASE ~Expired(Head(rxq[q]))
  <2>1. Of(Head(rxq[q]), cookie)
    BY <1>1, <1>3 DEF Of, Expired
  <2>2. counter' = counter - 1 /\ cmds' = cmds
    BY <1>3 DEF RxDelBa
  <2>3. /\ IsSeq(rxq[q]) /\ UpTo(rxq[q], cookie) /\ Once(rxq[q], cookie)
        /\ rxq = [p \in Queues |-> rxq[p]] /\ counter \in Int
    BY DEF SyncInv, MsgInv, OnceInv
  <2>4. /\ IsSeq(Tail(rxq[q])) /\ UpTo(Tail(rxq[q]), cookie)
        /\ Once(Tail(rxq[q]), cookie) /\ ~Holds(Tail(rxq[q]), cookie)
        /\ Holds(rxq[q], cookie)
    BY <1>1, <2>1, <2>3, TailFacts
  <2>5. /\ rxq'[q] = Tail(rxq[q]) /\ rxq' = [p \in Queues |-> rxq'[p]]
        /\ \A p \in Queues : p # q => rxq'[p] = rxq[p]
    BY <1>1, <2>3
  <2>6. pc = "wait" /\ ~Holds(cmds, cookie)
    BY <2>4 DEF SyncInv, OnceInv
  <2>7. MsgInv'
    BY <1>1, <2>2, <2>3, <2>4, <2>5 DEF SyncInv, MsgInv
  <2>8. OnceInv'
    BY <1>1, <2>2, <2>4, <2>5, <2>6 DEF SyncInv, OnceInv
  <2>9. CountInv'
    <3>1. Reaches = Reaches' \cup {q} /\ q \notin Reaches'
      BY <1>1, <2>4, <2>5 DEF Reaches
    <3>2. IsFiniteSet(Reaches')
      BY FS_Subset, ReorderBufferAssumption DEF Reaches
    <3>3. Cardinality(Reaches) = Cardinality(Reaches') + 1 /\ Cardinality(Reaches') \in Nat
      BY <3>1, <3>2, FS_AddElement, FS_CardinalityType
    <3>4. ~spoilt => counter = Cardinality(Reaches)
      BY <2>6 DEF SyncInv, CountInv
    <3>5. ~spoilt => counter' = Cardinality(Reaches')
      BY <2>2, <3>3, <3>4
    <3> QED BY <1>1, <2>2, <2>6, <3>5 DEF CountInv
  <2> QED BY <2>7, <2>8, <2>9 DEF SyncInv
<1> QED BY <1>2, <1>3

(* The firmware puts the message of a trigger command on every queue. *)
LEMMA TriggerSync == ASSUME SyncInv, Trigger PROVE SyncInv'
PROOF
<1>1. PICK m : m = Head(cmds)
  OBVIOUS
<1>2. /\ cmds # <<>> /\ cmds' = Tail(cmds)
      /\ rxq' = [q \in Queues |-> Append(rxq[q], m)]
      /\ UNCHANGED <<counter, cookie, pc, spoilt>>
  BY <1>1 DEF Trigger, ctlVars, histVars
<1>3. IsSeq(cmds) /\ UpTo(cmds, cookie) /\ Once(cmds, cookie)
  BY DEF SyncInv, MsgInv, OnceInv
<1>4. /\ IsSeq(Tail(cmds)) /\ UpTo(Tail(cmds), cookie) /\ Once(Tail(cmds), cookie)
      /\ m.type = "delba" => m.cookie \in Nat /\ m.cookie <= cookie
      /\ ~Of(m, cookie) => (Holds(Tail(cmds), cookie) <=> Holds(cmds, cookie))
      /\ Of(m, cookie) => Holds(cmds, cookie) /\ ~Holds(Tail(cmds), cookie)
  BY <1>1, <1>2, <1>3, TailFacts
<1>5. /\ rxq' = [q \in Queues |-> rxq'[q]]
      /\ \A q \in Queues : rxq'[q] = Append(rxq[q], m)
  BY <1>2
<1>6. ASSUME NEW q \in Queues
      PROVE  /\ IsSeq(rxq'[q]) /\ UpTo(rxq'[q], cookie)
             /\ ~Of(m, cookie) => Alike(rxq[q], rxq'[q], cookie)
             /\ Of(m, cookie) => Once(rxq'[q], cookie) /\ Holds(rxq'[q], cookie)
  <2>1. /\ IsSeq(rxq[q]) /\ UpTo(rxq[q], cookie) /\ Once(rxq[q], cookie)
        /\ Holds(cmds, cookie) => ~Holds(rxq[q], cookie)
    BY DEF SyncInv, MsgInv, OnceInv
  <2>2. rxq'[q] = Append(rxq[q], m)
    BY <1>5
  <2> QED BY <1>4, <2>1, <2>2, AppendFacts DEF Alike
<1>7. CASE ~Of(m, cookie)
  <2>1. Alike(cmds, cmds', cookie)
    BY <1>2, <1>4, <1>7 DEF Alike
  <2> QED BY <1>2, <1>5, <1>6, <1>7, <2>1, AlikeStep
<1>8. CASE Of(m, cookie)
  <2>1. Holds(cmds, cookie) /\ ~Holds(cmds', cookie) /\ pc = "wait"
    BY <1>2, <1>4, <1>8 DEF SyncInv, OnceInv
  <2>2. MsgInv'
    BY <1>2, <1>4, <1>5, <1>6 DEF SyncInv, MsgInv
  <2>3. OnceInv'
    BY <1>2, <1>4, <1>6, <1>8, <2>1 DEF OnceInv
  <2>4. Reaches' = Queues
    BY <1>2, <1>6, <1>8 DEF Reaches
  <2>5. CountInv'
    BY <1>2, <2>1, <2>4 DEF SyncInv, CountInv
  <2> QED BY <2>2, <2>3, <2>5 DEF SyncInv
<1> QED BY <1>7, <1>8
(* The thread ends its wait: the messages of this deletion expire. *)
LEMMA EndSyncSync ==
  ASSUME SyncInv, EndSync
  PROVE  SyncInv'
PROOF
<1>1. /\ pc' = "free" /\ counter' = 0 /\ cookie' = cookie + 1
      /\ UNCHANGED <<cmds, rxq>>
  BY DEF EndSync
<1>2. cookie \in Nat
  BY DEF SyncInv, MsgInv
<1>3. ASSUME NEW s, UpTo(s, cookie)
      PROVE  UpTo(s, cookie + 1) /\ ~Holds(s, cookie + 1) /\ Once(s, cookie + 1)
  BY <1>2, <1>3 DEF UpTo, Holds, Once, Of
<1>4. /\ UpTo(cmds, cookie) /\ IsSeq(cmds) /\ rxq = [q \in Queues |-> rxq[q]]
      /\ \A q \in Queues : UpTo(rxq[q], cookie) /\ IsSeq(rxq[q])
  BY DEF SyncInv, MsgInv
<1>5. MsgInv'
  BY <1>1, <1>2, <1>3, <1>4 DEF MsgInv
<1>6. OnceInv'
  BY <1>1, <1>3, <1>4 DEF OnceInv
<1> QED BY <1>1, <1>5, <1>6 DEF SyncInv, CountInv

(* The thread that starts and stops the session. *)
LEMMA ThreadSync ==
  ASSUME SyncInv, KillInv, StartFirmware \/ StartMap \/ StopFirmware \/ Stop
  PROVE  SyncInv'
PROOF
<1>1. CASE \/ StartFirmware \/ StartMap \/ StopUnmap
           \/ \E q \in Queues : FreeReorder(q)
  <2>1. /\ UNCHANGED <<cmds, rxq, cookie, counter>>
        /\ pc \notin {"notify", "wait"} /\ pc' \notin {"notify", "wait"}
    BY <1>1 DEF StartFirmware, StartMap, StopUnmap, FreeReorder, syncVars
  <2> QED BY <2>1 DEF SyncInv, MsgInv, OnceInv, CountInv
<1>2. CASE StopFirmware
  <2>1. /\ UNCHANGED <<cmds, rxq, cookie>> /\ pc # "wait" /\ pc' = "notify"
        /\ counter' = Cardinality(Queues)
    BY <1>2 DEF StopFirmware
  <2>2. Cardinality(Queues) \in Nat
    BY FS_CardinalityType, ReorderBufferAssumption
  <2>3. MsgInv'
    BY <2>1, <2>2 DEF SyncInv, MsgInv
  <2>4. OnceInv'
    BY <2>1 DEF SyncInv, OnceInv
  <2>5. CountInv'
    BY <2>1 DEF CountInv
  <2> QED BY <2>3, <2>4, <2>5 DEF SyncInv
<1>3. CASE SyncNotify
  <2>1. PICK m : m = [type |-> "delba", cookie |-> cookie]
    OBVIOUS
  <2>2. /\ UNCHANGED <<rxq, cookie, counter, spoilt>> /\ pc = "notify" /\ pc' = "wait"
        /\ cmds' = Append(cmds, m) \/ (killed /\ cmds' = cmds)
    BY <1>3, <2>1 DEF SyncNotify, histVars
  <2>3. /\ IsSeq(cmds) /\ UpTo(cmds, cookie) /\ ~Holds(cmds, cookie) /\ cookie \in Nat
        /\ \A q \in Queues : ~Holds(rxq[q], cookie)
    BY <2>2 DEF SyncInv, MsgInv, OnceInv
  <2>4. Of(m, cookie) /\ m.cookie \in Nat /\ m.cookie <= cookie
    BY <2>1, <2>3 DEF Of
  <2>5. /\ IsSeq(cmds') /\ UpTo(cmds', cookie) /\ Once(cmds', cookie)
        /\ Holds(cmds', cookie) \/ killed
    BY <2>2, <2>3, <2>4, AppendFacts DEF SyncInv, OnceInv
  <2>6. MsgInv'
    BY <2>2, <2>5 DEF SyncInv, MsgInv
  <2>7. OnceInv'
    BY <2>2, <2>3, <2>5 DEF SyncInv, OnceInv
  <2>8. CountInv'
    BY <2>2, <2>5 DEF CountInv, KillInv, SyncInv
  <2> QED BY <2>6, <2>7, <2>8 DEF SyncInv
<1>4. CASE SyncNotifyFails \/ SyncDone \/ SyncTimeout
  BY <1>4, EndSyncSync DEF SyncNotifyFails, SyncDone, SyncTimeout
<1> QED BY <1>1, <1>2, <1>3, <1>4 DEF Stop, SyncEnd

(* No step forgets a kill of the radio while the deletion goes on. *)
LEMMA KillStep == KillInv /\ [Next]_vars => KillInv'
PROOF
<1> SUFFICES ASSUME KillInv, [Next]_vars PROVE KillInv'
  OBVIOUS
<1>1. CASE \/ \E id \in Ids : Air(id) \/ AirBeyond(id) \/ AirAgain(id) \/ AirOld(id)
           \/ \E q \in Queues : Bar(q) \/ TimerFires(q)
           \/ Trigger \/ TimePasses \/ UNCHANGED vars
  <2>1. UNCHANGED <<pc, killed, spoilt>>
    BY <1>1 DEF Air, AirBeyond, AirAgain, AirOld, Bar, TimerFires, Trigger, TimePasses,
                vars, ctlVars, envVars, histVars
  <2> QED BY <2>1 DEF KillInv
<1>2. ASSUME NEW q \in Queues, Rx(q) \/ TimerHandler(q) PROVE KillInv'
  <2>1. UNCHANGED <<pc, killed>>
    BY <1>2 DEF Rx, RxFrame, RxRelease, RxNssnSync, RxDelBa, TimerHandler,
                ctlVars, envVars
  <2>2. CASE RxDelBa(q)
    BY <2>1, <2>2 DEF RxDelBa, KillInv
  <2>3. CASE ~RxDelBa(q)
    <3>1. PICK r : Apply(q, r)
      BY <1>2, <2>3 DEF Rx, RxFrame, RxRelease, RxNssnSync, TimerHandler
    <3>2. spoilt => spoilt'
      BY <3>1 DEF Apply
    <3> QED BY <2>1, <3>2 DEF KillInv
  <2> QED BY <2>2, <2>3
<1>3. CASE StartFirmware \/ StartMap \/ StopFirmware \/ Stop
  <2>1. /\ killed' = killed
        /\ \/ pc' \notin {"notify", "wait"} \/ spoilt' = killed
           \/ pc = "notify" /\ spoilt' = spoilt
    BY <1>3 DEF StartFirmware, StartMap, StopFirmware, Stop, SyncEnd, SyncNotify,
                SyncNotifyFails, SyncDone, SyncTimeout, EndSync, FreeReorder, StopUnmap,
                envVars, histVars
  <2> QED BY <2>1 DEF KillInv
<1>4. CASE RadioKill \/ RadioBack
  BY <1>4 DEF RadioKill, RadioBack, KillInv, ctlVars
<1> QED BY <1>1, <1>2, <1>3, <1>4 DEF Next, Timer

LEMMA StepSync == SyncInv /\ KillInv /\ [Next]_vars => SyncInv'
PROOF
<1> SUFFICES ASSUME SyncInv, KillInv, [Next]_vars PROVE SyncInv'
  OBVIOUS
<1>1. CASE \/ \E id \in Ids : Air(id) \/ AirBeyond(id) \/ AirAgain(id) \/ AirOld(id)
           \/ \E q \in Queues : Bar(q)
  BY <1>1, FirmwareSync
<1>2. ASSUME NEW q \in Queues, Rx(q) \/ TimerHandler(q) PROVE SyncInv'
  BY <1>2, ApplySync, DelbaSync DEF Rx
<1>3. CASE Trigger
  BY <1>3, TriggerSync
<1>4. CASE TimePasses \/ (\E q \in Queues : TimerFires(q)) \/ UNCHANGED vars
  <2>1. UNCHANGED <<cmds, rxq, cookie, counter, pc, spoilt>>
    BY <1>4 DEF TimePasses, TimerFires, vars, syncVars, ctlVars, histVars
  <2> QED BY <2>1 DEF SyncInv, MsgInv, OnceInv, CountInv, Reaches
<1>5. CASE StartFirmware \/ StartMap \/ StopFirmware \/ Stop
  BY <1>5, ThreadSync
<1>6. CASE RadioKill \/ RadioBack
  <2>1. UNCHANGED <<cmds, rxq, cookie, counter, pc>>
    BY <1>6 DEF RadioKill, RadioBack, syncVars, ctlVars
  <2>2. spoilt => spoilt'
    BY <1>6 DEF RadioKill, RadioBack, histVars
  <2> QED BY <2>1, <2>2 DEF SyncInv, MsgInv, OnceInv, CountInv, Reaches
<1> QED BY <1>1, <1>2, <1>3, <1>4, <1>5, <1>6 DEF Next, Timer

LEMMA SyncInit == Init => SyncInv
PROOF
<1> SUFFICES ASSUME Init PROVE SyncInv
  OBVIOUS
<1>1. cmds = <<>> /\ cookie = 0 /\ counter = 0 /\ pc = "idle"
      /\ rxq = [q \in Queues |-> <<>>]
  BY DEF Init
<1>2. \A q \in Queues : rxq[q] = <<>>
  BY <1>1
<1>3. MsgInv
  BY <1>1, <1>2, EmptyFacts DEF MsgInv
<1>4. OnceInv
  BY <1>1, <1>2, EmptyFacts DEF OnceInv
<1> QED BY <1>1, <1>3, <1>4 DEF SyncInv, CountInv

(* queue_sync_counter is exact for any number of queues and deletions      *)
(* (iwl_mvm_sync_rx_queues_internal, iwl_mvm_rx_queue_notif): while no     *)
(* asynchronous message clears it and the radio is not killed, it is the   *)
(* number of queues that have not handled the current message, and no      *)
(* message delayed from an earlier deletion, which may have timed out or   *)
(* been cut short by a kill, takes anything from it.                       *)
THEOREM CounterCorrect == Spec => []CounterExact
PROOF
<1>1. SyncInv => CounterExact
  <2> SUFFICES ASSUME SyncInv PROVE CounterExact
    OBVIOUS
  <2>1. ASSUME NEW s, IsSeq(s)
        PROVE  (\E m \in Range(s) : DelBa(m)) <=> Holds(s, cookie)
    <3>1. DOMAIN s = 1..Len(s)
      BY <2>1 DEF IsSeq
    <3> QED BY <3>1 DEF Holds, Range, DelBa, Of
  <2>2. (\E m \in Range(cmds) : DelBa(m)) <=> Holds(cmds, cookie)
    BY <2>1 DEF SyncInv, MsgInv
  <2>3. \A q \in Queues : (\E m \in Range(rxq[q]) : DelBa(m)) <=> Holds(rxq[q], cookie)
    BY <2>1 DEF SyncInv, MsgInv
  <2>4. {q \in Queues : \E m \in Range(rxq[q]) : DelBa(m)} = Reaches
    BY <2>3 DEF Reaches
  <2> QED BY <2>2, <2>4 DEF CounterExact, SyncInv, CountInv
<1>2. Init => KillInv
  BY DEF Init, KillInv
<1> QED BY <1>1, <1>2, SyncInit, StepSync, KillStep, PTL DEF Spec
-----------------------------------------------------------------------------
(* Numbers: sets of them have a least and a greatest element, and the      *)
(* entry index of a sequence number.                                       *)

LEMMA Least ==
  ASSUME NEW T, T \subseteq Nat, T # {}
  PROVE  \E x \in T : \A y \in T : x <= y
PROOF
<1>1. PICK R : R = {ss \in Nat \X Nat : ss[1] < ss[2]} /\ IsWellFoundedOn(R, Nat)
  BY NatLessThanWellFounded DEF OpToRel
<1>2. PICK x \in T : \A y \in T : ~ (<<y, x>> \in R)
  BY <1>1, WFMin
<1>3. \A y \in T : ~(y < x)
  BY <1>1, <1>2
<1> QED BY <1>3

LEMMA Greatest ==
  ASSUME NEW T, NEW a \in Int, NEW b \in Int, T \subseteq a..b, T # {}
  PROVE  \E x \in T : \A y \in T : y <= x
PROOF
<1> DEFINE D == {b - x : x \in T}
<1>1. D \subseteq Nat /\ D # {}
  OBVIOUS
<1>2. PICK d \in D : \A y \in D : d <= y
  BY <1>1, Least
<1>3. PICK x \in T : d = b - x
  OBVIOUS
<1>4. \A y \in T : b - y \in D /\ y \in Int
  OBVIOUS
<1>5. \A y \in T : d <= b - y
  BY <1>2, <1>4
<1> HIDE DEF D
<1>6. \A y \in T : y <= x
  BY <1>3, <1>4, <1>5
<1> QED BY <1>6

(* Division with remainder, and the remainder from any way to write the    *)
(* number with it.                                                         *)
LEMMA Division ==
  ASSUME NEW n \in Int, NEW d \in Nat \ {0}
  PROVE  n % d \in 0..(d - 1) /\ \E w \in Int : n = d * w + (n % d)
PROOF
<1>1. n = d * (n \div d) + (n % d) /\ n % d \in 0..(d - 1) /\ n \div d \in Int
  BY SMT
<1> QED BY <1>1

LEMMA Remainder ==
  ASSUME NEW n \in Int, NEW d \in Nat \ {0}, NEW k \in Int, NEW r \in 0..(d - 1),
         n = d * k + r
  PROVE  n % d = r
PROOF
<1>1. n % d \in 0..(d - 1)
  BY Division
<1>2. PICK w \in Int : n = d * w + (n % d)
  BY Division
<1>3. PICK m \in Int : m = k - w
  OBVIOUS
<1>4. d * m = (n % d) - r
  BY <1>1, <1>2, <1>3
<1>5. m >= 1 => d * m >= d
  BY SMT
<1>6. m <= -1 => d * m <= -d
  BY SMT
<1>7. m = 0
  BY <1>1, <1>4, <1>5, <1>6
<1> QED BY <1>1, <1>4, <1>7

(* Sizes, and the ranges of sequence numbers and entry indices. *)
LEMMA Sizes ==
  /\ SnMod \in Nat \ {0} /\ BufSize \in Nat \ {0} /\ BufSize < Half /\ Half \in Nat
  /\ SnMod = 2 * Half
PROOF BY ReorderAlgAssumption DEF Half

LEMMA SnRange == ASSUME NEW x \in Int PROVE x % SnMod \in Sns /\ x % BufSize \in Indices
PROOF BY Sizes, Division DEF Sns, Indices

LEMMA SnAddRange == ASSUME NEW s \in Sns, NEW n \in Int PROVE SnAdd(s, n) \in Sns
PROOF
<1>1. s + n \in Int
  BY DEF Sns
<1> QED BY <1>1, SnRange DEF SnAdd

(* When the buffer size divides the sequence space, a full window meets    *)
(* every entry.                                                            *)
LEMMA WindowCovers ==
  ASSUME SnMod % BufSize = 0, NEW head \in Sns, NEW k \in Indices
  PROVE  \E i \in 1..BufSize : SnAdd(head, i - 1) % BufSize = k
PROOF
<1>1. /\ k \in Int /\ head \in Int /\ 0 <= k /\ k < BufSize /\ 0 <= head /\ head < SnMod
      /\ SnMod \in Nat \ {0} /\ BufSize \in Nat \ {0} /\ BufSize < SnMod
      /\ k - head \in Int
  BY Sizes DEF Sns, Indices
<1>2. PICK d \in 0..(BufSize - 1), w \in Int : k - head = BufSize * w + d
  BY <1>1, Division
<1>3. PICK s \in Int : SnMod = BufSize * s
  <2>1. SnMod \in Int
    BY <1>1
  <2>2. PICK s \in Int : SnMod = BufSize * s + (SnMod % BufSize)
    BY <1>1, <2>1, Division
  <2>3. SnMod = BufSize * s
    BY <1>1, <2>2
  <2> QED BY <2>3
<1>4. PICK x \in Int : x = head + d
  BY <1>1
<1>5. PICK u \in {0, 1} : x % SnMod = x - u * SnMod
  <2>1. CASE x < SnMod
    <3>1. x = SnMod * 0 + x /\ x \in 0..(SnMod - 1)
      BY <1>1, <1>2, <1>4, <2>1
    <3>2. x % SnMod = x
      BY <1>1, <3>1, Remainder
    <3> QED BY <1>1, <3>2
  <2>2. CASE x >= SnMod
    <3>1. x = SnMod * 1 + (x - SnMod) /\ x - SnMod \in 0..(SnMod - 1)
      BY <1>1, <1>2, <1>4, <2>2
    <3>2. x % SnMod = x - SnMod
      BY <1>1, <3>1, Remainder
    <3> QED BY <1>1, <3>2
  <2> QED BY <1>1, <2>1, <2>2
<1>6. PICK c \in Int : x % SnMod = BufSize * c + k
  <2>1. x = k - BufSize * w
    BY <1>1, <1>2, <1>4
  <2>2. CASE u = 0
    <3>1. x % SnMod = BufSize * (0 - w) + k /\ 0 - w \in Int
      BY <1>1, <1>5, <2>1, <2>2
    <3> QED BY <3>1
  <2>3. CASE u = 1
    <3>1. x % SnMod = (k - BufSize * w) - BufSize * s
      BY <1>1, <1>3, <1>5, <2>1, <2>3
    <3>2. (k - BufSize * w) - BufSize * s = BufSize * ((0 - w) - s) + k
      BY <1>1
    <3>3. x % SnMod = BufSize * ((0 - w) - s) + k /\ (0 - w) - s \in Int
      BY <3>1, <3>2
    <3> QED BY <3>3
  <2> QED BY <2>2, <2>3
<1>7. PICK y \in Int : y = x % SnMod
  <2>1. x % SnMod \in 0..(SnMod - 1)
    BY <1>1, Division
  <2>2. x % SnMod \in Int
    BY <2>1
  <2> QED BY <2>2
<1>8. (x % SnMod) % BufSize = k
  <2>1. k \in 0..(BufSize - 1) /\ y = BufSize * c + k
    BY <1>1, <1>6, <1>7
  <2>2. y % BufSize = k
    BY <1>1, <2>1, Remainder
  <2> QED BY <1>7, <2>2
<1>9. d + 1 \in 1..BufSize /\ (d + 1) - 1 = d
  BY <1>1, <1>2
<1>10. SnAdd(head, d) % BufSize = k
  BY <1>4, <1>8 DEF SnAdd
<1> QED BY <1>9, <1>10

-----------------------------------------------------------------------------
(* The frames stored in a buffer *)

(* Entries are lists of frames. *)
Lists(e) == e = [i \in Indices |-> e[i]] /\ \A i \in Indices : IsSeq(e[i])

LEMMA ListLength == ASSUME NEW s, IsSeq(s) PROVE Len(s) \in Nat
PROOF BY DEF IsSeq

LEMMA PlacesFinite ==
  ASSUME NEW e, Lists(e), NEW I \in SUBSET Indices
  PROVE  IsFiniteSet(Places(e, I)) /\ Cardinality(Places(e, I)) \in Nat
PROOF
<1> DEFINE f == [i \in I |-> {i} \X (1..Len(e[i]))]
           T == {{i} \X (1..Len(e[i])) : i \in I}
<1>1. IsFiniteSet(I)
  <2>1. IsFiniteSet(Indices)
    BY Sizes, FS_Interval DEF Indices
  <2> QED BY <2>1, FS_Subset
<1>2. f \in Surjection(I, T)
  BY DEF Surjection
<1>3. IsFiniteSet(T)
  BY <1>1, <1>2, FS_Surjection
<1>4. ASSUME NEW t \in T PROVE IsFiniteSet(t)
  <2>1. PICK i \in I : t = {i} \X (1..Len(e[i]))
    OBVIOUS
  <2>2. IsFiniteSet({i}) /\ Len(e[i]) \in Nat
    BY FS_Singleton, ListLength DEF Lists
  <2>3. IsFiniteSet(1..Len(e[i]))
    BY <2>2, FS_Interval
  <2> QED BY <2>1, <2>2, <2>3, FS_Product
<1> HIDE DEF T
<1>5. IsFiniteSet(UNION T)
  BY <1>3, <1>4, FS_UNION
<1>6. IsFiniteSet(Places(e, I))
  BY <1>5 DEF Places, T
<1> QED BY <1>6, FS_CardinalityType

(* The frames of some entries and those of the others are all frames. *)
LEMMA PlacesSplit ==
  ASSUME NEW e, Lists(e), NEW I \in SUBSET Indices
  PROVE  Cardinality(Places(e, Indices))
           = Cardinality(Places(e, I)) + Cardinality(Places(e, Indices \ I))
PROOF
<1>1. PICK A, B : A = Places(e, I) /\ B = Places(e, Indices \ I)
  OBVIOUS
<1>2. /\ IsFiniteSet(A) /\ Cardinality(A) \in Nat
      /\ IsFiniteSet(B) /\ Cardinality(B) \in Nat
  BY <1>1, PlacesFinite
<1>3. Places(e, Indices) = A \cup B /\ A \cap B = {}
  BY <1>1 DEF Places
<1>4. Cardinality(A \cup B) = Cardinality(A) + Cardinality(B) - Cardinality({})
  BY <1>2, <1>3, FS_Union
<1>5. Cardinality(A \cup B) = Cardinality(A) + Cardinality(B)
  BY <1>2, <1>4, FS_EmptySet
<1> QED BY <1>1, <1>3, <1>5

(* Entries that are emptied. *)
LEMMA PlacesCleared ==
  ASSUME NEW e, Lists(e), NEW I \in SUBSET Indices, NEW g,
         g = [i \in Indices |-> IF i \in I THEN <<>> ELSE e[i]]
  PROVE  /\ Lists(g)
         /\ Cardinality(Places(g, Indices))
              = Cardinality(Places(e, Indices)) - Cardinality(Places(e, I))
PROOF
<1>1. Lists(g)
  BY EmptyFacts DEF Lists
<1>2. Places(g, Indices) = Places(e, Indices \ I)
  <2> DEFINE row(h, i) == {i} \X (1..Len(h[i]))
  <2>1. \A i \in I : row(g, i) = {}
    BY EmptyFacts
  <2>2. \A i \in Indices \ I : row(g, i) = row(e, i)
    OBVIOUS
  <2>3. Places(g, Indices) = UNION {row(g, i) : i \in Indices}
    BY DEF Places
  <2>4. Places(e, Indices \ I) = UNION {row(e, i) : i \in Indices \ I}
    BY DEF Places
  <2> HIDE DEF row
  <2>5. UNION {row(g, i) : i \in Indices} = UNION {row(e, i) : i \in Indices \ I}
    BY <2>1, <2>2, SMT
  <2> QED BY <2>3, <2>4, <2>5
<1>3. /\ Cardinality(Places(e, I)) \in Nat
      /\ Cardinality(Places(e, Indices \ I)) \in Nat
  BY PlacesFinite
<1>4. Cardinality(Places(e, Indices))
           = Cardinality(Places(e, I)) + Cardinality(Places(e, Indices \ I))
  BY PlacesSplit
<1> QED BY <1>1, <1>2, <1>3, <1>4

(* A frame is added to an entry. *)
LEMMA PlacesAdded ==
  ASSUME NEW e, Lists(e), NEW k \in Indices, NEW f, NEW g,
         g = [e EXCEPT ![k] = Append(@, f)]
  PROVE  /\ Lists(g)
         /\ Cardinality(Places(g, Indices)) = Cardinality(Places(e, Indices)) + 1
PROOF
<1>1. /\ g = [i \in Indices |-> g[i]] /\ g[k] = Append(e[k], f)
      /\ \A i \in Indices \ {k} : g[i] = e[i]
  BY DEF Lists
<1>2. IsSeq(g[k]) /\ IsSeq(e[k])
  BY <1>1, AppendFacts DEF Lists
<1>3. PICK n \in Nat : Len(e[k]) = n /\ Len(g[k]) = n + 1
  BY <1>1, <1>2 DEF IsSeq
<1>4. Lists(g)
  BY <1>1, <1>2 DEF Lists
<1>5. Places(g, Indices) = Places(e, Indices) \cup {<<k, n + 1>>}
  <2> DEFINE row(h, i) == {i} \X (1..Len(h[i]))
  <2>1. \A i \in Indices \ {k} : row(g, i) = row(e, i)
    BY <1>1
  <2>2. row(g, k) = row(e, k) \cup {<<k, n + 1>>}
    BY <1>3
  <2>3. /\ Places(g, Indices) = UNION {row(g, i) : i \in Indices}
        /\ Places(e, Indices) = UNION {row(e, i) : i \in Indices}
    BY DEF Places
  <2> HIDE DEF row
  <2>4. \A x : (\E i \in Indices : x \in row(g, i))
               <=> (\E i \in Indices : x \in row(e, i)) \/ x = <<k, n + 1>>
    BY <2>1, <2>2, Zenon
  <2>5. UNION {row(g, i) : i \in Indices}
          = (UNION {row(e, i) : i \in Indices}) \cup {<<k, n + 1>>}
    BY <2>4
  <2> QED BY <2>3, <2>5
<1>6. <<k, n + 1>> \notin Places(e, Indices)
  BY <1>3 DEF Places
<1> QED BY <1>4, <1>5, <1>6, PlacesFinite, FS_AddElement

(* No frame is stored: every entry is empty. *)
LEMMA PlacesNone ==
  /\ Lists(EmptyEntries) /\ Cardinality(Places(EmptyEntries, Indices)) = 0
PROOF
<1>1. Lists(EmptyEntries)
  BY EmptyFacts DEF Lists, EmptyEntries
<1>2. Places(EmptyEntries, Indices) = {}
  BY EmptyFacts DEF Places, EmptyEntries
<1> QED BY <1>1, <1>2, FS_EmptySet

(* Every frame is in the entry of its sequence number. *)
InPlace(e) ==
  \A i \in Indices : \A k \in 1..Len(e[i]) : SnOf(e[i][k]) % BufSize = i

LEMMA InPlaceNone == InPlace(EmptyEntries)
PROOF BY EmptyFacts DEF InPlace, EmptyEntries

LEMMA InPlaceCleared ==
  ASSUME NEW e, InPlace(e), NEW I, NEW g,
         g = [i \in Indices |-> IF i \in I THEN <<>> ELSE e[i]]
  PROVE  InPlace(g)
PROOF
<1>1. \A k \in 1..Len(<<>>) : FALSE
  BY EmptyFacts
<1>2. \A i \in Indices : g[i] = <<>> \/ g[i] = e[i]
  OBVIOUS
<1> QED BY <1>1, <1>2 DEF InPlace

LEMMA InPlaceAdded ==
  ASSUME NEW e, Lists(e), InPlace(e), NEW f, NEW k \in Indices, k = SnOf(f) % BufSize,
         NEW g, g = [e EXCEPT ![k] = Append(@, f)]
  PROVE  InPlace(g)
PROOF
<1>1. /\ g[k] = Append(e[k], f) /\ IsSeq(e[k])
      /\ \A i \in Indices \ {k} : g[i] = e[i]
  BY DEF Lists
<1>2. PICK s, M : s = e[k] /\ s \in Seq(M)
  BY <1>1 DEF IsSeq
<1>3. \A j \in 1..Len(g[k]) : (j \in 1..Len(s) /\ g[k][j] = s[j]) \/ g[k][j] = f
  BY <1>1, <1>2
<1>4. \A j \in 1..Len(g[k]) : SnOf(g[k][j]) % BufSize = k
  BY <1>2, <1>3 DEF InPlace
<1> QED BY <1>1, <1>4 DEF InPlace

-----------------------------------------------------------------------------
(* The operations on a buffer *)

Fields == {"head", "num", "entries", "aged", "valid", "removed", "timer",
           "lastAmsdu", "lastSub", "gp2", "prevDrop", "drops"}

(* What is known of every buffer, and of one not marked removed. *)
Shape(b) ==
  /\ b = [x \in Fields |-> b[x]]
  /\ b.head \in Sns /\ b.num \in Int /\ Lists(b.entries) /\ InPlace(b.entries)
Counts(b) == b.num = Cardinality(Places(b.entries, Indices))

(* c is a buffer that an operation made of b. *)
Becomes(b, c) ==
  Shape(c) /\ c.removed = b.removed /\ (Counts(b) => Counts(c))

(* c differs from b in fields that do not matter here. *)
LEMMA BecomesSame ==
  ASSUME NEW b, Shape(b), NEW c, c = [x \in Fields |-> c[x]],
         c.head \in Sns, c.num = b.num, c.entries = b.entries, c.removed = b.removed
  PROVE  Becomes(b, c)
PROOF BY DEF Becomes, Shape, Counts

LEMMA BecomesTrans ==
  ASSUME NEW b, NEW c, NEW d, Becomes(b, c), Becomes(c, d)
  PROVE  Becomes(b, d)
PROOF BY DEF Becomes

LEMMA BecomesSelf == ASSUME NEW b, Shape(b) PROVE Becomes(b, b)
PROOF BY DEF Becomes

LEMMA SetTimerBuf ==
  ASSUME NEW b, Shape(b)
  PROVE  /\ Becomes(b, SetTimer(b)) /\ SetTimer(b).num = b.num
         /\ b.num = 0 => SetTimer(b).timer = "off"
PROOF
<1>1. PICK t : SetTimer(b) = [b EXCEPT !.timer = t] /\ (b.num = 0 => t = "off")
  <2>1. CASE b.num > 0 /\ ~b.removed
    <3>1. b.num # 0
      BY <2>1 DEF Shape
    <3>2. SetTimer(b) = [b EXCEPT !.timer = IF b.aged[FirstStored(b)] THEN "due" ELSE "on"]
      BY <2>1 DEF SetTimer, ModTimer
    <3> QED BY <3>1, <3>2
  <2>2. CASE ~(b.num > 0 /\ ~b.removed)
    <3>1. SetTimer(b) = [b EXCEPT !.timer = "off"]
      BY <2>2 DEF SetTimer
    <3> QED BY <3>1
  <2> QED BY <2>1, <2>2
<1>2. PICK c : c = [b EXCEPT !.timer = t]
  OBVIOUS
<1>3. /\ c = [x \in Fields |-> c[x]] /\ c.timer = t
      /\ c.head = b.head /\ c.num = b.num /\ c.entries = b.entries
      /\ c.removed = b.removed
  BY <1>2 DEF Shape, Fields
<1>4. b.head \in Sns
  BY DEF Shape
<1> QED BY <1>1, <1>2, <1>3, <1>4, BecomesSame

(* iwl_mvm_release_frames takes what it releases from num_stored; what is  *)
(* empty stays empty, with its timer off.                                  *)
LEMMA ReleaseBuf ==
  ASSUME NEW b, Shape(b), NEW nssn \in Sns, NEW flags
  PROVE  LET c == ReleaseFrames(b, nssn, flags).buf
         IN  /\ Becomes(b, c)
             /\ b.num = 0 /\ Counts(b) => c.num = 0 /\ c.timer = "off"
PROOF
<1> DEFINE ignored == \/ "from" \in flags /\ SnLess(nssn, b.head)
                      \/ IsSnLess(nssn, b.head)
           n == IF IsSnLess(b.head, nssn) THEN SnSub(nssn, b.head) ELSE 0
           at(i) == SnAdd(b.head, i - 1) % BufSize
           freed == {at(i) : i \in 1..n}
           d == [b EXCEPT !.head = nssn,
                          !.num = @ - Cardinality(Places(b.entries, freed)),
                          !.entries = [i \in Indices |->
                                         IF i \in freed THEN <<>> ELSE @[i]],
                          !.aged = [i \in Indices |-> i \notin freed /\ @[i]]]
<1>1. CASE ignored
  <2>1. ReleaseFrames(b, nssn, flags).buf = SetTimer(b)
    BY <1>1 DEF ReleaseFrames
  <2> QED BY <2>1, SetTimerBuf
<1>2. CASE ~ignored
  <2>1. ReleaseFrames(b, nssn, flags).buf = SetTimer(d)
    BY <1>2 DEF ReleaseFrames
  <2>2. freed \in SUBSET Indices
    <3>1. ASSUME NEW i \in 1..n PROVE at(i) \in Indices
      <4>1. i - 1 \in Int /\ b.head \in Sns
        BY DEF Shape
      <4>2. SnAdd(b.head, i - 1) \in Sns
        BY <4>1, SnAddRange
      <4>3. SnAdd(b.head, i - 1) \in Int
        BY <4>2 DEF Sns
      <4> QED BY <4>3, SnRange
    <3> HIDE DEF at, n
    <3> QED BY <3>1
  <2>3. PICK I \in SUBSET Indices : I = freed
    BY <2>2
  <2> HIDE DEF freed, n, at
  <2>4. /\ d = [x \in Fields |-> d[x]] /\ d.head = nssn
        /\ d.num = b.num - Cardinality(Places(b.entries, I))
        /\ d.entries = [i \in Indices |-> IF i \in I THEN <<>> ELSE b.entries[i]]
        /\ d.removed = b.removed
    BY <2>3 DEF Shape, Fields
  <2>5. PICK g : g = d
    OBVIOUS
  <2> HIDE DEF d
  <2>6. Lists(b.entries) /\ b.num \in Int
    BY DEF Shape
  <2>7. /\ Lists(g.entries)
        /\ Cardinality(Places(g.entries, Indices))
             = Cardinality(Places(b.entries, Indices)) - Cardinality(Places(b.entries, I))
    BY <2>4, <2>5, <2>6, PlacesCleared
  <2>8. /\ Cardinality(Places(b.entries, I)) \in Nat
        /\ Cardinality(Places(b.entries, Indices)) \in Nat
        /\ Cardinality(Places(g.entries, Indices)) \in Nat
    BY <2>6, <2>7, PlacesFinite
  <2>9. Shape(g) /\ (Counts(b) => Counts(g))
    <3>1. InPlace(b.entries)
      BY DEF Shape
    <3>2. InPlace(g.entries)
      <4>1. PICK e, h : e = b.entries /\ h = g.entries
        OBVIOUS
      <4>2. h = [i \in Indices |-> IF i \in I THEN <<>> ELSE e[i]] /\ InPlace(e)
        BY <2>4, <2>5, <3>1, <4>1
      <4> QED BY <4>1, <4>2, InPlaceCleared
    <3> QED BY <2>4, <2>5, <2>6, <2>7, <2>8, <3>2 DEF Shape, Counts
  <2>10. Becomes(b, g)
    BY <2>4, <2>5, <2>9 DEF Becomes
  <2>11. b.num = 0 /\ Counts(b) => g.num = 0
    <3>1. PICK x \in Nat, y \in Nat, z \in Nat :
            /\ x = Cardinality(Places(b.entries, I))
            /\ y = Cardinality(Places(b.entries, Indices))
            /\ z = Cardinality(Places(g.entries, Indices))
      BY <2>8
    <3>2. z = y - x /\ (Counts(b) => y = b.num) /\ g.num = b.num - x
      BY <2>4, <2>5, <2>7, <3>1 DEF Counts
    <3> QED BY <2>6, <3>2
  <2>12. Becomes(g, SetTimer(g)) /\ SetTimer(g).num = g.num
         /\ (g.num = 0 => SetTimer(g).timer = "off")
    BY <2>9, SetTimerBuf
  <2> QED BY <2>1, <2>5, <2>10, <2>11, <2>12, BecomesTrans
<1> QED BY <1>1, <1>2

(* A release of the whole window empties the buffer. *)
LEMMA ReleaseAll ==
  ASSUME SnMod % BufSize = 0, NEW b, Shape(b), Counts(b)
  PROVE  ReleaseFrames(b, SnAdd(b.head, BufSize), {}).buf.num = 0
PROOF
<1>1. PICK h \in Sns, nssn \in Sns : h = b.head /\ nssn = SnAdd(h, BufSize)
  <2>1. b.head \in Sns /\ BufSize \in Int
    BY Sizes DEF Shape
  <2>2. SnAdd(b.head, BufSize) \in Sns
    BY <2>1, SnAddRange
  <2> QED BY <2>1, <2>2
<1>2. /\ SnMod \in Nat \ {0} /\ BufSize \in Nat \ {0} /\ BufSize < Half /\ Half \in Nat
      /\ SnMod = 2 * Half /\ h \in Int /\ 0 <= h /\ h < SnMod
      /\ nssn \in Int /\ 0 <= nssn /\ nssn < SnMod
  BY Sizes DEF Sns
<1>3. nssn = IF h + BufSize < SnMod THEN h + BufSize ELSE h + BufSize - SnMod
  <2>1. CASE h + BufSize < SnMod
    <3>1. h + BufSize = SnMod * 0 + (h + BufSize) /\ h + BufSize \in 0..(SnMod - 1)
      BY <1>2, <2>1
    <3>2. (h + BufSize) % SnMod = h + BufSize
      BY <1>2, <3>1, Remainder
    <3> QED BY <1>1, <2>1, <3>2 DEF SnAdd
  <2>2. CASE h + BufSize >= SnMod
    <3>1. /\ h + BufSize = SnMod * 1 + (h + BufSize - SnMod)
          /\ h + BufSize - SnMod \in 0..(SnMod - 1) /\ h + BufSize \in Int
      BY <1>2, <2>2
    <3>2. (h + BufSize) % SnMod = h + BufSize - SnMod
      BY <1>2, <3>1, Remainder
    <3> QED BY <1>1, <1>2, <2>2, <3>2 DEF SnAdd
  <2> QED BY <1>2, <2>1, <2>2
<1>4. \A x, y \in 0..(SnMod - 1) : SnSub(x, y) = IF x >= y THEN x - y ELSE x - y + SnMod
  <2> TAKE x, y \in 0..(SnMod - 1)
  <2>1. CASE x >= y
    <3>1. /\ x + SnMod - y = SnMod * 1 + (x - y) /\ x - y \in 0..(SnMod - 1)
          /\ x + SnMod - y \in Int
      BY <1>2, <2>1
    <3>2. (x + SnMod - y) % SnMod = x - y
      BY <1>2, <3>1, Remainder
    <3> QED BY <2>1, <3>2 DEF SnSub
  <2>2. CASE x < y
    <3>1. /\ x + SnMod - y = SnMod * 0 + (x - y + SnMod) /\ x - y + SnMod \in 0..(SnMod - 1)
          /\ x + SnMod - y \in Int
      BY <1>2, <2>2
    <3>2. (x + SnMod - y) % SnMod = x - y + SnMod
      BY <1>2, <3>1, Remainder
    <3> QED BY <1>2, <2>2, <3>2 DEF SnSub
  <2> QED BY <1>2, <2>1, <2>2
<1>5. /\ SnSub(nssn, h) = BufSize /\ SnSub(h, nssn) = SnMod - BufSize
      /\ SnSub(nssn, BufSize) = h /\ SnSub(h, h) = 0
  <2>1. h \in 0..(SnMod - 1) /\ nssn \in 0..(SnMod - 1) /\ BufSize \in 0..(SnMod - 1)
    BY <1>2
  <2>2. /\ SnSub(nssn, h) = IF nssn >= h THEN nssn - h ELSE nssn - h + SnMod
        /\ SnSub(h, nssn) = IF h >= nssn THEN h - nssn ELSE h - nssn + SnMod
        /\ SnSub(nssn, BufSize) = IF nssn >= BufSize THEN nssn - BufSize
                                                     ELSE nssn - BufSize + SnMod
        /\ SnSub(h, h) = IF h >= h THEN h - h ELSE h - h + SnMod
    BY <1>4, <2>1
  <2> QED BY <1>2, <1>3, <2>2
<1>6. ~IsSnLess(nssn, h) /\ IsSnLess(h, nssn)
  BY <1>2, <1>5 DEF IsSnLess, SnLess
<1> DEFINE freed == {SnAdd(h, i - 1) % BufSize : i \in 1..BufSize}
           d == [b EXCEPT !.head = nssn,
                          !.num = @ - Cardinality(Places(b.entries, freed)),
                          !.entries = [i \in Indices |->
                                         IF i \in freed THEN <<>> ELSE @[i]],
                          !.aged = [i \in Indices |-> i \notin freed /\ @[i]]]
<1>7. ReleaseFrames(b, nssn, {}).buf = SetTimer(d)
  BY <1>1, <1>5, <1>6 DEF ReleaseFrames
<1>8. freed = Indices
  <2>1. ASSUME NEW i \in 1..BufSize PROVE SnAdd(h, i - 1) % BufSize \in Indices
    <3>1. i - 1 \in Int
      OBVIOUS
    <3>2. SnAdd(h, i - 1) \in Int
      BY <3>1, SnAddRange DEF Sns
    <3> QED BY <3>2, SnRange
  <2>2. freed \subseteq Indices
    BY <2>1
  <2>3. Indices \subseteq freed
    BY WindowCovers
  <2> QED BY <2>2, <2>3
<1> HIDE DEF freed
<1>9. d.num = 0
  <2>1. d.num = b.num - Cardinality(Places(b.entries, Indices))
    BY <1>8 DEF Shape, Fields
  <2> QED BY <2>1 DEF Counts, Shape
<1>10. SetTimer(d).num = d.num
  <2>1. PICK t : SetTimer(d) = [d EXCEPT !.timer = t]
    BY DEF SetTimer, ModTimer
  <2>2. "num" \in DOMAIN d
    BY DEF Shape, Fields
  <2> HIDE DEF d
  <2> QED BY <2>1, <2>2
<1> QED BY <1>1, <1>7, <1>9, <1>10

(* iwl_mvm_reorder_timer_expired, which does nothing in an empty buffer. *)
LEMMA TimerBuf ==
  ASSUME NEW b, Shape(b)
  PROVE  Becomes(b, TimerExpired(b).buf)
PROOF
<1> DEFINE at(i) == (b.head + i) % BufSize
           inUse(i) == b.entries[at(i)] # <<>>
           young == {i \in Indices : /\ inUse(i)
                                     /\ i = 0 \/ ~inUse(i - 1)
                                     /\ ~b.aged[at(i)]}
           expired == {i \in Indices : inUse(i) /\ \A j \in young : i < j}
           last == CHOOSE i \in expired : \A j \in expired : j <= i
           next == CHOOSE i \in young : \A j \in young : i <= j
<1>1. \/ TimerExpired(b).buf = b
      \/ expired # {} /\ TimerExpired(b) = ReleaseFrames(b, SnAdd(b.head, last + 1), {"send"})
      \/ TimerExpired(b).buf = ModTimer(b, at(next))
  BY DEF TimerExpired
<1>2. CASE TimerExpired(b).buf = b
  BY <1>2, BecomesSelf
<1>3. CASE expired # {} /\ TimerExpired(b) = ReleaseFrames(b, SnAdd(b.head, last + 1), {"send"})
  <2>1. PICK T : T = expired
    OBVIOUS
  <2>2. T \subseteq 0..(BufSize - 1) /\ T # {} /\ 0 \in Int /\ BufSize - 1 \in Int
    <3>1. T \subseteq Indices /\ T # {}
      BY <1>3, <2>1, Zenon
    <3>2. BufSize - 1 \in Int /\ Indices = 0..(BufSize - 1)
      BY Sizes DEF Indices
    <3> HIDE DEF expired
    <3> QED BY <3>1, <3>2
  <2>3. \E x \in T : \A y \in T : y <= x
    BY <2>2, Greatest
  <2>4. last \in T
    BY <2>1, <2>3
  <2> HIDE DEF last
  <2>5. last + 1 \in Int /\ b.head \in Sns
    BY <2>2, <2>4 DEF Shape
  <2>6. SnAdd(b.head, last + 1) \in Sns
    BY <2>5, SnAddRange
  <2>7. Becomes(b, ReleaseFrames(b, SnAdd(b.head, last + 1), {"send"}).buf)
    BY <2>6, ReleaseBuf
  <2> QED BY <1>3, <2>7
<1>4. CASE TimerExpired(b).buf = ModTimer(b, at(next))
  <2>1. PICK t : TimerExpired(b).buf = [b EXCEPT !.timer = t]
    BY <1>4 DEF ModTimer
  <2>2. PICK c : c = [b EXCEPT !.timer = t]
    OBVIOUS
  <2>3. /\ c = [x \in Fields |-> c[x]]
        /\ c.head = b.head /\ c.num = b.num /\ c.entries = b.entries
        /\ c.removed = b.removed /\ b.head \in Sns
    BY <2>2 DEF Shape, Fields
  <2> QED BY <2>1, <2>2, <2>3, BecomesSame
<1> QED BY <1>1, <1>2, <1>3, <1>4

(* A frame of the session, as far as the buffer looks at it. *)
IsFrame(f) == f.id \in Nat /\ f.nssn \in Sns

(* A buffer with one more frame. *)
WithFrame(b, f) ==
  LET sn == SnOf(f)
      index == sn % BufSize
  IN  [b EXCEPT !.entries[index] = Append(@, f),
                !.num = @ + 1,
                !.aged[index] = FALSE,
                !.lastAmsdu = IF f.amsdu THEN sn ELSE @,
                !.lastSub = IF f.amsdu THEN f.sub ELSE @]

LEMMA WithFrameBuf ==
  ASSUME NEW b, Shape(b), NEW f, IsFrame(f)
  PROVE  Becomes(b, WithFrame(b, f))
PROOF
<1> DEFINE sn == SnOf(f)
           index == sn % BufSize
           stored == [b EXCEPT !.entries[index] = Append(@, f),
                               !.num = @ + 1,
                               !.aged[index] = FALSE,
                               !.lastAmsdu = IF f.amsdu THEN sn ELSE @,
                               !.lastSub = IF f.amsdu THEN f.sub ELSE @]
<1>1. WithFrame(b, f) = stored
  BY DEF WithFrame
<1>2. index \in Indices
  <2>1. f.id \in Int
    BY DEF IsFrame
  <2>2. sn \in Sns
    BY <2>1, SnRange DEF SnOf
  <2>3. sn \in Int
    BY <2>2 DEF Sns
  <2> HIDE DEF sn
  <2> QED BY <2>3, SnRange
<1>3. PICK k \in Indices : k = index
  BY <1>2
<1>4. /\ stored = [x \in Fields |-> stored[x]] /\ stored.head = b.head
      /\ stored.num = b.num + 1 /\ stored.removed = b.removed
      /\ stored.entries = [b.entries EXCEPT ![k] = Append(@, f)]
  <2> HIDE DEF index, sn
  <2> QED BY <1>3 DEF Shape, Fields
<1>5. PICK c : c = stored
  OBVIOUS
<1> HIDE DEF stored
<1>6. b.head \in Sns /\ b.num \in Int /\ Lists(b.entries)
  BY DEF Shape
<1>7. /\ Lists(c.entries)
      /\ Cardinality(Places(c.entries, Indices))
           = Cardinality(Places(b.entries, Indices)) + 1
  <2>1. PICK e : e = b.entries
    OBVIOUS
  <2>2. c.entries = [e EXCEPT ![k] = Append(@, f)] /\ Lists(e)
    BY <1>4, <1>5, <1>6, <2>1
  <2>3. PICK g : g = [e EXCEPT ![k] = Append(@, f)]
    OBVIOUS
  <2>4. /\ Lists(g)
        /\ Cardinality(Places(g, Indices)) = Cardinality(Places(e, Indices)) + 1
    BY <2>2, <2>3, PlacesAdded, Zenon
  <2> QED BY <2>1, <2>2, <2>3, <2>4
<1>8. InPlace(c.entries)
  <2>1. PICK e : e = b.entries
    OBVIOUS
  <2>2. c.entries = [e EXCEPT ![k] = Append(@, f)] /\ Lists(e) /\ InPlace(e)
    BY <1>4, <1>5, <1>6, <2>1 DEF Shape
  <2> QED BY <1>3, <2>2, InPlaceAdded
<1>9. Becomes(b, c)
  BY <1>4, <1>5, <1>6, <1>7, <1>8 DEF Becomes, Shape, Counts
<1> QED BY <1>1, <1>5, <1>9

LEMMA StoreIs ==
  ASSUME NEW b, NEW f
  PROVE  \/ Store(b, f) = [buf |-> b, up |-> <<>>, sync |-> <<>>]
         \/ Store(b, f) = [buf |-> WithFrame(b, f), up |-> <<>>, sync |-> <<>>]
         \/ Store(b, f) = ReleaseFrames(WithFrame(b, f), f.nssn, {"send"})
PROOF BY DEF Store, WithFrame

LEMMA StoreBuf ==
  ASSUME NEW b, Shape(b), NEW f, IsFrame(f)
  PROVE  Becomes(b, Store(b, f).buf)
PROOF
<1>1. PICK c : c = WithFrame(b, f)
  OBVIOUS
<1>2. Becomes(b, c)
  BY <1>1, WithFrameBuf
<1>3. Becomes(c, ReleaseFrames(c, f.nssn, {"send"}).buf)
  BY <1>2, ReleaseBuf DEF Becomes, IsFrame
<1> QED BY <1>1, <1>2, <1>3, StoreIs, BecomesSelf, BecomesTrans

LEMMA PassUpBuf ==
  ASSUME NEW b, Shape(b), NEW f, NEW head \in Sns
  PROVE  Becomes(b, PassUp(b, f, head).buf)
PROOF
<1>1. PICK c : c = [b EXCEPT !.head = head]
  OBVIOUS
<1>2. PassUp(b, f, head).buf = c
  BY <1>1 DEF PassUp
<1>3. /\ c = [x \in Fields |-> c[x]] /\ c.head = head /\ c.num = b.num
      /\ c.entries = b.entries /\ c.removed = b.removed
  BY <1>1 DEF Shape, Fields
<1> QED BY <1>2, <1>3, BecomesSame

LEMMA PlaceBuf ==
  ASSUME NEW b, Shape(b), NEW f, IsFrame(f)
  PROVE  Becomes(b, Place(b, f).buf)
PROOF
<1>1. b.head \in Sns /\ f.nssn \in Sns /\ SnOf(f) \in Sns /\ SnAdd(SnOf(f), 1) \in Sns
  <2>1. f.id \in Int /\ b.head \in Sns /\ f.nssn \in Sns
    BY DEF IsFrame, Shape
  <2>2. SnOf(f) \in Sns
    BY <2>1, SnRange DEF SnOf
  <2> QED BY <2>1, <2>2, SnAddRange
<1>2. \/ Place(b, f).buf = b \/ Place(b, f) = Store(b, f)
      \/ \E h \in {f.nssn, b.head, SnAdd(SnOf(f), 1)} : Place(b, f) = PassUp(b, f, h)
  BY DEF Place
<1> QED BY <1>1, <1>2, BecomesSelf, StoreBuf, PassUpBuf

LEMMA OldSnBuf ==
  ASSUME NEW b, Shape(b), NEW f
  PROVE  Becomes(b, OldSnWorkaround(b, f)[1])
PROOF
<1>1. PICK c : c = OldSnWorkaround(b, f)[1]
  OBVIOUS
<1>2. \E g, p, d : \/ c = [b EXCEPT !.gp2 = g, !.drops = d]
                   \/ c = [[b EXCEPT !.gp2 = g, !.drops = p] EXCEPT !.prevDrop = d[1], !.drops = d[2]]
  <2> DEFINE fresh == f.gp2 # b.gp2
             drops == IF fresh /\ ~b.prevDrop THEN 0 ELSE b.drops
             b1 == [b EXCEPT !.gp2 = f.gp2, !.drops = drops]
             limit == drops + 1 = DropsDelba
             d == <<~limit, IF limit THEN 0 ELSE drops + 1>>
  <2>1. \/ c = b1
        \/ c = [b1 EXCEPT !.prevDrop = ~limit, !.drops = IF limit THEN 0 ELSE drops + 1]
    BY <1>1 DEF OldSnWorkaround
  <2>2. d[1] = ~limit /\ d[2] = IF limit THEN 0 ELSE drops + 1
    OBVIOUS
  <2>3. \/ c = [b EXCEPT !.gp2 = f.gp2, !.drops = drops]
        \/ c = [[b EXCEPT !.gp2 = f.gp2, !.drops = drops] EXCEPT !.prevDrop = d[1], !.drops = d[2]]
    BY <2>1, <2>2
  <2> HIDE DEF d, drops
  <2> QED BY <2>3
<1>3. /\ c = [x \in Fields |-> c[x]] /\ c.head = b.head /\ c.num = b.num
      /\ c.entries = b.entries /\ c.removed = b.removed /\ b.head \in Sns
  BY <1>2 DEF Shape, Fields
<1> QED BY <1>1, <1>3, BecomesSame

(* iwl_mvm_reorder. *)
LEMMA ReorderBuf ==
  ASSUME NEW b, Shape(b), NEW f, IsFrame(f)
  PROVE  Becomes(b, Reorder(b, f).buf)
PROOF
<1> DEFINE b0 == [b EXCEPT !.valid = TRUE]
           minSn == IF SnLess(SnOf(f), f.nssn) THEN SnOf(f) ELSE f.nssn
<1>1. \/ Reorder(b, f).buf = b
      \/ \E r \in {b0, ReleaseFrames(b0, minSn, {"send"}).buf} :
           Reorder(b, f).buf = Place(OldSnWorkaround(r, f)[1], f).buf
  BY DEF Reorder, Adjust
<1>2. PICK c : c = b0
  OBVIOUS
<1>3. Becomes(b, c)
  <2>1. /\ c = [x \in Fields |-> c[x]] /\ c.head = b.head /\ c.num = b.num
        /\ c.entries = b.entries /\ c.removed = b.removed /\ b.head \in Sns
    BY <1>2 DEF Shape, Fields
  <2> QED BY <2>1, BecomesSame
<1>4. minSn \in Sns
  <2>1. f.id \in Int /\ f.nssn \in Sns
    BY DEF IsFrame
  <2> QED BY <2>1, SnRange DEF SnOf
<1>5. Becomes(c, ReleaseFrames(c, minSn, {"send"}).buf)
  BY <1>3, <1>4, ReleaseBuf DEF Becomes
<1> HIDE DEF b0, minSn
<1>6. ASSUME NEW r, Becomes(b, r)
      PROVE  Becomes(b, Place(OldSnWorkaround(r, f)[1], f).buf)
  <2>1. Shape(r)
    BY <1>6 DEF Becomes
  <2>2. PICK o : o = OldSnWorkaround(r, f)[1]
    OBVIOUS
  <2>3. Becomes(r, o)
    BY <2>1, <2>2, OldSnBuf
  <2>4. Shape(o)
    BY <2>3 DEF Becomes
  <2>5. Becomes(o, Place(o, f).buf)
    BY <2>4, PlaceBuf
  <2>6. Becomes(b, o)
    BY <1>6, <2>3, BecomesTrans
  <2> QED BY <2>2, <2>5, <2>6, BecomesTrans
<1>7. Becomes(b, ReleaseFrames(c, minSn, {"send"}).buf)
  BY <1>3, <1>5, BecomesTrans
<1> QED BY <1>1, <1>2, <1>3, <1>6, <1>7, BecomesSelf
-----------------------------------------------------------------------------
(* The messages of a queue, as a set *)

Msgs(s) == {s[i] : i \in 1..Len(s)}

LEMMA MsgsEmpty == Msgs(<<>>) = {}
PROOF BY EmptyFacts DEF Msgs

LEMMA MsgsConcat ==
  ASSUME NEW s, NEW t, IsSeq(s), IsSeq(t)
  PROVE  IsSeq(s \o t) /\ Msgs(s \o t) = Msgs(s) \cup Msgs(t)
PROOF
<1>1. PICK M : s \in Seq(M)
  BY DEF IsSeq
<1>2. PICK N : t \in Seq(N)
  BY DEF IsSeq
<1>3. s \in Seq(M \cup N) /\ t \in Seq(M \cup N)
  BY <1>1, <1>2
<1>4. s \o t \in Seq(M \cup N)
  BY <1>3
<1>5. PICK m \in Nat, n \in Nat : m = Len(s) /\ n = Len(t) /\ Len(s \o t) = m + n
  BY <1>3
<1>6. /\ \A i \in 1..m : (s \o t)[i] = s[i] /\ i \in 1..(m + n)
      /\ \A i \in 1..n : (s \o t)[m + i] = t[i] /\ m + i \in 1..(m + n)
      /\ \A i \in 1..(m + n) : i \in 1..m \/ i - m \in 1..n
      /\ \A i \in 1..(m + n) : m + (i - m) = i
  BY <1>3, <1>5
<1> HIDE <1>3, <1>4
<1>7. Msgs(s \o t) \subseteq Msgs(s) \cup Msgs(t)
  <2>1. ASSUME NEW i \in 1..(m + n) PROVE (s \o t)[i] \in Msgs(s) \cup Msgs(t)
    <3>1. CASE i \in 1..m
      BY <1>5, <1>6, <3>1 DEF Msgs
    <3>2. CASE i - m \in 1..n
      <4>1. (s \o t)[i] = t[i - m]
        BY <1>6, <3>2
      <4> QED BY <1>5, <3>2, <4>1 DEF Msgs
    <3> QED BY <1>6, <3>1, <3>2
  <2> QED BY <1>5, <2>1 DEF Msgs
<1>8. Msgs(s) \subseteq Msgs(s \o t) /\ Msgs(t) \subseteq Msgs(s \o t)
  <2>1. \A i \in 1..m : s[i] \in Msgs(s \o t)
    BY <1>5, <1>6 DEF Msgs
  <2>2. ASSUME NEW i \in 1..n PROVE t[i] \in Msgs(s \o t)
    <3>1. (s \o t)[m + i] = t[i] /\ m + i \in 1..Len(s \o t)
      BY <1>5, <1>6
    <3> QED BY <3>1 DEF Msgs
  <2> QED BY <1>5, <2>1, <2>2 DEF Msgs
<1>9. IsSeq(s \o t)
  BY <1>4 DEF IsSeq
<1> QED BY <1>7, <1>8, <1>9

LEMMA MsgsAppend ==
  ASSUME NEW s, NEW m, IsSeq(s)
  PROVE  IsSeq(Append(s, m)) /\ Msgs(Append(s, m)) = Msgs(s) \cup {m}
PROOF
<1>1. PICK M : s \in Seq(M)
  BY DEF IsSeq
<1>2. s \in Seq(M \cup {m}) /\ Append(s, m) \in Seq(M \cup {m})
  BY <1>1
<1>3. PICK n \in Nat : n = Len(s)
  BY <1>1
<1>4. /\ Len(Append(s, m)) = n + 1
      /\ \A i \in 1..n : Append(s, m)[i] = s[i] /\ i \in 1..(n + 1)
      /\ \A i \in 1..(n + 1) : i \notin 1..n => i = n + 1
      /\ Append(s, m)[n + 1] = m /\ n + 1 \in 1..(n + 1)
  BY <1>2, <1>3
<1>5. IsSeq(Append(s, m))
  BY <1>2 DEF IsSeq
<1> HIDE <1>1, <1>2
<1>6. \A x : (\E i \in 1..(n + 1) : x = Append(s, m)[i])
             <=> (\E i \in 1..n : x = s[i]) \/ x = m
  BY <1>4, Zenon
<1> QED BY <1>3, <1>4, <1>5, <1>6 DEF Msgs

LEMMA MsgsTail ==
  ASSUME NEW s, IsSeq(s), s # <<>>
  PROVE  IsSeq(Tail(s)) /\ Msgs(Tail(s)) \subseteq Msgs(s) /\ Head(s) \in Msgs(s)
PROOF
<1>1. PICK M : s \in Seq(M)
  BY DEF IsSeq
<1>2. Tail(s) \in Seq(M)
  BY <1>1
<1>3. PICK n \in Nat : n = Len(s) /\ n >= 1
  BY <1>1
<1>4. /\ Len(Tail(s)) = n - 1 /\ Head(s) = s[1] /\ 1 \in 1..n
      /\ \A i \in 1..(n - 1) : Tail(s)[i] = s[i + 1] /\ i + 1 \in 1..n
  BY <1>1, <1>2, <1>3
<1>5. IsSeq(Tail(s))
  BY <1>2 DEF IsSeq
<1> HIDE <1>1, <1>2
<1>6. ASSUME NEW i \in 1..(n - 1) PROVE Tail(s)[i] \in Msgs(s)
  <2>1. Tail(s)[i] = s[i + 1] /\ i + 1 \in 1..Len(s)
    BY <1>3, <1>4
  <2> QED BY <2>1 DEF Msgs
<1>7. Msgs(Tail(s)) \subseteq Msgs(s)
  BY <1>4, <1>6 DEF Msgs
<1>8. Head(s) \in Msgs(s)
  BY <1>3, <1>4 DEF Msgs
<1> QED BY <1>5, <1>7, <1>8

LEMMA MsgsTuple ==
  ASSUME NEW n \in Nat, NEW h, h = [k \in 1..n |-> h[k]]
  PROVE  IsSeq(h) /\ Msgs(h) = {h[k] : k \in 1..n} /\ Len(h) = n
PROOF
<1>1. PICK S : S = {h[k] : k \in 1..n}
  OBVIOUS
<1>2. h \in [1..n -> S]
  BY <1>1
<1>3. h \in Seq(S) /\ Len(h) = n
  BY <1>2
<1>4. IsSeq(h)
  BY <1>3 DEF IsSeq
<1>5. Msgs(h) = {h[k] : k \in 1..n}
  BY <1>3 DEF Msgs
<1> QED BY <1>3, <1>4, <1>5

-----------------------------------------------------------------------------
(* What a handler leaves behind *)

(* The buffer an operation made, and sequence numbers for the others. *)
Good(b, r) ==
  Becomes(b, r.buf) /\ IsSeq(r.sync) /\ \A x \in Msgs(r.sync) : x \in Sns

LEMMA SnSubInt == ASSUME NEW x \in Sns, NEW y \in Sns PROVE SnSub(x, y) \in Int
PROOF
<1>1. x + SnMod - y \in Int
  BY Sizes DEF Sns
<1>2. (x + SnMod - y) % SnMod \in Sns
  BY <1>1, SnRange
<1> QED BY <1>2 DEF SnSub, Sns

LEMMA MsgsSingle == ASSUME NEW x PROVE Msgs(<<x>>) = {x} /\ IsSeq(<<x>>)
PROOF
<1>1. <<x>> \in Seq({x}) /\ Len(<<x>>) = 1 /\ <<x>>[1] = x
  OBVIOUS
<1>2. 1..1 = {1}
  OBVIOUS
<1>3. IsSeq(<<x>>)
  BY <1>1 DEF IsSeq
<1> QED BY <1>1, <1>2, <1>3 DEF Msgs

LEMMA ReleaseGood ==
  ASSUME NEW b, Shape(b), NEW nssn \in Sns, NEW flags
  PROVE  Good(b, ReleaseFrames(b, nssn, flags))
PROOF
<1> DEFINE n == IF IsSnLess(b.head, nssn) THEN SnSub(nssn, b.head) ELSE 0
           met == {i \in 1..n : SyncPoint(SnAdd(b.head, i))}
           i == CHOOSE i \in met : TRUE
           s == ReleaseFrames(b, nssn, flags).sync
<1>1. s = <<>> \/ (met # {} /\ s = <<SnAdd(b.head, i)>>)
  BY DEF ReleaseFrames
<1>2. b.head \in Sns
  BY DEF Shape
<1>3. n \in Int
  BY <1>2, SnSubInt
<1>4. met # {} => i \in Int
  <2> HIDE DEF n
  <2> QED BY <1>3
<1>5. met # {} => SnAdd(b.head, i) \in Sns
  <2> HIDE DEF met, i
  <2> QED BY <1>2, <1>4, SnAddRange
<1>6. IsSeq(s) /\ \A x \in Msgs(s) : x \in Sns
  <2> HIDE DEF met, i, s
  <2> QED BY <1>1, <1>5, EmptyFacts, MsgsEmpty, MsgsSingle
<1> QED BY <1>6, ReleaseBuf DEF Good

LEMMA TimerGood == ASSUME NEW b, Shape(b) PROVE Good(b, TimerExpired(b))
PROOF
<1> DEFINE at(i) == (b.head + i) % BufSize
           inUse(i) == b.entries[at(i)] # <<>>
           young == {i \in Indices : /\ inUse(i)
                                     /\ i = 0 \/ ~inUse(i - 1)
                                     /\ ~b.aged[at(i)]}
           expired == {i \in Indices : inUse(i) /\ \A j \in young : i < j}
           last == CHOOSE i \in expired : \A j \in expired : j <= i
<1>1. \/ TimerExpired(b).sync = <<>>
      \/ expired # {} /\ TimerExpired(b) = ReleaseFrames(b, SnAdd(b.head, last + 1), {"send"})
  BY DEF TimerExpired
<1>2. ASSUME expired # {} PROVE SnAdd(b.head, last + 1) \in Sns
  <2>1. PICK T : T = expired
    OBVIOUS
  <2>2. T \subseteq 0..(BufSize - 1) /\ T # {} /\ 0 \in Int /\ BufSize - 1 \in Int
    BY <1>2, <2>1, Sizes DEF Indices
  <2>3. \E x \in T : \A y \in T : y <= x
    BY <2>2, Greatest
  <2>4. last \in T
    BY <2>1, <2>3
  <2> HIDE DEF last
  <2>5. last + 1 \in Int /\ b.head \in Sns
    BY <2>2, <2>4 DEF Shape
  <2> QED BY <2>5, SnAddRange
<1> HIDE DEF last, expired
<1>3. CASE TimerExpired(b).sync = <<>>
  BY <1>3, TimerBuf, EmptyFacts, MsgsEmpty DEF Good
<1>4. CASE expired # {} /\ TimerExpired(b) = ReleaseFrames(b, SnAdd(b.head, last + 1), {"send"})
  BY <1>2, <1>4, ReleaseGood
<1> QED BY <1>1, <1>3, <1>4

LEMMA PlaceGood ==
  ASSUME NEW b, Shape(b), NEW f, IsFrame(f)
  PROVE  Good(b, Place(b, f))
PROOF
<1> DEFINE s == Place(b, f).sync
<1>1. SnOf(f) \in Sns /\ f.nssn \in Sns
  <2>1. f.id \in Int /\ f.nssn \in Sns
    BY DEF IsFrame
  <2> QED BY <2>1, SnRange DEF SnOf
<1>2. \/ s = <<>> \/ s = <<SnOf(f)>> \/ s = Store(b, f).sync
  BY DEF Place, PassUp
<1>3. \/ Store(b, f).sync = <<>>
      \/ \E c : Shape(c) /\ Store(b, f).sync = ReleaseFrames(c, f.nssn, {"send"}).sync
  <2>1. Shape(WithFrame(b, f))
    BY WithFrameBuf DEF Becomes
  <2> QED BY <2>1, StoreIs
<1>4. IsSeq(Store(b, f).sync) /\ \A x \in Msgs(Store(b, f).sync) : x \in Sns
  BY <1>1, <1>3, ReleaseGood, EmptyFacts, MsgsEmpty DEF Good
<1>5. IsSeq(s) /\ \A x \in Msgs(s) : x \in Sns
  <2> HIDE DEF s
  <2> QED BY <1>1, <1>2, <1>4, EmptyFacts, MsgsEmpty, MsgsSingle
<1> QED BY <1>5, PlaceBuf DEF Good

LEMMA ReorderGood ==
  ASSUME NEW b, Shape(b), NEW f, IsFrame(f)
  PROVE  Good(b, Reorder(b, f))
PROOF
<1> DEFINE b0 == [b EXCEPT !.valid = TRUE]
           minSn == IF SnLess(SnOf(f), f.nssn) THEN SnOf(f) ELSE f.nssn
           R == {[buf |-> b0, up |-> <<>>, sync |-> <<>>],
                 ReleaseFrames(b0, minSn, {"send"})}
<1>1. \/ Reorder(b, f).sync = <<>>
      \/ \E r \in R :
           Reorder(b, f).sync = r.sync \o Place(OldSnWorkaround(r.buf, f)[1], f).sync
  <2>1. \/ Reorder(b, f).sync = <<>>
        \/ Reorder(b, f).sync = Adjust(b, f).sync \o Place(Adjust(b, f).buf, f).sync
    BY DEF Reorder
  <2>2. \E r \in R : /\ Adjust(b, f).sync = r.sync
                    /\ Adjust(b, f).buf = OldSnWorkaround(r.buf, f)[1]
    BY DEF Adjust
  <2> QED BY <2>1, <2>2
<1>2. PICK c : c = b0
  OBVIOUS
<1>3. Shape(c)
  BY <1>2 DEF Shape, Fields
<1>4. minSn \in Sns
  <2>1. f.id \in Int /\ f.nssn \in Sns
    BY DEF IsFrame
  <2> QED BY <2>1, SnRange DEF SnOf
<1> HIDE DEF b0, minSn
<1>5. \A r \in R : Good(c, r)
  <2>1. Good(c, ReleaseFrames(c, minSn, {"send"}))
    BY <1>3, <1>4, ReleaseGood
  <2>2. Good(c, [buf |-> c, up |-> <<>>, sync |-> <<>>])
    BY <1>3, BecomesSelf, EmptyFacts, MsgsEmpty DEF Good
  <2> QED BY <1>2, <2>1, <2>2
<1> HIDE DEF R
<1>6. ASSUME NEW r \in R
      PROVE  LET s == r.sync \o Place(OldSnWorkaround(r.buf, f)[1], f).sync
             IN  IsSeq(s) /\ \A x \in Msgs(s) : x \in Sns
  <2>1. Good(c, r)
    BY <1>5
  <2>2. PICK o : o = OldSnWorkaround(r.buf, f)[1]
    OBVIOUS
  <2>3. Shape(o)
    BY <2>1, <2>2, OldSnBuf DEF Good, Becomes
  <2>4. Good(o, Place(o, f))
    BY <2>3, PlaceGood
  <2> QED BY <2>1, <2>2, <2>4, MsgsConcat DEF Good
<1>7. IsSeq(Reorder(b, f).sync) /\ \A x \in Msgs(Reorder(b, f).sync) : x \in Sns
  BY <1>1, <1>6, EmptyFacts, MsgsEmpty
<1> QED BY <1>7, ReorderBuf DEF Good
-----------------------------------------------------------------------------
(* Frames, messages and buffers are well formed *)

Typed(m) ==
  /\ m.type = "frame" => IsFrame(m)
  /\ m.type \in {"release", "sync"} => m.nssn \in Sns

(* Messages that bring frames or release them for the firmware. *)
Data(m) == m.type \in {"frame", "release"}

FwInv ==
  rcvd \subseteq Ids /\ fwNssn \in FirstId..(LastId + 1) /\ ssn \in Sns

TypedInv ==
  /\ IsSeq(cmds) /\ \A m \in Msgs(cmds) : Typed(m) /\ ~Data(m)
  /\ rxq = [q \in Queues |-> rxq[q]]
  /\ \A q \in Queues : IsSeq(rxq[q]) /\ \A m \in Msgs(rxq[q]) : Typed(m)

BufInv ==
  /\ buf = [q \in Queues |-> buf[q]] /\ handler = [q \in Queues |-> handler[q]]
  /\ \A q \in Queues : Shape(buf[q]) /\ (buf[q].removed \/ Counts(buf[q]))

Faults ==
  budget \in [retries : Nat, olds : Nat, jumps : Nat, faults : Nat, kills : Nat,
              sessions : Nat, stops : Nat]

DataInv == FwInv /\ TypedInv /\ BufInv /\ Faults

(* The NSSN the firmware computes is a frame number. *)
LEMMA NextMissingRange ==
  ASSUME NEW R, LastId + 1 \notin R, NEW n \in Nat, n <= LastId + 1
  PROVE  NextMissing(R, n) \in n..(LastId + 1)
PROOF
<1> DEFINE T == {m \in n..(LastId + 1) : m \notin R}
<1>1. LastId \in Nat
  BY ReorderBufferAssumption
<1>2. T \subseteq Nat /\ LastId + 1 \in T
  BY <1>1
<1>3. PICK m \in T : \A k \in T : m <= k
  BY <1>2, Least
<1>4. \A k \in n..(m - 1) : k \in R
  <2> TAKE k \in n..(m - 1)
  <2>1. m \in n..(LastId + 1)
    OBVIOUS
  <2>2. k \in n..(LastId + 1) /\ ~(m <= k)
    BY <1>1, <2>1
  <2> QED BY <1>3, <2>2
<1>5. \E x \in n..(LastId + 1) : x \notin R /\ \A k \in n..(x - 1) : k \in R
  BY <1>4
<1> QED BY <1>5 DEF NextMissing

LEMMA Numbers ==
  /\ FirstId \in Nat /\ LastId \in Nat /\ FirstId <= LastId
  /\ Ids = FirstId..LastId /\ Ids \subseteq Nat /\ LastId + 1 \notin Ids
PROOF BY ReorderBufferAssumption DEF Ids

LEMMA ReleasesMsgs ==
  ASSUME NEW R, NEW nssn \in Int, NEW told, NEW split, NEW q \in Queues
  PROVE  /\ IsSeq(Releases(R, nssn, told, split)[q])
         /\ \A m \in Msgs(Releases(R, nssn, told, split)[q]) : Typed(m)
PROOF
<1>1. PICK m : m = [type |-> "release", nssn |-> nssn % SnMod]
  OBVIOUS
<1>2. \/ Releases(R, nssn, told, split)[q] = <<>> \/ Releases(R, nssn, told, split)[q] = <<m>>
  BY <1>1 DEF Releases
<1>3. Typed(m)
  BY <1>1, SnRange DEF Typed
<1> QED BY <1>2, <1>3, EmptyFacts, MsgsEmpty, MsgsSingle

LEMMA DeliverMsgs ==
  ASSUME TypedInv, NEW id \in Ids, NEW nssn \in Int, NEW old, NEW retry,
         Deliver(id, nssn, old, retry)
  PROVE  /\ rcvd' = rcvd \cup {id} /\ fwNssn' = nssn
         /\ rxq' = [q \in Queues |-> rxq'[q]]
         /\ \A q \in Queues : IsSeq(rxq'[q]) /\ \A m \in Msgs(rxq'[q]) : Typed(m)
PROOF
<1> DEFINE frame(sub, gp2) ==
             [type |-> "frame", id |-> id, sub |-> sub,
              amsdu |-> id \in Amsdu, last |-> sub + 1 \notin Subs(id),
              nssn |-> nssn % SnMod, old |-> old, gp2 |-> gp2, retry |-> retry]
           parts(q) == {sub \in Subs(id) : steer[<<id, sub>>] = q}
           frames(q, gp2) == [k \in 1..Cardinality(parts(q)) |->
                                frame(Nth(parts(q), k), gp2)]
<1>1. PICK gp2 \in Gp2s :
        LET whole == {q \in Queues : \E sub \in parts(q) : WholeMpdu(frame(sub, gp2))}
            split == {q \in Queues : parts(q) # {}}
            release == Releases(rcvd \union {id}, nssn, whole, split)
        IN  /\ rxq' = [q \in Queues |-> rxq[q] \o frames(q, gp2) \o release[q]]
            /\ rcvd' = rcvd \cup {id} /\ fwNssn' = nssn
  BY DEF Deliver
<1>2. PICK release :
        /\ rxq' = [q \in Queues |-> rxq[q] \o frames(q, gp2) \o release[q]]
        /\ \A q \in Queues : IsSeq(release[q]) /\ \A m \in Msgs(release[q]) : Typed(m)
  <2>1. PICK W, X : rxq' = [q \in Queues |-> rxq[q] \o frames(q, gp2)
                                          \o Releases(rcvd \union {id}, nssn, W, X)[q]]
    BY <1>1
  <2> HIDE DEF frames
  <2> QED BY <2>1, ReleasesMsgs
<1>3. ASSUME NEW q \in Queues
      PROVE  IsSeq(frames(q, gp2)) /\ \A m \in Msgs(frames(q, gp2)) : Typed(m)
  <2>1. IsFiniteSet({0, 1})
    <3>1. IsFiniteSet({1}) /\ {0, 1} = {1} \cup {0}
      BY FS_Singleton
    <3> QED BY <3>1, FS_AddElement
  <2>2. parts(q) \in SUBSET {0, 1}
    BY DEF Subs
  <2>3. Cardinality(parts(q)) \in Nat
    BY <2>1, <2>2, FS_Subset, FS_CardinalityType
  <2>4. PICK n \in Nat : n = Cardinality(parts(q))
    BY <2>3
  <2>5. PICK h : h = frames(q, gp2)
    OBVIOUS
  <2>6. ASSUME NEW s PROVE Typed(frame(s, gp2))
    BY SnRange, Numbers DEF Typed, IsFrame
  <2>7. h = [k \in 1..n |-> h[k]] /\ \A k \in 1..n : Typed(h[k])
    <3> HIDE DEF parts, frame
    <3> QED BY <2>4, <2>5, <2>6
  <2>8. IsSeq(h) /\ Msgs(h) = {h[k] : k \in 1..n}
    BY <2>7, MsgsTuple
  <2>9. \A m \in Msgs(h) : Typed(m)
    BY <2>7, <2>8, Zenon
  <2> HIDE DEF frames
  <2> QED BY <2>5, <2>8, <2>9
<1> HIDE DEF frames
<1>4. ASSUME NEW q \in Queues
      PROVE  IsSeq(rxq'[q]) /\ \A m \in Msgs(rxq'[q]) : Typed(m)
  <2>1. PICK s : s = rxq[q] \o frames(q, gp2)
    OBVIOUS
  <2>2. rxq'[q] = s \o release[q]
    BY <1>2, <2>1
  <2>3. IsSeq(s) /\ Msgs(s) = Msgs(rxq[q]) \cup Msgs(frames(q, gp2))
    BY <1>3, <2>1, MsgsConcat DEF TypedInv
  <2>4. IsSeq(s \o release[q]) /\ Msgs(s \o release[q]) = Msgs(s) \cup Msgs(release[q])
    BY <1>2, <2>3, MsgsConcat
  <2> QED BY <1>2, <1>3, <2>2, <2>3, <2>4 DEF TypedInv
<1> QED BY <1>1, <1>2, <1>4

(* The firmware. *)
LEMMA FirmwareData ==
  ASSUME DataInv,
         \/ \E id \in Ids : Air(id) \/ AirBeyond(id) \/ AirAgain(id) \/ AirOld(id)
         \/ \E q \in Queues : Bar(q)
  PROVE  DataInv'
PROOF
<1>1. UNCHANGED <<buf, handler, cmds, ssn>>
  BY DEF Air, AirBeyond, AirAgain, AirOld, Bar, bufVars, syncVars, ctlVars
<1>2. BufInv'
  BY <1>1 DEF DataInv, BufInv
<1>3. rcvd \subseteq Ids /\ fwNssn \in FirstId..(LastId + 1) /\ ssn \in Sns /\ TypedInv
  BY DEF DataInv, FwInv
<1>4. fwNssn \in Nat
  BY <1>3, Numbers
<1>5. Faults'
  <2>1. \/ UNCHANGED budget \/ budget' = [budget EXCEPT !.jumps = @ + 1]
        \/ budget' = [budget EXCEPT !.retries = @ + 1]
        \/ budget' = [budget EXCEPT !.olds = @ + 1]
    BY DEF Air, AirBeyond, AirAgain, AirOld, Bar
  <2> QED BY <2>1 DEF DataInv, Faults
<1>6. CASE \E id \in Ids : Air(id) \/ AirBeyond(id) \/ AirAgain(id) \/ AirOld(id)
  <2>1. PICK id \in Ids : Air(id) \/ AirBeyond(id) \/ AirAgain(id) \/ AirOld(id)
    BY <1>6
  <2>2. LastId + 1 \notin rcvd \cup {id} /\ id \in Nat /\ id <= LastId
    BY <1>3, Numbers
  <2>3. \E nssn \in FirstId..(LastId + 1) : \E old, retry : Deliver(id, nssn, old, retry)
    <3>1. CASE Air(id)
      <4>1. fwNssn <= LastId + 1
        BY <1>3, Numbers
      <4>2. NextMissing(rcvd \cup {id}, fwNssn) \in fwNssn..(LastId + 1)
        BY <1>4, <2>2, <4>1, NextMissingRange
      <4>3. NextMissing(rcvd \cup {id}, fwNssn) \in FirstId..(LastId + 1)
        BY <1>3, <4>2, Numbers
      <4> QED BY <3>1, <4>3 DEF Air
    <3>2. CASE AirBeyond(id)
      <4>1. fwNssn + 1 <= LastId + 1 /\ fwNssn + 1 \in Nat
        BY <1>4, <2>2, <3>2, Sizes, Numbers DEF AirBeyond
      <4>2. NextMissing(rcvd \cup {id}, fwNssn + 1) \in (fwNssn + 1)..(LastId + 1)
        BY <2>2, <4>1, NextMissingRange
      <4>3. NextMissing(rcvd \cup {id}, fwNssn + 1) \in FirstId..(LastId + 1)
        BY <1>3, <4>2, Numbers
      <4> QED BY <3>2, <4>3 DEF AirBeyond
    <3>3. CASE AirAgain(id) \/ AirOld(id)
      BY <1>3, <3>3 DEF AirAgain, AirOld
    <3> QED BY <2>1, <3>1, <3>2, <3>3
  <2>4. PICK nssn \in FirstId..(LastId + 1) : \E old, retry : Deliver(id, nssn, old, retry)
    BY <2>3
  <2>5. /\ rcvd' = rcvd \cup {id} /\ fwNssn' = nssn
        /\ rxq' = [q \in Queues |-> rxq'[q]]
        /\ \A q \in Queues : IsSeq(rxq'[q]) /\ \A m \in Msgs(rxq'[q]) : Typed(m)
    BY <1>3, <2>4, DeliverMsgs, Numbers
  <2>6. FwInv'
    BY <1>1, <1>3, <2>5 DEF FwInv
  <2>7. TypedInv'
    BY <1>1, <1>3, <2>5 DEF TypedInv
  <2> QED BY <1>2, <1>5, <2>6, <2>7 DEF DataInv
<1>7. CASE \E q \in Queues : Bar(q)
  <2>1. PICK q \in Queues : Bar(q)
    BY <1>7
  <2>2. PICK nssn : nssn = NextMissing(rcvd, fwNssn + 1)
    OBVIOUS
  <2>3. nssn \in FirstId..(LastId + 1)
    <3>1. fwNssn + 1 <= LastId + 1 /\ fwNssn + 1 \in Nat /\ LastId + 1 \notin rcvd
      BY <1>3, <1>4, <2>1, Numbers DEF Bar
    <3>2. nssn \in (fwNssn + 1)..(LastId + 1)
      BY <2>2, <3>1, NextMissingRange
    <3> QED BY <1>3, <3>2, Numbers
  <2>4. PICK m, release : m = [type |-> "release", nssn |-> nssn % SnMod]
                          /\ release = Releases(rcvd, nssn, {q}, {})
    OBVIOUS
  <2>5. /\ fwNssn' = nssn /\ rcvd' = rcvd
        /\ rxq' = [p \in Queues |-> IF p = q THEN Append(rxq[p], m)
                                            ELSE rxq[p] \o release[p]]
    BY <2>1, <2>2, <2>4 DEF Bar
  <2>6. nssn \in Int
    BY <2>3, Numbers
  <2>7. Typed(m)
    BY <2>4, <2>6, SnRange DEF Typed
  <2>8. ASSUME NEW p \in Queues PROVE IsSeq(rxq'[p]) /\ \A x \in Msgs(rxq'[p]) : Typed(x)
    <3>1. IsSeq(rxq[p]) /\ \A x \in Msgs(rxq[p]) : Typed(x)
      BY <1>3 DEF TypedInv
    <3>2. CASE p = q
      <4>1. rxq'[p] = Append(rxq[p], m)
        BY <2>5, <3>2
      <4> QED BY <2>7, <3>1, <4>1, MsgsAppend
    <3>3. CASE p # q
      <4>1. rxq'[p] = rxq[p] \o release[p]
        BY <2>5, <3>3
      <4>2. IsSeq(release[p]) /\ \A x \in Msgs(release[p]) : Typed(x)
        BY <2>4, <2>6, ReleasesMsgs
      <4> QED BY <3>1, <4>1, <4>2, MsgsConcat
    <3> QED BY <3>2, <3>3
  <2>9. FwInv'
    BY <1>1, <1>3, <2>3, <2>5 DEF FwInv
  <2>10. TypedInv'
    <3>1. rxq' = [p \in Queues |-> rxq'[p]]
      BY <2>5
    <3> QED BY <1>1, <1>3, <2>8, <3>1 DEF TypedInv
  <2> QED BY <1>2, <1>5, <2>9, <2>10 DEF DataInv
<1> QED BY <1>6, <1>7

(* NAPI takes a message. *)
LEMMA ReceiveData ==
  ASSUME TypedInv, NEW q \in Queues, rxq[q] # <<>>, rxq' = [rxq EXCEPT ![q] = Tail(@)]
  PROVE  /\ rxq' = [p \in Queues |-> rxq'[p]]
         /\ \A p \in Queues : /\ IsSeq(rxq'[p]) /\ Msgs(rxq'[p]) \subseteq Msgs(rxq[p])
                              /\ \A m \in Msgs(rxq'[p]) : Typed(m)
         /\ Typed(Head(rxq[q]))
         /\ rxq'[q] = Tail(rxq[q]) /\ \A p \in Queues \ {q} : rxq'[p] = rxq[p]
PROOF
<1>1. rxq = [p \in Queues |-> rxq[p]]
  BY DEF TypedInv
<1>2. /\ rxq'[q] = Tail(rxq[q]) /\ rxq' = [p \in Queues |-> rxq'[p]]
      /\ \A p \in Queues \ {q} : rxq'[p] = rxq[p]
  BY <1>1
<1>3. /\ IsSeq(rxq'[q]) /\ Msgs(rxq'[q]) \subseteq Msgs(rxq[q])
      /\ Head(rxq[q]) \in Msgs(rxq[q])
  BY <1>2, MsgsTail DEF TypedInv
<1>4. \A p \in Queues : IsSeq(rxq'[p]) /\ Msgs(rxq'[p]) \subseteq Msgs(rxq[p])
  BY <1>2, <1>3 DEF TypedInv
<1> QED BY <1>2, <1>3, <1>4 DEF TypedInv

(* The result of a handler. *)
LEMMA ApplyData ==
  ASSUME DataInv, NEW q \in Queues, NEW r, Good(buf[q], r), Apply(q, r)
  PROVE  /\ IsSeq(cmds') /\ \A m \in Msgs(cmds') : Typed(m) /\ ~Data(m)
         /\ buf' = [p \in Queues |-> buf'[p]] /\ buf'[q] = r.buf
         /\ \A p \in Queues \ {q} : buf'[p] = buf[p]
         /\ \A p \in Queues : Shape(buf'[p]) /\ (buf'[p].removed \/ Counts(buf'[p]))
         /\ \A p \in Queues : buf'[p].removed = buf[p].removed
PROOF
<1>1. PICK n \in Nat : n = Len(r.sync)
  BY ListLength DEF Good
<1>2. PICK h : h = [k \in 1..n |-> [type |-> "sync", nssn |-> r.sync[k]]]
  OBVIOUS
<1>3. \A k \in 1..n : r.sync[k] \in Sns
  BY <1>1 DEF Good, Msgs
<1>4. h = [k \in 1..n |-> h[k]] /\ \A k \in 1..n : Typed(h[k]) /\ ~Data(h[k])
  BY <1>2, <1>3 DEF Typed, Data
<1>5. IsSeq(h) /\ Msgs(h) = {h[k] : k \in 1..n}
  BY <1>4, MsgsTuple
<1>6. \A m \in Msgs(h) : Typed(m) /\ ~Data(m)
  BY <1>4, <1>5, Zenon
<1>7. cmds' = cmds \o h
  BY <1>1, <1>2 DEF Apply
<1>8. IsSeq(cmds') /\ \A m \in Msgs(cmds') : Typed(m) /\ ~Data(m)
  BY <1>5, <1>6, <1>7, MsgsConcat DEF DataInv, TypedInv
<1>9. /\ buf' = [p \in Queues |-> buf'[p]] /\ buf'[q] = r.buf
      /\ \A p \in Queues \ {q} : buf'[p] = buf[p]
  BY DEF Apply, DataInv, BufInv
<1>10. /\ Shape(buf'[q]) /\ (buf'[q].removed \/ Counts(buf'[q]))
       /\ buf'[q].removed = buf[q].removed
  BY <1>9 DEF Good, Becomes, DataInv, BufInv
<1>11. \A p \in Queues : Shape(buf'[p]) /\ (buf'[p].removed \/ Counts(buf'[p]))
  BY <1>9, <1>10 DEF DataInv, BufInv
<1>12. \A p \in Queues : buf'[p].removed = buf[p].removed
  BY <1>9, <1>10
<1> QED BY <1>8, <1>9, <1>11, <1>12

LEMMA QuietGood == ASSUME DataInv, NEW q \in Queues PROVE Good(buf[q], Quiet(q))
PROOF
<1>1. Shape(buf[q])
  BY DEF DataInv, BufInv
<1> QED BY <1>1, BecomesSelf, EmptyFacts, MsgsEmpty DEF Quiet, Good

(* The handlers' results are as they should be. *)
LEMMA HandlersGood ==
  ASSUME DataInv, NEW q \in Queues,
         RxFrame(q) \/ RxRelease(q) \/ RxNssnSync(q) \/ TimerHandler(q)
  PROVE  \E r : /\ Good(buf[q], r) /\ Apply(q, r)
                /\ RxNssnSync(q) => \/ r.buf = buf[q]
                                    \/ \E n \in Sns : r = ReleaseFrames(buf[q], n, {"from"})
PROOF
<1>1. Shape(buf[q]) /\ TypedInv
  BY DEF DataInv, BufInv
<1>2. CASE RxFrame(q)
  <2>1. PICK f : f = Head(rxq[q])
    OBVIOUS
  <2>2. rxq[q] # <<>> /\ f.type = "frame" /\ rxq' = [rxq EXCEPT ![q] = Tail(@)]
    BY <1>2, <2>1 DEF RxFrame, Receive
  <2>3. IsFrame(f)
    BY <1>1, <2>1, <2>2, ReceiveData DEF Typed
  <2>4. Good(buf[q], Reorder(buf[q], f)) /\ Good(buf[q], Quiet(q))
    BY <1>1, <2>3, ReorderGood, QuietGood
  <2>5. Apply(q, Quiet(q)) \/ Apply(q, Reorder(buf[q], f))
    BY <1>2, <2>1 DEF RxFrame
  <2>6. ~RxNssnSync(q)
    BY <2>1, <2>2 DEF RxNssnSync, Receive
  <2> QED BY <2>4, <2>5, <2>6
<1>3. CASE RxRelease(q) \/ RxNssnSync(q)
  <2>1. PICK n : n = Head(rxq[q]).nssn
    OBVIOUS
  <2>2. /\ rxq[q] # <<>> /\ rxq' = [rxq EXCEPT ![q] = Tail(@)]
        /\ Head(rxq[q]).type \in {"release", "sync"}
    BY <1>3 DEF RxRelease, RxNssnSync, Receive
  <2>3. n \in Sns
    BY <1>1, <2>1, <2>2, ReceiveData DEF Typed
  <2>4. /\ \A flags : Good(buf[q], ReleaseFrames(buf[q], n, flags))
        /\ Good(buf[q], Quiet(q)) /\ Quiet(q).buf = buf[q]
    BY <1>1, <2>3, ReleaseGood, QuietGood DEF Quiet
  <2>5. CASE RxRelease(q)
    <3>1. Apply(q, Quiet(q)) \/ Apply(q, ReleaseFrames(buf[q], n, {}))
      BY <2>1, <2>5 DEF RxRelease
    <3>2. ~RxNssnSync(q)
      BY <2>5 DEF RxRelease, RxNssnSync, Receive
    <3> QED BY <2>4, <3>1, <3>2
  <2>6. CASE RxNssnSync(q)
    <3>1. Apply(q, Quiet(q)) \/ Apply(q, ReleaseFrames(buf[q], n, {"from"}))
      BY <2>1, <2>6 DEF RxNssnSync
    <3> QED BY <2>3, <2>4, <3>1
  <2> QED BY <1>3, <2>5, <2>6
<1>4. CASE TimerHandler(q) /\ ~RxNssnSync(q)
  <2>1. Apply(q, TimerExpired(buf[q]))
    BY <1>4 DEF TimerHandler
  <2> QED BY <1>1, <1>4, <2>1, TimerGood
<1> QED BY <1>2, <1>3, <1>4

LEMMA HandlerData ==
  ASSUME DataInv, NEW q \in Queues,
         RxFrame(q) \/ RxRelease(q) \/ RxNssnSync(q) \/ TimerHandler(q)
  PROVE  DataInv'
PROOF
<1>1. PICK r : Good(buf[q], r) /\ Apply(q, r)
  BY HandlersGood
<1>2. /\ IsSeq(cmds') /\ \A m \in Msgs(cmds') : Typed(m) /\ ~Data(m)
      /\ buf' = [p \in Queues |-> buf'[p]]
      /\ \A p \in Queues : Shape(buf'[p]) /\ (buf'[p].removed \/ Counts(buf'[p]))
  BY <1>1, ApplyData
<1>3. UNCHANGED <<fwVars, ssn, budget>>
  BY DEF RxFrame, RxRelease, RxNssnSync, TimerHandler, ctlVars
<1>4. handler' = [p \in Queues |-> handler'[p]]
  <2>1. \/ UNCHANGED handler \/ handler' = [handler EXCEPT ![q] = FALSE]
    BY DEF RxFrame, RxRelease, RxNssnSync, TimerHandler
  <2> QED BY <2>1 DEF DataInv, BufInv
<1>5. /\ rxq' = [p \in Queues |-> rxq'[p]]
      /\ \A p \in Queues : IsSeq(rxq'[p]) /\ \A m \in Msgs(rxq'[p]) : Typed(m)
  <2>1. CASE TimerHandler(q)
    BY <2>1 DEF TimerHandler, DataInv, TypedInv
  <2>2. CASE RxFrame(q) \/ RxRelease(q) \/ RxNssnSync(q)
    <3>1. rxq[q] # <<>> /\ rxq' = [rxq EXCEPT ![q] = Tail(@)]
      BY <2>2 DEF RxFrame, RxRelease, RxNssnSync, Receive
    <3> QED BY <3>1, ReceiveData DEF DataInv
  <2> QED BY <2>1, <2>2
<1>6. FwInv' /\ Faults'
  BY <1>3 DEF DataInv, FwInv, Faults, fwVars
<1>7. TypedInv'
  BY <1>2, <1>5 DEF TypedInv
<1>8. BufInv'
  BY <1>2, <1>4 DEF BufInv
<1> QED BY <1>6, <1>7, <1>8 DEF DataInv

(* What a DEL_BA message does to the buffer of its queue. *)
LEMMA DelbaBuf ==
  ASSUME DataInv, NEW q \in Queues, RxDelBa(q)
  PROVE  /\ buf' = [p \in Queues |-> buf'[p]] /\ handler' = [p \in Queues |-> handler'[p]]
         /\ \A p \in Queues \ {q} : buf'[p] = buf[p] /\ handler'[p] = handler[p]
         /\ Becomes(buf[q], buf'[q])
         /\ Expired(Head(rxq[q])) => buf' = buf /\ handler' = handler
         /\ ~Expired(Head(rxq[q])) =>
              /\ buf'[q].timer = "off" /\ handler'[q] = FALSE
              /\ mapped => buf'[q].num
                   = ReleaseFrames(buf[q], SnAdd(buf[q].head, BufSize), {}).buf.num
PROOF
<1>1. /\ Shape(buf[q]) /\ buf = [p \in Queues |-> buf[p]]
      /\ handler = [p \in Queues |-> handler[p]]
  BY DEF DataInv, BufInv
<1>2. CASE Expired(Head(rxq[q]))
  <2>1. buf' = buf /\ handler' = handler
    BY <1>2 DEF RxDelBa
  <2> QED BY <1>1, <1>2, <2>1, BecomesSelf
<1>3. CASE ~Expired(Head(rxq[q]))
  <2> DEFINE r == IF mapped THEN ReleaseFrames(buf[q], SnAdd(buf[q].head, BufSize), {})
                            ELSE Quiet(q)
  <2>1. PICK b : b = r.buf
    OBVIOUS
  <2>2. /\ buf' = [buf EXCEPT ![q] = [b EXCEPT !.timer = "off"]]
        /\ handler' = [handler EXCEPT ![q] = FALSE]
    BY <1>3, <2>1 DEF RxDelBa
  <2>3. buf[q].head \in Sns /\ BufSize \in Int
    BY <1>1, Sizes DEF Shape
  <2>4. SnAdd(buf[q].head, BufSize) \in Sns
    BY <2>3, SnAddRange
  <2>5. Becomes(buf[q], b)
    BY <1>1, <2>1, <2>4, ReleaseBuf, BecomesSelf DEF Quiet
  <2>6. mapped => b.num = ReleaseFrames(buf[q], SnAdd(buf[q].head, BufSize), {}).buf.num
    BY <2>1
  <2> HIDE DEF r
  <2>7. PICK c : c = [b EXCEPT !.timer = "off"]
    OBVIOUS
  <2>8. /\ c = [x \in Fields |-> c[x]] /\ c.head = b.head /\ c.num = b.num
        /\ c.entries = b.entries /\ c.removed = b.removed /\ b.head \in Sns
        /\ c.timer = "off"
    BY <2>5, <2>7 DEF Becomes, Shape, Fields
  <2>9. Becomes(b, c)
    BY <2>5, <2>8, BecomesSame DEF Becomes
  <2>10. /\ buf'[q] = c /\ handler'[q] = FALSE
         /\ \A p \in Queues \ {q} : buf'[p] = buf[p] /\ handler'[p] = handler[p]
         /\ buf' = [p \in Queues |-> buf'[p]] /\ handler' = [p \in Queues |-> handler'[p]]
    BY <1>1, <2>2, <2>7
  <2>11. Becomes(buf[q], c)
    BY <2>5, <2>9, BecomesTrans
  <2> QED BY <1>3, <2>6, <2>8, <2>10, <2>11
<1> QED BY <1>2, <1>3

LEMMA DelbaData ==
  ASSUME DataInv, NEW q \in Queues, RxDelBa(q)
  PROVE  DataInv'
PROOF
<1>1. /\ rxq[q] # <<>> /\ rxq' = [rxq EXCEPT ![q] = Tail(@)]
      /\ UNCHANGED <<fwVars, ssn, budget, cmds>>
  BY DEF RxDelBa, Receive, ctlVars
<1>2. FwInv' /\ Faults'
  BY <1>1 DEF DataInv, FwInv, Faults, fwVars
<1>3. TypedInv'
  BY <1>1, ReceiveData DEF DataInv, TypedInv
<1>4. /\ buf' = [p \in Queues |-> buf'[p]] /\ handler' = [p \in Queues |-> handler'[p]]
      /\ \A p \in Queues \ {q} : buf'[p] = buf[p]
      /\ Becomes(buf[q], buf'[q])
  BY DelbaBuf
<1>5. \A p \in Queues : Shape(buf'[p]) /\ (buf'[p].removed \/ Counts(buf'[p]))
  BY <1>4 DEF DataInv, BufInv, Becomes
<1>6. BufInv'
  BY <1>4, <1>5 DEF BufInv
<1> QED BY <1>2, <1>3, <1>6 DEF DataInv

(* The firmware executes a command, ... *)
LEMMA TriggerData == ASSUME DataInv, Trigger PROVE DataInv'
PROOF
<1>1. PICK m : m = Head(cmds)
  OBVIOUS
<1>2. /\ cmds # <<>> /\ cmds' = Tail(cmds)
      /\ rxq' = [q \in Queues |-> Append(rxq[q], m)]
      /\ UNCHANGED <<fwVars, ssn, budget, buf, handler>>
  BY <1>1 DEF Trigger, ctlVars, bufVars
<1>3. FwInv' /\ Faults' /\ BufInv'
  BY <1>2 DEF DataInv, FwInv, Faults, BufInv, fwVars
<1>4. /\ IsSeq(cmds') /\ Msgs(cmds') \subseteq Msgs(cmds) /\ m \in Msgs(cmds)
  BY <1>1, <1>2, MsgsTail DEF DataInv, TypedInv
<1>5. \A q \in Queues : IsSeq(rxq'[q]) /\ Msgs(rxq'[q]) = Msgs(rxq[q]) \cup {m}
  BY <1>2, MsgsAppend DEF DataInv, TypedInv
<1>6. rxq' = [q \in Queues |-> rxq'[q]]
  BY <1>2
<1>7. TypedInv'
  BY <1>4, <1>5, <1>6 DEF DataInv, TypedInv
<1> QED BY <1>3, <1>7 DEF DataInv

(* ... time passes for the timers, ... *)
LEMMA TimersBuf ==
  ASSUME DataInv, TimePasses \/ \E q \in Queues : TimerFires(q)
  PROVE  /\ buf' = [p \in Queues |-> buf'[p]] /\ handler' = [p \in Queues |-> handler'[p]]
         /\ \A p \in Queues : /\ Becomes(buf[p], buf'[p])
                              /\ buf'[p].num = buf[p].num
                              /\ buf[p].timer = "off" =>
                                   buf'[p].timer = "off" /\ handler'[p] = handler[p]
PROOF
<1>1. /\ buf = [p \in Queues |-> buf[p]] /\ handler = [p \in Queues |-> handler[p]]
      /\ \A p \in Queues : Shape(buf[p])
  BY DEF DataInv, BufInv
<1>3. CASE TimePasses
  <2>1. /\ buf' = [q \in Queues |->
                     [buf[q] EXCEPT
                        !.aged = [i \in Indices |-> buf[q].entries[i] # <<>>],
                        !.timer = IF @ = "on" THEN "due" ELSE @]]
        /\ handler' = handler
    BY <1>3 DEF TimePasses
  <2>2. ASSUME NEW p \in Queues
        PROVE  /\ Becomes(buf[p], buf'[p]) /\ buf'[p].num = buf[p].num
               /\ buf[p].timer = "off" => buf'[p].timer = "off"
    <3>1. PICK b, t, a : /\ b = buf[p] /\ t = IF b.timer = "on" THEN "due" ELSE b.timer
                         /\ a = [i \in Indices |-> b.entries[i] # <<>>]
      OBVIOUS
    <3>2. Shape(b) /\ buf'[p] = [b EXCEPT !.aged = a, !.timer = t]
      BY <1>1, <2>1, <3>1
    <3>3. PICK c : c = [b EXCEPT !.aged = a, !.timer = t]
      OBVIOUS
    <3>4. Becomes(b, c) /\ c.num = b.num /\ c.timer = t
      <4>1. /\ c = [x \in Fields |-> c[x]] /\ c.head = b.head /\ c.num = b.num
            /\ c.entries = b.entries /\ c.removed = b.removed /\ c.timer = t /\ b.head \in Sns
        BY <3>2, <3>3 DEF Shape, Fields
      <4> QED BY <3>2, <4>1, BecomesSame
    <3>5. buf'[p] = c
      BY <3>2, <3>3
    <3> QED BY <3>1, <3>4, <3>5
  <2>3. buf' = [p \in Queues |-> buf'[p]]
    BY <2>1
  <2> QED BY <1>1, <2>1, <2>2, <2>3
<1>4. CASE \E q \in Queues : TimerFires(q)
  <2>1. PICK q \in Queues : TimerFires(q)
    BY <1>4
  <2>2. /\ buf[q].timer = "due" /\ buf' = [buf EXCEPT ![q].timer = "off"]
        /\ handler' = [handler EXCEPT ![q] = TRUE]
    BY <2>1 DEF TimerFires
  <2>3. /\ buf' = [p \in Queues |-> buf'[p]] /\ handler' = [p \in Queues |-> handler'[p]]
        /\ \A p \in Queues \ {q} : buf'[p] = buf[p] /\ handler'[p] = handler[p]
        /\ buf'[q] = [buf[q] EXCEPT !.timer = "off"]
    BY <1>1, <2>2
  <2>4. Becomes(buf[q], buf'[q]) /\ buf'[q].num = buf[q].num
    <3>1. PICK b, c : b = buf[q] /\ c = [b EXCEPT !.timer = "off"]
      OBVIOUS
    <3>2. Shape(b) /\ buf'[q] = c
      BY <1>1, <2>3, <3>1
    <3>3. /\ c = [x \in Fields |-> c[x]] /\ c.head = b.head /\ c.num = b.num
          /\ c.entries = b.entries /\ c.removed = b.removed /\ b.head \in Sns
      BY <3>1, <3>2 DEF Shape, Fields
    <3> QED BY <3>1, <3>2, <3>3, BecomesSame
  <2>5. \A p \in Queues \ {q} : Becomes(buf[p], buf'[p])
    BY <1>1, <2>3, BecomesSelf
  <2> QED BY <2>2, <2>3, <2>4, <2>5
<1> QED BY <1>3, <1>4

LEMMA TimersData ==
  ASSUME DataInv, TimePasses \/ \E q \in Queues : TimerFires(q)
  PROVE  DataInv'
PROOF
<1>1. UNCHANGED <<fwVars, ssn, budget, cmds, rxq>>
  BY DEF TimePasses, TimerFires, ctlVars, syncVars
<1>2. FwInv' /\ Faults' /\ TypedInv'
  BY <1>1 DEF DataInv, FwInv, Faults, TypedInv, fwVars
<1>3. BufInv'
  BY TimersBuf DEF DataInv, BufInv, Becomes
<1> QED BY <1>2, <1>3 DEF DataInv

(* ... and the thread that starts and stops the session. *)
LEMMA InitBufferShape ==
  ASSUME NEW sn \in Sns
  PROVE  LET b == InitBuffer(sn)
         IN  Shape(b) /\ Counts(b) /\ b.num = 0 /\ b.timer = "off" /\ b.removed = FALSE
PROOF
<1>1. PICK b : b = InitBuffer(sn)
  OBVIOUS
<1>2. /\ b = [x \in Fields |-> b[x]] /\ b.head = sn /\ b.num = 0
      /\ b.entries = EmptyEntries /\ b.timer = "off" /\ b.removed = FALSE
  BY <1>1 DEF InitBuffer, Fields
<1> QED BY <1>1, <1>2, PlacesNone, InPlaceNone DEF Shape, Counts

LEMMA FreeBuf ==
  ASSUME DataInv, NEW q \in Queues, FreeReorder(q)
  PROVE  /\ buf' = [p \in Queues |-> buf'[p]] /\ handler' = [p \in Queues |-> handler'[p]]
         /\ \A p \in Queues \ {q} : buf'[p] = buf[p] /\ handler'[p] = handler[p]
         /\ Shape(buf'[q]) /\ (buf'[q].removed \/ Counts(buf'[q]))
         /\ buf[q].num = 0 => buf'[q] = buf[q] /\ handler'[q] = handler[q]
PROOF
<1>1. /\ buf = [p \in Queues |-> buf[p]] /\ handler = [p \in Queues |-> handler[p]]
      /\ Shape(buf[q]) /\ (buf[q].removed \/ Counts(buf[q]))
  BY DEF DataInv, BufInv
<1>2. CASE buf[q].num = 0
  BY <1>1, <1>2 DEF FreeReorder
<1>3. CASE buf[q].num # 0
  <2>1. PICK b, c : b = buf[q] /\ c = [b EXCEPT !.entries = EmptyEntries,
                                               !.removed = TRUE, !.timer = "off"]
    OBVIOUS
  <2>2. /\ buf' = [buf EXCEPT ![q].entries = EmptyEntries, ![q].removed = TRUE,
                              ![q].timer = "off"]
        /\ handler' = [handler EXCEPT ![q] = FALSE]
    BY <1>3 DEF FreeReorder
  <2>3. /\ buf'[q] = c
        /\ \A p \in Queues \ {q} : buf'[p] = buf[p] /\ handler'[p] = handler[p]
        /\ buf' = [p \in Queues |-> buf'[p]] /\ handler' = [p \in Queues |-> handler'[p]]
    BY <1>1, <2>1, <2>2
  <2>4. /\ c = [x \in Fields |-> c[x]] /\ c.head = b.head /\ c.num = b.num
        /\ c.entries = EmptyEntries /\ c.removed = TRUE /\ b.head \in Sns /\ b.num \in Int
    BY <1>1, <2>1 DEF Shape, Fields
  <2>5. Shape(c) /\ c.removed
    BY <2>4, PlacesNone, InPlaceNone DEF Shape
  <2> QED BY <1>3, <2>3, <2>5
<1> QED BY <1>2, <1>3

LEMMA StartRange ==
  ASSUME DataInv, StartFirmware
  PROVE  fwNssn' \in FirstId..(LastId + 1) /\ ssn' \in Sns
PROOF
<1> DEFINE T == rcvd \cup {FirstId - 1}
           R == FirstId..Max(T)
<1>1. rcvd \subseteq Ids /\ fwNssn \in FirstId..(LastId + 1)
  BY DEF DataInv, FwInv
<1>2. T \subseteq (FirstId - 1)..LastId /\ T # {} /\ FirstId - 1 \in Int /\ LastId \in Int
  BY <1>1, Numbers
<1>3. \E x \in T : \A y \in T : y <= x
  BY <1>2, Greatest
<1>4. Max(T) \in T
  <2>1. \E x \in T : \A y \in T : x >= y
    BY <1>2, <1>3
  <2> QED BY <2>1 DEF Max
<1>5. Max(T) \in Int /\ Max(T) <= LastId
  <2>1. PICK m : m = Max(T)
    OBVIOUS
  <2>2. m \in (FirstId - 1)..LastId
    BY <1>2, <1>4, <2>1, Zenon
  <2>3. m \in Int /\ m <= LastId
    BY <1>2, <2>2
  <2> QED BY <2>1, <2>3, Zenon
<1>6. LastId + 1 \notin R
  <2> HIDE DEF T
  <2> QED BY <1>5, Numbers
<1>7. fwNssn \in Nat /\ fwNssn <= LastId + 1
  BY <1>1, Numbers
<1>8. NextMissing(R, fwNssn) \in fwNssn..(LastId + 1)
  <2> HIDE DEF R
  <2> QED BY <1>6, <1>7, NextMissingRange
<1>9. fwNssn' = NextMissing(R, fwNssn) /\ ssn' = fwNssn' % SnMod
  BY DEF StartFirmware
<1> HIDE DEF R
<1>10. fwNssn' \in FirstId..(LastId + 1) /\ fwNssn' \in Int
  BY <1>1, <1>8, <1>9, Numbers
<1> QED BY <1>9, <1>10, SnRange

LEMMA ThreadData ==
  ASSUME DataInv, StartFirmware \/ StartMap \/ StopFirmware \/ Stop
  PROVE  DataInv'
PROOF
<1>1. Faults'
  <2>1. \/ UNCHANGED budget \/ budget' = [budget EXCEPT !.sessions = @ + 1]
        \/ budget' = [budget EXCEPT !.stops = @ + 1]
        \/ budget' = [budget EXCEPT !.faults = @ + 1]
    BY DEF StartFirmware, StartMap, StopFirmware, Stop, SyncEnd, SyncNotify,
           SyncNotifyFails, SyncDone, SyncTimeout, FreeReorder, StopUnmap
  <2> QED BY <2>1 DEF DataInv, Faults
<1>2. CASE StartFirmware
  <2>1. UNCHANGED <<buf, handler, cmds, rxq, rcvd>>
    BY <1>2 DEF StartFirmware, bufVars, syncVars
  <2>2. FwInv'
    BY <1>2, <2>1, StartRange DEF DataInv, FwInv
  <2> QED BY <1>1, <2>1, <2>2 DEF DataInv, TypedInv, BufInv
<1>3. CASE StartMap
  <2>1. /\ buf' = [q \in Queues |-> InitBuffer(ssn)] /\ handler' = [q \in Queues |-> FALSE]
        /\ UNCHANGED <<cmds, rxq, fwVars, ssn>>
    BY <1>3 DEF StartMap, syncVars
  <2>2. FwInv' /\ TypedInv' /\ ssn \in Sns
    BY <2>1 DEF DataInv, FwInv, TypedInv, fwVars
  <2>3. BufInv'
    BY <2>1, <2>2, InitBufferShape DEF BufInv
  <2> QED BY <1>1, <2>2, <2>3 DEF DataInv
<1>4. CASE StopFirmware \/ SyncNotifyFails \/ SyncDone \/ SyncTimeout \/ StopUnmap
  <2>1. UNCHANGED <<buf, handler, cmds, rxq, rcvd, fwNssn, ssn>>
    BY <1>4 DEF StopFirmware, SyncNotifyFails, SyncDone, SyncTimeout, StopUnmap, EndSync,
                bufVars, syncVars, fwVars
  <2> QED BY <1>1, <2>1 DEF DataInv, FwInv, TypedInv, BufInv
<1>5. CASE SyncNotify
  <2>1. PICK m : m = [type |-> "delba", cookie |-> cookie]
    OBVIOUS
  <2>2. /\ cmds' = Append(cmds, m) \/ cmds' = cmds
        /\ UNCHANGED <<buf, handler, rxq, rcvd, fwNssn, ssn>>
    BY <1>5, <2>1 DEF SyncNotify, bufVars, fwVars
  <2>3. Typed(m) /\ ~Data(m)
    BY <2>1 DEF Typed, Data
  <2>4. IsSeq(cmds') /\ Msgs(cmds') \subseteq Msgs(cmds) \cup {m}
    BY <2>2, MsgsAppend DEF DataInv, TypedInv
  <2>5. TypedInv'
    BY <2>2, <2>3, <2>4 DEF DataInv, TypedInv
  <2> QED BY <1>1, <2>2, <2>5 DEF DataInv, FwInv, BufInv
<1>6. CASE \E q \in Queues : FreeReorder(q)
  <2>1. PICK q \in Queues : FreeReorder(q)
    BY <1>6
  <2>2. UNCHANGED <<cmds, rxq, fwVars, ssn>>
    BY <2>1 DEF FreeReorder, syncVars
  <2>3. BufInv'
    BY <2>1, FreeBuf DEF DataInv, BufInv
  <2> QED BY <1>1, <2>2, <2>3 DEF DataInv, FwInv, TypedInv, fwVars
<1> QED BY <1>2, <1>3, <1>4, <1>5, <1>6 DEF Stop, SyncEnd

LEMMA DataStep == DataInv /\ [Next]_vars => DataInv'
PROOF
<1> SUFFICES ASSUME DataInv, [Next]_vars PROVE DataInv'
  OBVIOUS
<1>1. CASE \/ \E id \in Ids : Air(id) \/ AirBeyond(id) \/ AirAgain(id) \/ AirOld(id)
           \/ \E q \in Queues : Bar(q)
  BY <1>1, FirmwareData
<1>2. ASSUME NEW q \in Queues, Rx(q) \/ TimerHandler(q) PROVE DataInv'
  BY <1>2, HandlerData, DelbaData DEF Rx
<1>3. CASE Trigger
  BY <1>3, TriggerData
<1>4. CASE TimePasses \/ (\E q \in Queues : TimerFires(q))
  BY <1>4, TimersData
<1>5. CASE StartFirmware \/ StartMap \/ StopFirmware \/ Stop
  BY <1>5, ThreadData
<1>6. CASE UNCHANGED vars
  <2>1. UNCHANGED <<buf, handler, cmds, rxq, rcvd, fwNssn, ssn, budget>>
    BY <1>6 DEF vars, bufVars, syncVars, ctlVars, fwVars
  <2> QED BY <2>1 DEF DataInv, FwInv, TypedInv, BufInv, Faults
<1>7. CASE RadioKill \/ RadioBack
  <2>1. /\ UNCHANGED <<buf, handler, cmds, rxq, rcvd, fwNssn, ssn>>
        /\ UNCHANGED budget \/ budget' = [budget EXCEPT !.kills = @ + 1]
    BY <1>7 DEF RadioKill, RadioBack, bufVars, syncVars, ctlVars, fwVars
  <2> QED BY <2>1 DEF DataInv, FwInv, TypedInv, BufInv, Faults
<1> QED BY <1>1, <1>2, <1>3, <1>4, <1>5, <1>6, <1>7 DEF Next, Timer

LEMMA DataInit == Init => DataInv
PROOF
<1> SUFFICES ASSUME Init PROVE DataInv
  OBVIOUS
<1>1. /\ cmds = <<>> /\ ssn = 0 /\ fwNssn = FirstId /\ rcvd = {}
      /\ rxq = [q \in Queues |-> <<>>] /\ buf = [q \in Queues |-> InitBuffer(0)]
      /\ handler = [q \in Queues |-> FALSE]
      /\ budget = [retries |-> 0, olds |-> 0, jumps |-> 0, faults |-> 0,
                   kills |-> 0, sessions |-> 0, stops |-> 0]
  BY DEF Init
<1>2. 0 \in Sns
  BY Sizes DEF Sns
<1>3. FwInv
  BY <1>1, <1>2, Numbers DEF FwInv
<1>4. TypedInv
  BY <1>1, EmptyFacts, MsgsEmpty DEF TypedInv
<1>5. BufInv
  BY <1>1, <1>2, InitBufferShape DEF BufInv
<1>6. Faults
  BY <1>1 DEF Faults
<1> QED BY <1>3, <1>4, <1>5, <1>6 DEF DataInv

(* num_stored is the number of frames in the entries of a live buffer, for *)
(* any window, number of queues and sequence of frames, releases and timer *)
(* handlers (iwl_mvm_release_frames, iwl_mvm_reorder): the tests for an    *)
(* empty buffer of iwl_mvm_reorder and of the timer are right.             *)
THEOREM StoredCorrect == Spec => []NumStored
PROOF
<1>1. DataInv => NumStored
  BY DEF DataInv, BufInv, NumStored, Live, Counts
<1> QED BY <1>1, DataInit, DataStep, PTL DEF Spec
-----------------------------------------------------------------------------
(* The deletion of a session *)

(* No timer of the queue's buffer is pending and no handler runs; ... *)
Still(q) == buf[q].timer = "off" /\ ~handler[q]

(* ... nothing is stored either, and nothing to store is on its way. *)
Quiescent(q) ==
  /\ Still(q) /\ buf[q].num = 0 /\ ~buf[q].removed
  /\ \A m \in Msgs(rxq[q]) : ~Data(m)

(* Nothing to store follows the message of the deletion c. *)
NoDataAfter(s, c) ==
  \A i, j \in 1..Len(s) : i < j /\ Of(s[i], c) => ~Data(s[j])

(* The firmware is stopped before the queues are told, unless RFKILL       *)
(* prevents it, and the session unmapped last; a buffer is marked removed  *)
(* in between.                                                             *)
StopInv ==
  /\ pc \in {"notify", "wait", "free"} => mapped /\ (fwOn => spoilt)
  /\ \A q \in Queues : buf[q].removed => pc = "free" \/ ~mapped

AfterInv == pc = "wait" /\ ~spoilt => \A q \in Queues : NoDataAfter(rxq[q], cookie)

(* A queue that has handled the message stays quiescent ... *)
DoneInv ==
  pc = "wait" /\ ~spoilt /\ ~Holds(cmds, cookie) =>
    \A q \in Queues : ~Holds(rxq[q], cookie) => Quiescent(q)

(* ... until the session is given up. *)
EndInv ==
  budget.faults = 0 /\ ~spoilt =>
    /\ pc = "free" => \A q \in Queues : Quiescent(q)
    /\ pc = "idle" /\ ~mapped => \A q \in Queues : Still(q)

DelInv == StopInv /\ AfterInv /\ DoneInv /\ EndInv

LEMMA AfterAppend ==
  ASSUME NEW s, IsSeq(s), NEW c, NoDataAfter(s, c), NEW m, ~Data(m)
  PROVE  NoDataAfter(Append(s, m), c)
PROOF
<1>1. PICK M : s \in Seq(M)
  BY DEF IsSeq
<1>2. s \in Seq(M \cup {m}) /\ Append(s, m) \in Seq(M \cup {m})
  BY <1>1
<1>3. PICK n \in Nat : n = Len(s)
  BY <1>1
<1>4. /\ Len(Append(s, m)) = n + 1
      /\ \A i \in 1..n : Append(s, m)[i] = s[i]
      /\ Append(s, m)[n + 1] = m
  BY <1>2, <1>3
<1> HIDE <1>1, <1>2
<1>5. ASSUME NEW i \in 1..(n + 1), NEW j \in 1..(n + 1), i < j, Of(Append(s, m)[i], c)
      PROVE  ~Data(Append(s, m)[j])
  <2>1. CASE j = n + 1
    BY <1>4, <2>1
  <2>2. CASE j # n + 1
    <3>1. i \in 1..n /\ j \in 1..n
      BY <1>5, <2>2
    <3> QED BY <1>3, <1>4, <1>5, <3>1 DEF NoDataAfter
  <2> QED BY <2>1, <2>2
<1> QED BY <1>4, <1>5 DEF NoDataAfter

LEMMA AfterTail ==
  ASSUME NEW s, IsSeq(s), s # <<>>, NEW c, NoDataAfter(s, c)
  PROVE  /\ NoDataAfter(Tail(s), c)
         /\ Of(Head(s), c) => \A m \in Msgs(Tail(s)) : ~Data(m)
PROOF
<1>1. PICK M : s \in Seq(M)
  BY DEF IsSeq
<1>2. Tail(s) \in Seq(M)
  BY <1>1
<1>3. PICK n \in Nat : n = Len(s) /\ n >= 1
  BY <1>1
<1>4. /\ Len(Tail(s)) = n - 1 /\ Head(s) = s[1]
      /\ \A i \in 1..(n - 1) : Tail(s)[i] = s[i + 1]
  BY <1>1, <1>2, <1>3
<1> HIDE <1>1, <1>2
<1>5. ASSUME NEW i \in 1..(n - 1), NEW j \in 1..(n - 1), i < j, Of(Tail(s)[i], c)
      PROVE  ~Data(Tail(s)[j])
  <2>1. i + 1 \in 1..n /\ j + 1 \in 1..n /\ i + 1 < j + 1
    BY <1>3, <1>5
  <2> QED BY <1>3, <1>4, <1>5, <2>1 DEF NoDataAfter
<1>6. ASSUME NEW j \in 1..(n - 1), Of(Head(s), c) PROVE ~Data(Tail(s)[j])
  <2>1. 1 \in 1..n /\ j + 1 \in 1..n /\ 1 < j + 1
    BY <1>3
  <2> QED BY <1>3, <1>4, <1>6, <2>1 DEF NoDataAfter
<1>7. NoDataAfter(Tail(s), c)
  BY <1>4, <1>5 DEF NoDataAfter
<1>8. Of(Head(s), c) => \A m \in Msgs(Tail(s)) : ~Data(m)
  BY <1>4, <1>6 DEF Msgs
<1> QED BY <1>7, <1>8

(* A step that leaves the thread where it is. *)
LEMMA DelKept ==
  ASSUME DelInv, UNCHANGED <<pc, mapped, fwOn, cookie>>,
         budget'.faults = budget.faults, ~spoilt' => ~spoilt,
         \A p \in Queues : buf'[p].removed = buf[p].removed,
         pc = "wait" /\ ~spoilt => \A p \in Queues :
           NoDataAfter(rxq[p], cookie) => NoDataAfter(rxq'[p], cookie),
         pc = "wait" /\ ~spoilt /\ ~Holds(cmds', cookie) => \A p \in Queues :
           ~Holds(rxq'[p], cookie) =>
             Quiescent(p)' \/ (~Holds(cmds, cookie) /\ ~Holds(rxq[p], cookie)),
         pc \in {"wait", "free"} /\ ~spoilt =>
           \A p \in Queues : Quiescent(p) => Quiescent(p)',
         pc = "idle" /\ ~mapped /\ (\A p \in Queues : Still(p)) =>
           \A p \in Queues : Still(p)'
  PROVE  DelInv'
PROOF
<1>1. StopInv'
  BY DEF DelInv, StopInv
<1>2. AfterInv'
  BY DEF DelInv, AfterInv
<1>3. DoneInv'
  BY DEF DelInv, DoneInv
<1>4. EndInv'
  BY DEF DelInv, EndInv
<1> QED BY <1>1, <1>2, <1>3, <1>4 DEF DelInv

(* The firmware delivers nothing once it is stopped. *)
LEMMA FirmwareDel ==
  ASSUME DataInv, DelInv,
         \/ \E id \in Ids : Air(id) \/ AirBeyond(id) \/ AirAgain(id) \/ AirOld(id)
         \/ \E q \in Queues : Bar(q)
  PROVE  DelInv'
PROOF
<1>1. fwOn /\ UNCHANGED <<pc, mapped, fwOn, cookie, buf, handler, spoilt>>
  BY DEF Air, AirBeyond, AirAgain, AirOld, Bar, bufVars, ctlVars, syncVars, histVars
<1>2. budget'.faults = budget.faults
  <2>1. \/ UNCHANGED budget \/ budget' = [budget EXCEPT !.jumps = @ + 1]
        \/ budget' = [budget EXCEPT !.retries = @ + 1]
        \/ budget' = [budget EXCEPT !.olds = @ + 1]
    BY DEF Air, AirBeyond, AirAgain, AirOld, Bar
  <2> QED BY <2>1 DEF DataInv, Faults
<1>3. spoilt \/ pc \notin {"notify", "wait", "free"}
  BY <1>1 DEF DelInv, StopInv
<1>4. \A p \in Queues : Still(p) => Still(p)'
  BY <1>1 DEF Still
<1> QED BY <1>1, <1>2, <1>3, <1>4, DelKept

(* The firmware's messages for trigger commands bring no frames. *)
LEMMA TriggerDel == ASSUME DataInv, SyncInv, DelInv, Trigger PROVE DelInv'
PROOF
<1>1. PICK m : m = Head(cmds)
  OBVIOUS
<1>2. /\ cmds # <<>> /\ cmds' = Tail(cmds)
      /\ rxq' = [q \in Queues |-> Append(rxq[q], m)]
      /\ UNCHANGED <<pc, mapped, fwOn, cookie, buf, handler, spoilt, budget>>
  BY <1>1 DEF Trigger, ctlVars, bufVars, fwVars, histVars
<1>3. ~Data(m)
  <2>1. m \in Msgs(cmds)
    BY <1>1, <1>2, MsgsTail DEF DataInv, TypedInv
  <2> QED BY <2>1 DEF DataInv, TypedInv
<1>4. ~Of(m, cookie) => (Holds(cmds', cookie) <=> Holds(cmds, cookie))
  BY <1>1, <1>2, TailFacts DEF SyncInv, MsgInv
<1>5. ASSUME NEW p \in Queues
      PROVE  /\ NoDataAfter(rxq[p], cookie) => NoDataAfter(rxq'[p], cookie)
             /\ Quiescent(p) => Quiescent(p)'
             /\ Still(p) => Still(p)'
             /\ buf'[p].removed = buf[p].removed
             /\ ~Of(m, cookie) => (Holds(rxq'[p], cookie) <=> Holds(rxq[p], cookie))
             /\ Of(m, cookie) => Holds(rxq'[p], cookie)
  <2>1. rxq'[p] = Append(rxq[p], m) /\ IsSeq(rxq[p])
    BY <1>2 DEF DataInv, TypedInv
  <2>2. Msgs(rxq'[p]) = Msgs(rxq[p]) \cup {m}
    BY <2>1, MsgsAppend
  <2>3. NoDataAfter(rxq[p], cookie) => NoDataAfter(rxq'[p], cookie)
    BY <1>3, <2>1, AfterAppend
  <2>4. Still(p) => Still(p)'
    BY <1>2 DEF Still
  <2>5. Quiescent(p) => Quiescent(p)'
    BY <1>2, <1>3, <2>2, <2>4 DEF Quiescent
  <2>6. /\ ~Of(m, cookie) => (Holds(rxq'[p], cookie) <=> Holds(rxq[p], cookie))
        /\ Of(m, cookie) => Holds(rxq'[p], cookie)
    BY <2>1, AppendFacts
  <2> QED BY <1>2, <2>3, <2>4, <2>5, <2>6
<1>6. ~Holds(cmds', cookie) => \A p \in Queues :
        ~Holds(rxq'[p], cookie) => ~Holds(cmds, cookie) /\ ~Holds(rxq[p], cookie)
  BY <1>4, <1>5
<1>7. /\ \A p \in Queues : NoDataAfter(rxq[p], cookie) => NoDataAfter(rxq'[p], cookie)
      /\ \A p \in Queues : Quiescent(p) => Quiescent(p)'
      /\ \A p \in Queues : Still(p) => Still(p)'
      /\ \A p \in Queues : buf'[p].removed = buf[p].removed
  BY <1>5
<1>8. budget'.faults = budget.faults
  BY <1>2
<1> HIDE <1>5
<1> QED BY <1>2, <1>6, <1>7, <1>8, DelKept

(* Time passes for the timers, or one fires. *)
LEMMA TimersDel ==
  ASSUME DataInv, DelInv, TimePasses \/ \E q \in Queues : TimerFires(q)
  PROVE  DelInv'
PROOF
<1>1. UNCHANGED <<pc, mapped, fwOn, cookie, cmds, rxq, spoilt, budget>>
  BY DEF TimePasses, TimerFires, ctlVars, syncVars, fwVars, histVars
<1>2. \A p \in Queues : /\ buf'[p].removed = buf[p].removed
                        /\ buf'[p].num = buf[p].num
                        /\ buf[p].timer = "off" =>
                             buf'[p].timer = "off" /\ handler'[p] = handler[p]
  BY TimersBuf DEF Becomes
<1>3. \A p \in Queues : Still(p) => Still(p)'
  BY <1>2 DEF Still
<1>4. \A p \in Queues : Quiescent(p) => Quiescent(p)'
  BY <1>1, <1>2, <1>3 DEF Quiescent
<1>5. budget'.faults = budget.faults
  BY <1>1
<1> QED BY <1>1, <1>2, <1>3, <1>4, <1>5, DelKept

(* A handler of queue q finds nothing to do when q is quiescent. *)
LEMMA HandlerSettled ==
  ASSUME DataInv, NEW q \in Queues,
         RxFrame(q) \/ RxRelease(q) \/ RxNssnSync(q) \/ TimerHandler(q), Quiescent(q)
  PROVE  Quiescent(q)' /\ RxNssnSync(q)
PROOF
<1>1. RxNssnSync(q)
  <2>1. ~TimerHandler(q)
    BY DEF Quiescent, Still, TimerHandler
  <2>2. ~RxFrame(q) /\ ~RxRelease(q)
    <3>1. rxq[q] # <<>> => Head(rxq[q]) \in Msgs(rxq[q])
      BY MsgsTail DEF DataInv, TypedInv
    <3> QED BY <3>1 DEF Quiescent, Data, RxFrame, RxRelease, Receive
  <2> QED BY <2>1, <2>2
<1>2. PICK r : /\ Good(buf[q], r) /\ Apply(q, r)
               /\ \/ r.buf = buf[q]
                  \/ \E n \in Sns : r = ReleaseFrames(buf[q], n, {"from"})
  BY <1>1, HandlersGood
<1>3. buf'[q] = r.buf /\ buf'[q].removed = buf[q].removed
  BY <1>2, ApplyData
<1>4. buf[q].num = 0 /\ buf[q].timer = "off" /\ Counts(buf[q]) /\ Shape(buf[q])
  BY DEF Quiescent, Still, DataInv, BufInv
<1>5. buf'[q].num = 0 /\ buf'[q].timer = "off"
  <2>1. CASE r.buf = buf[q]
    BY <1>3, <1>4, <2>1
  <2>2. ASSUME NEW n \in Sns, r = ReleaseFrames(buf[q], n, {"from"})
        PROVE  buf'[q].num = 0 /\ buf'[q].timer = "off"
    BY <1>3, <1>4, <2>2, ReleaseBuf
  <2> QED BY <1>2, <2>1, <2>2
<1>6. rxq[q] # <<>> /\ rxq' = [rxq EXCEPT ![q] = Tail(@)] /\ handler' = handler
  BY <1>1 DEF RxNssnSync, Receive
<1>7. Msgs(rxq'[q]) \subseteq Msgs(rxq[q])
  BY <1>6, ReceiveData DEF DataInv
<1>8. Still(q)'
  BY <1>5, <1>6 DEF Quiescent, Still
<1> QED BY <1>1, <1>3, <1>5, <1>7, <1>8 DEF Quiescent

(* Without a session the handlers leave the buffers alone. *)
LEMMA HandlerUnmapped ==
  ASSUME DataInv, NEW q \in Queues, ~mapped, Still(q),
         RxFrame(q) \/ RxRelease(q) \/ RxNssnSync(q) \/ TimerHandler(q)
  PROVE  UNCHANGED <<buf, handler>>
PROOF
<1>1. ~TimerHandler(q)
  BY DEF Still, TimerHandler
<1>2. handler' = handler /\ Apply(q, Quiet(q))
  BY <1>1 DEF RxFrame, RxRelease, RxNssnSync
<1>3. buf' = [buf EXCEPT ![q] = buf[q]]
  BY <1>2 DEF Apply, Quiet
<1> QED BY <1>2, <1>3 DEF DataInv, BufInv

LEMMA HandlerDel ==
  ASSUME DataInv, SyncInv, DelInv, NEW q \in Queues,
         RxFrame(q) \/ RxRelease(q) \/ RxNssnSync(q) \/ TimerHandler(q)
  PROVE  DelInv'
PROOF
<1>1. PICK r : Good(buf[q], r) /\ Apply(q, r)
  BY HandlersGood
<1>2. /\ UNCHANGED <<pc, mapped, fwOn, cookie, budget>>
      /\ \/ UNCHANGED handler \/ handler' = [handler EXCEPT ![q] = FALSE]
  BY DEF RxFrame, RxRelease, RxNssnSync, TimerHandler, ctlVars, fwVars
<1>3. ~spoilt' => ~spoilt
  BY <1>1 DEF Apply
<1>4. /\ \A p \in Queues : buf'[p].removed = buf[p].removed
      /\ \A p \in Queues \ {q} : buf'[p] = buf[p]
  BY <1>1, ApplyData
<1>5. \A p \in Queues \ {q} : handler'[p] = handler[p]
  BY <1>2 DEF DataInv, BufInv
<1>6. /\ \A p \in Queues \ {q} : rxq'[p] = rxq[p]
      /\ \/ rxq'[q] = rxq[q]
         \/ /\ rxq[q] # <<>> /\ rxq'[q] = Tail(rxq[q])
            /\ ~Of(Head(rxq[q]), cookie)
  <2>1. CASE TimerHandler(q)
    BY <2>1 DEF TimerHandler
  <2>2. CASE RxFrame(q) \/ RxRelease(q) \/ RxNssnSync(q)
    <3>1. /\ rxq[q] # <<>> /\ rxq' = [rxq EXCEPT ![q] = Tail(@)]
          /\ Head(rxq[q]).type # "delba"
      BY <2>2 DEF RxFrame, RxRelease, RxNssnSync, Receive
    <3>2. rxq'[q] = Tail(rxq[q]) /\ \A p \in Queues \ {q} : rxq'[p] = rxq[p]
      BY <3>1, ReceiveData DEF DataInv
    <3> QED BY <3>1, <3>2 DEF Of
  <2> QED BY <2>1, <2>2
<1>7. \A p \in Queues : IsSeq(rxq[p])
  BY DEF DataInv, TypedInv
<1>8. \A p \in Queues : NoDataAfter(rxq[p], cookie) => NoDataAfter(rxq'[p], cookie)
  <2>1. NoDataAfter(rxq[q], cookie) => NoDataAfter(rxq'[q], cookie)
    BY <1>6, <1>7, AfterTail
  <2> QED BY <1>6, <2>1
<1>9. \A p \in Queues : Holds(rxq'[p], cookie) <=> Holds(rxq[p], cookie)
  <2>1. Holds(rxq'[q], cookie) <=> Holds(rxq[q], cookie)
    BY <1>6, <1>7, TailFacts
  <2> QED BY <1>6, <2>1
<1>10. Holds(cmds', cookie) <=> Holds(cmds, cookie)
  <2>1. PICK n \in Nat : n = Len(r.sync)
    BY <1>1, ListLength DEF Good
  <2>2. PICK h : h = [k \in 1..n |-> [type |-> "sync", nssn |-> r.sync[k]]]
    OBVIOUS
  <2>3. IsSeq(h) /\ NoDelba(h)
    <3>1. h = [k \in 1..n |-> h[k]] /\ \A k \in 1..n : h[k].type # "delba"
      BY <2>2
    <3> QED BY <3>1, TupleFacts
  <2>4. cmds' = cmds \o h
    BY <1>1, <2>1, <2>2 DEF Apply
  <2> QED BY <2>3, <2>4, ConcatFacts DEF SyncInv, MsgInv
<1>11. \A p \in Queues : Quiescent(p) => Quiescent(p)'
  <2>1. ASSUME NEW p \in Queues \ {q}, Quiescent(p) PROVE Quiescent(p)'
    BY <1>4, <1>5, <1>6, <2>1 DEF Quiescent, Still
  <2>2. Quiescent(q) => Quiescent(q)'
    BY HandlerSettled
  <2> QED BY <2>1, <2>2
<1>12. ~mapped /\ (\A p \in Queues : Still(p)) => \A p \in Queues : Still(p)'
  <2> SUFFICES ASSUME ~mapped, \A p \in Queues : Still(p), NEW p \in Queues PROVE Still(p)'
    OBVIOUS
  <2>1. UNCHANGED <<buf, handler>>
    BY HandlerUnmapped
  <2> QED BY <2>1 DEF Still
<1>13. budget'.faults = budget.faults
  BY <1>2
<1> QED BY <1>2, <1>3, <1>4, <1>8, <1>9, <1>10, <1>11, <1>12, <1>13, DelKept

(* The message of the deletion in progress releases all that is stored. *)
LEMMA DelbaSettles ==
  ASSUME SnMod % BufSize = 0, DataInv, SyncInv, DelInv, NEW q \in Queues, RxDelBa(q),
         ~Expired(Head(rxq[q]))
  PROVE  pc = "wait" /\ (~spoilt => Quiescent(q)')
PROOF
<1>1. /\ rxq[q] # <<>> /\ Head(rxq[q]).type = "delba"
      /\ rxq' = [rxq EXCEPT ![q] = Tail(@)]
  BY DEF RxDelBa, Receive
<1>2. Of(Head(rxq[q]), cookie) /\ IsSeq(rxq[q])
  BY <1>1 DEF Of, Expired, DataInv, TypedInv
<1>3. Holds(rxq[q], cookie)
  BY <1>1, <1>2, TailFacts
<1>4. pc = "wait"
  BY <1>3 DEF SyncInv, OnceInv
<1> SUFFICES ASSUME ~spoilt PROVE Quiescent(q)'
  BY <1>4
<1>5. mapped /\ ~buf[q].removed /\ NoDataAfter(rxq[q], cookie)
  BY <1>4 DEF DelInv, StopInv, AfterInv
<1>6. Shape(buf[q]) /\ Counts(buf[q])
  BY <1>5 DEF DataInv, BufInv
<1>7. /\ buf'[q].timer = "off" /\ handler'[q] = FALSE
      /\ buf'[q].num = ReleaseFrames(buf[q], SnAdd(buf[q].head, BufSize), {}).buf.num
      /\ buf'[q].removed = buf[q].removed
  BY <1>5, DelbaBuf DEF Becomes
<1>8. buf'[q].num = 0
  BY <1>6, <1>7, ReleaseAll
<1>9. rxq'[q] = Tail(rxq[q])
  BY <1>1, ReceiveData DEF DataInv
<1>10. \A m \in Msgs(rxq'[q]) : ~Data(m)
  BY <1>1, <1>2, <1>5, <1>9, AfterTail
<1>11. Still(q)'
  BY <1>7 DEF Still
<1> QED BY <1>5, <1>7, <1>8, <1>10, <1>11 DEF Quiescent

LEMMA DelbaDel ==
  ASSUME SnMod % BufSize = 0, DataInv, SyncInv, DelInv, NEW q \in Queues, RxDelBa(q)
  PROVE  DelInv'
PROOF
<1>1. /\ rxq[q] # <<>> /\ Head(rxq[q]).type = "delba"
      /\ rxq' = [rxq EXCEPT ![q] = Tail(@)]
      /\ UNCHANGED <<pc, mapped, fwOn, cookie, cmds, spoilt, budget>>
  BY DEF RxDelBa, Receive, ctlVars, fwVars
<1>2. /\ rxq'[q] = Tail(rxq[q]) /\ Msgs(rxq'[q]) \subseteq Msgs(rxq[q])
      /\ \A p \in Queues \ {q} : rxq'[p] = rxq[p]
  BY <1>1, ReceiveData DEF DataInv
<1>3. /\ \A p \in Queues \ {q} : buf'[p] = buf[p] /\ handler'[p] = handler[p]
      /\ buf'[q].removed = buf[q].removed
      /\ Expired(Head(rxq[q])) => buf' = buf /\ handler' = handler
  BY DelbaBuf DEF Becomes
<1>4. \A p \in Queues : IsSeq(rxq[p])
  BY DEF DataInv, TypedInv
<1>5. \A p \in Queues : NoDataAfter(rxq[p], cookie) => NoDataAfter(rxq'[p], cookie)
  <2>1. NoDataAfter(rxq[q], cookie) => NoDataAfter(rxq'[q], cookie)
    BY <1>1, <1>2, <1>4, AfterTail
  <2> QED BY <1>2, <2>1
<1>6. \A p \in Queues \ {q} : /\ Quiescent(p) => Quiescent(p)'
                              /\ Still(p) => Still(p)'
  BY <1>2, <1>3 DEF Quiescent, Still
<1>7. \A p \in Queues : buf'[p].removed = buf[p].removed
  BY <1>3
<1>8. budget'.faults = budget.faults
  BY <1>1
<1>9. CASE Expired(Head(rxq[q]))
  <2>1. ~Of(Head(rxq[q]), cookie)
    BY <1>9 DEF Of, Expired
  <2>2. Holds(rxq'[q], cookie) <=> Holds(rxq[q], cookie)
    BY <1>1, <1>2, <1>4, <2>1, TailFacts
  <2>3. Still(q) => Still(q)'
    BY <1>3, <1>9 DEF Still
  <2>4. Quiescent(q) => Quiescent(q)'
    BY <1>2, <1>3, <1>9, <2>3 DEF Quiescent
  <2>5. \A p \in Queues : /\ Quiescent(p) => Quiescent(p)'
                          /\ Still(p) => Still(p)'
                          /\ Holds(rxq'[p], cookie) <=> Holds(rxq[p], cookie)
    BY <1>2, <1>6, <2>2, <2>3, <2>4
  <2> QED BY <1>1, <1>5, <1>7, <1>8, <2>5, DelKept
<1>10. CASE ~Expired(Head(rxq[q]))
  <2>1. pc = "wait" /\ (~spoilt => Quiescent(q)')
    BY <1>10, DelbaSettles
  <2>2. ~spoilt =>
        /\ \A p \in Queues : Quiescent(p) => Quiescent(p)'
        /\ \A p \in Queues : ~Holds(rxq'[p], cookie) =>
             Quiescent(p)' \/ ~Holds(rxq[p], cookie)
    BY <1>2, <1>6, <2>1
  <2> QED BY <1>1, <1>5, <1>7, <1>8, <2>1, <2>2, DelKept
<1> QED BY <1>9, <1>10

(* The wait ends without a fault only when every queue has handled the     *)
(* message.                                                                *)
LEMMA EndSyncDel ==
  ASSUME DataInv, SyncInv, KillInv, DelInv, SyncNotifyFails \/ SyncDone \/ SyncTimeout
  PROVE  DelInv'
PROOF
<1>1. /\ pc \in {"notify", "wait"} /\ pc' = "free"
      /\ UNCHANGED <<buf, handler, mapped, fwOn, rxq, spoilt>>
  BY DEF SyncNotifyFails, SyncDone, SyncTimeout, EndSync, bufVars, fwVars, histVars
<1>2. StopInv' /\ AfterInv' /\ DoneInv'
  BY <1>1 DEF DelInv, StopInv, AfterInv, DoneInv
<1>3. ASSUME budget'.faults = 0, ~spoilt'
      PROVE  \A q \in Queues : Quiescent(q)
  <2>1. budget.faults \in Nat /\ ~(budget' = [budget EXCEPT !.faults = @ + 1])
    <3>1. PICK n \in Nat : n = budget.faults
      BY DEF DataInv, Faults
    <3>2. budget' = [budget EXCEPT !.faults = @ + 1] => budget'.faults = n + 1
      BY <3>1 DEF DataInv, Faults
    <3> QED BY <1>3, <3>1, <3>2
  <2>2. ~spoilt /\ ~killed
    BY <1>1, <1>3 DEF KillInv
  <2>3. pc = "wait" /\ (counter = 0 \/ ~DelBaPending)
    BY <2>1, <2>2 DEF SyncNotifyFails, SyncDone, SyncTimeout
  <2>4. ~Holds(cmds, cookie) /\ \A q \in Queues : ~Holds(rxq[q], cookie)
    <3>1. CASE counter = 0
      <4>1. /\ IsFiniteSet(Queues) /\ Queues # {} /\ Reaches \subseteq Queues
        BY ReorderBufferAssumption DEF Reaches
      <4>2. Cardinality(Queues) # 0 /\ IsFiniteSet(Reaches)
        BY <4>1, FS_EmptySet, FS_Subset
      <4>3. ~Holds(cmds, cookie) /\ Cardinality(Reaches) = 0
        BY <2>2, <2>3, <3>1, <4>2 DEF SyncInv, CountInv
      <4>4. Reaches = {}
        BY <4>2, <4>3, FS_EmptySet
      <4> QED BY <4>3, <4>4 DEF Reaches
    <3>2. CASE ~DelBaPending
      <4>1. ASSUME NEW s, IsSeq(s), Holds(s, cookie) PROVE \E m \in Range(s) : DelBa(m)
        <5>1. DOMAIN s = 1..Len(s)
          BY <4>1 DEF IsSeq
        <5> QED BY <4>1, <5>1 DEF Holds, Range, DelBa, Of
      <4>2. IsSeq(cmds) /\ \A q \in Queues : IsSeq(rxq[q])
        BY DEF SyncInv, MsgInv
      <4>3. /\ ~\E m \in Range(cmds) : DelBa(m)
            /\ \A q \in Queues : ~\E m \in Range(rxq[q]) : DelBa(m)
        BY <3>2 DEF DelBaPending
      <4> QED BY <4>1, <4>2, <4>3
    <3> QED BY <2>3, <3>1, <3>2
  <2> QED BY <2>2, <2>3, <2>4 DEF DelInv, DoneInv
<1>4. EndInv'
  <2>1. \A q \in Queues : Quiescent(q) => Quiescent(q)'
    BY <1>1 DEF Quiescent, Still
  <2> QED BY <1>1, <1>3, <2>1 DEF EndInv
<1> QED BY <1>2, <1>4 DEF DelInv

(* iwl_mvm_free_reorder has nothing to purge then. *)
LEMMA FreeDel ==
  ASSUME DataInv, DelInv, NEW q \in Queues, FreeReorder(q)
  PROVE  DelInv'
PROOF
<1>1. /\ pc = "free" /\ UNCHANGED <<pc, mapped, fwOn, rxq, spoilt, budget>>
  BY DEF FreeReorder, fwVars, histVars
<1>2. StopInv' /\ AfterInv' /\ DoneInv'
  BY <1>1 DEF DelInv, StopInv, AfterInv, DoneInv
<1>3. EndInv'
  <2> SUFFICES ASSUME budget.faults = 0, ~spoilt, NEW p \in Queues PROVE Quiescent(p)'
    BY <1>1 DEF EndInv
  <2>1. Quiescent(p) /\ Quiescent(q)
    BY <1>1 DEF DelInv, EndInv
  <2>2. buf'[p] = buf[p] /\ handler'[p] = handler[p]
    <3>1. buf[q].num = 0
      BY <2>1 DEF Quiescent
    <3> QED BY <3>1 DEF FreeReorder
  <2> QED BY <1>1, <2>1, <2>2 DEF Quiescent, Still
<1> QED BY <1>2, <1>3 DEF DelInv

LEMMA ThreadDel ==
  ASSUME DataInv, SyncInv, KillInv, DelInv, StartFirmware \/ StartMap \/ StopFirmware \/ Stop
  PROVE  DelInv'
PROOF
<1>1. CASE StartFirmware
  <2>1. /\ ~mapped /\ pc' = "starting" /\ UNCHANGED <<buf, mapped>>
    BY <1>1 DEF StartFirmware, bufVars
  <2> QED BY <2>1 DEF DelInv, StopInv, AfterInv, DoneInv, EndInv
<1>2. CASE StartMap
  <2>1. /\ pc' = "idle" /\ mapped' = TRUE /\ ssn \in Sns
        /\ buf' = [q \in Queues |-> InitBuffer(ssn)]
    BY <1>2 DEF StartMap, DataInv, FwInv
  <2>2. \A q \in Queues : buf'[q].removed = FALSE
    BY <2>1, InitBufferShape
  <2> QED BY <2>1, <2>2 DEF DelInv, StopInv, AfterInv, DoneInv, EndInv
<1>3. CASE StopFirmware
  <2>1. /\ pc = "idle" /\ mapped /\ pc' = "notify" /\ (fwOn' => spoilt')
        /\ UNCHANGED <<buf, mapped>>
    BY <1>3 DEF StopFirmware, bufVars
  <2> QED BY <2>1 DEF DelInv, StopInv, AfterInv, DoneInv, EndInv
<1>4. CASE SyncNotify
  <2>1. PICK m : m = [type |-> "delba", cookie |-> cookie]
    OBVIOUS
  <2>2. /\ pc = "notify" /\ pc' = "wait" /\ (cmds' = Append(cmds, m) \/ killed)
        /\ UNCHANGED <<buf, mapped, fwOn, rxq, cookie, spoilt>>
    BY <1>4, <2>1 DEF SyncNotify, bufVars, fwVars, histVars
  <2>3. IsSeq(cmds) /\ \A q \in Queues : ~Holds(rxq[q], cookie)
    BY <2>2 DEF SyncInv, MsgInv, OnceInv
  <2>4. ~spoilt => Holds(cmds', cookie)
    <3>1. Of(m, cookie)
      BY <2>1 DEF Of
    <3>2. Holds(Append(cmds, m), cookie)
      BY <2>3, <3>1, AppendFacts
    <3> QED BY <2>2, <3>2 DEF KillInv
  <2>5. \A q \in Queues : NoDataAfter(rxq'[q], cookie)
    BY <2>2, <2>3 DEF NoDataAfter, Holds
  <2>6. StopInv'
    BY <2>2 DEF DelInv, StopInv
  <2> QED BY <2>2, <2>4, <2>5, <2>6 DEF DelInv, AfterInv, DoneInv, EndInv
<1>5. CASE StopUnmap
  <2>1. /\ pc = "free" /\ pc' = "idle" /\ mapped' = FALSE
        /\ UNCHANGED <<buf, handler, spoilt, budget>>
    BY <1>5 DEF StopUnmap, bufVars, histVars
  <2>2. StopInv' /\ AfterInv' /\ DoneInv'
    BY <2>1 DEF StopInv, AfterInv, DoneInv
  <2>3. EndInv'
    BY <2>1 DEF DelInv, EndInv, Quiescent, Still
  <2> QED BY <2>2, <2>3 DEF DelInv
<1>6. CASE SyncNotifyFails \/ SyncDone \/ SyncTimeout
  BY <1>6, EndSyncDel
<1>7. CASE \E q \in Queues : FreeReorder(q)
  BY <1>7, FreeDel
<1> QED BY <1>1, <1>2, <1>3, <1>4, <1>5, <1>6, <1>7 DEF Stop, SyncEnd

LEMMA DelStep ==
  ASSUME SnMod % BufSize = 0
  PROVE  DataInv /\ SyncInv /\ KillInv /\ DelInv /\ [Next]_vars => DelInv'
PROOF
<1> SUFFICES ASSUME DataInv, SyncInv, KillInv, DelInv, [Next]_vars PROVE DelInv'
  OBVIOUS
<1>1. CASE \/ \E id \in Ids : Air(id) \/ AirBeyond(id) \/ AirAgain(id) \/ AirOld(id)
           \/ \E q \in Queues : Bar(q)
  BY <1>1, FirmwareDel
<1>2. ASSUME NEW q \in Queues, Rx(q) \/ TimerHandler(q) PROVE DelInv'
  BY <1>2, HandlerDel, DelbaDel DEF Rx
<1>3. CASE Trigger
  BY <1>3, TriggerDel
<1>4. CASE TimePasses \/ (\E q \in Queues : TimerFires(q))
  BY <1>4, TimersDel
<1>5. CASE StartFirmware \/ StartMap \/ StopFirmware \/ Stop
  BY <1>5, ThreadDel
<1>6. CASE UNCHANGED vars
  <2>1. UNCHANGED <<buf, handler, cmds, rxq, cookie, pc, mapped, fwOn, budget, spoilt>>
    BY <1>6 DEF vars, bufVars, syncVars, ctlVars, fwVars, histVars
  <2>2. \A q \in Queues : (Quiescent(q) <=> Quiescent(q)') /\ (Still(q) <=> Still(q)')
    BY <2>1 DEF Quiescent, Still
  <2> QED BY <2>1, <2>2 DEF DelInv, StopInv, AfterInv, DoneInv, EndInv
<1>7. CASE RadioKill \/ RadioBack
  <2>1. /\ UNCHANGED <<buf, handler, cmds, rxq, cookie, pc, mapped, fwOn>>
        /\ UNCHANGED budget \/ budget' = [budget EXCEPT !.kills = @ + 1]
    BY <1>7 DEF RadioKill, RadioBack, bufVars, syncVars, ctlVars, fwVars
  <2>2. spoilt => spoilt'
    BY <1>7 DEF RadioKill, RadioBack, histVars
  <2>3. \A q \in Queues : (Quiescent(q) <=> Quiescent(q)') /\ (Still(q) <=> Still(q)')
    BY <2>1 DEF Quiescent, Still
  <2>4. budget'.faults = budget.faults
    BY <2>1 DEF DataInv, Faults
  <2> QED BY <2>1, <2>2, <2>3, <2>4, DelKept
<1> QED BY <1>1, <1>2, <1>3, <1>4, <1>5, <1>6, <1>7 DEF Next, Timer

(* A deletion that no fault, no asynchronous message and no kill of the    *)
(* radio disturbs leaves nothing behind, even if earlier ones were cut     *)
(* short by a kill or lost their counter, for any number of queues,        *)
(* sessions, frames and delayed messages, when the window divides the      *)
(* sequence space, as every window of a power of two does:                 *)
(* iwl_mvm_free_reorder finds the buffers empty, and no timer is pending   *)
(* and no handler running when baid_data is freed.                         *)
THEOREM DeleteCorrect ==
  ASSUME SnMod % BufSize = 0
  PROVE  Spec => []DeleteSynchronised
PROOF
<1>1. Init => DelInv
  <2> SUFFICES ASSUME Init PROVE DelInv
    OBVIOUS
  <2>1. /\ pc = "idle" /\ ~mapped /\ buf = [q \in Queues |-> InitBuffer(0)]
        /\ handler = [q \in Queues |-> FALSE]
    BY DEF Init
  <2>2. \A q \in Queues : Still(q)
    BY <2>1 DEF Still, InitBuffer
  <2> QED BY <2>1, <2>2 DEF DelInv, StopInv, AfterInv, DoneInv, EndInv
<1>2. DelInv => DeleteSynchronised
  BY DEF DelInv, EndInv, Quiescent, Still, DeleteSynchronised
<1>3. SnMod % BufSize = 0
  OBVIOUS
<1>4. DataInv /\ SyncInv /\ KillInv /\ DelInv /\ [Next]_vars => DelInv'
  BY <1>3, DelStep
<1>5. Init => KillInv
  BY DEF Init, KillInv
<1> QED BY <1>1, <1>2, <1>4, <1>5, SyncInit, StepSync, KillStep, DataInit, DataStep, PTL
        DEF Spec
=============================================================================
