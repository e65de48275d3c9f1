--------------------------- MODULE RestoreProofs ---------------------------
(***************************************************************************)
(* Why a restore can always be taken up again.  A call is the list of the  *)
(* operations it makes; the proof runs every list, from what the areas may *)
(* hold, and finds the invariant kept after each operation and every       *)
(* operation possible.  A crash or a failure may then come anywhere.       *)
(***************************************************************************)
EXTENDS Restore, SequenceTheorems, TLAPS

-----------------------------------------------------------------------------
(***************************************************************************)
(* The inductive invariant.  What the four areas may hold after a power    *)
(* failure is a product of four sets; the invariant is about every choice  *)
(* from it.                                                                *)
(***************************************************************************)
HasCurrent(r) == r # None /\ r.current # None
Done(r) == r # None /\ r.finished # None

StateOK(s) ==
    /\ s = State(s.generation, s.cursor, s.previous, Records(0, s.cursor))
    /\ s.generation \in Nat /\ s.cursor \in Nat
(* A chunk can follow the state, or led to it.                             *)
Fits(chunk, s) ==
    chunk.start = s.cursor \/ (chunk.end = s.cursor /\ chunk.start = s.previous)

(* c: the call that runs, what was acknowledged, the last chunk offered.   *)
RootOK(c, r) ==
    /\ r # None =>
           /\ r = [marker |-> r.marker, current |-> r.current, finished |-> r.finished]
           /\ r.marker \in BOOLEAN
           /\ r.current # None => r.marker /\ StateOK(r.current)
           /\ r.finished \in {None, r.current}
    /\ c.acked > 0 => HasCurrent(r) /\ r.current.cursor >= c.acked
    /\ c.offered # None => HasCurrent(r) /\ Fits(c.offered, r.current)

(* What CURRENT names is there until FINISHED is; before, at most the      *)
(* beginning of an installation.                                           *)
GensOK(r, g) ==
    /\ ~ HasCurrent(r) => DOMAIN g \subseteq {0}
    /\ HasCurrent(r) /\ ~ Done(r) =>
           /\ r.current.generation \in DOMAIN g
           /\ g[r.current.generation] = Generation(r.current, r.current.manifest, TRUE)

(* What FINISHED stands for is there, all of it; it is bound only when it  *)
(* is registered, and until then it verifies.                              *)
ReadyOK(r, y) ==
    Done(r) =>
        /\ y = [work |-> y.work, rows |-> r.finished.manifest, whole |-> TRUE,
                sealed |-> y.sealed, bound |-> y.bound, changed |-> y.changed]
        /\ y.work \in {None, r.finished}
OwnerOK(r, y, o) ==
    /\ Done(r) => (y.bound => o) /\ (y.bound \/ Sealed(y))
    /\ o => Done(r)

(* RESTORE-WORK goes from the product only when no root may come back that *)
(* does not know it to be finished.                                        *)
Unmarked(y) == y # None /\ y.work = None
Marked(rs, ys) ==
    (\E r \in rs : Done(r)) /\ (\E y \in ys : Unmarked(y)) => \A r \in rs : Done(r)

Good(c, rs, gs, ys, os) ==
    /\ os \subseteq BOOLEAN
    /\ \A r \in rs : RootOK(c, r)
    /\ \A r \in rs, g \in gs : GensOK(r, g)
    /\ \A r \in rs, y \in ys : ReadyOK(r, y)
    /\ \A r \in rs, y \in ys, o \in os : OwnerOK(r, y, o)
    /\ Marked(rs, ys)

(* A world is what the areas hold now (`at`) and what a power failure may  *)
(* leave in them (`may`), as far as the operations of a call tell.         *)
World(r, rs, g, gs, y, ys, o, os) ==
    [at  |-> [root |-> r, gens |-> g, ready |-> y, owner |-> o],
     may |-> [root |-> rs, gens |-> gs, ready |-> ys, owner |-> os]]
Exec(p, s) ==
    [at  |-> [a \in Areas |-> IF a = s.area /\ s.op = "write" THEN s.to ELSE p.at[a]],
     may |-> [a \in Areas |-> IF a # s.area THEN p.may[a]
                              ELSE IF s.op = "write" THEN p.may[a] \cup s.to ELSE p.at[a]]]
Fine(c, p) ==
    /\ \A a \in Areas : p.at[a] \subseteq p.may[a]
    /\ Good(c, p.may.root, p.may.gens, p.may.ready, p.may.owner)

(* A builder may go on from here, whichever of these worlds it is.         *)
Restful(p) ==
    \E r \in p.may.root :
        /\ p.may.root = {r} /\ HasCurrent(r)
        /\ ~ Done(r) => \A g \in p.at.gens : DOMAIN g \subseteq 0 .. r.current.generation
Resting(c, p) == c.kind \in {"finish", "import"} \/ Restful(p)

(* The operations S lead from the world p to the world q: each may be made *)
(* in its turn, where its failure is passed over a builder may go on; calm *)
(* says that it may everywhere.                                            *)
IsStep(s) ==
    /\ s = [op |-> s.op, area |-> s.area, to |-> s.to, lenient |-> s.lenient]
    /\ s.op \in {"write", "sync"} /\ s.area \in Areas
Way(f, calm, c, p, S, q) ==
    /\ S \in Seq({S[k] : k \in DOMAIN S})
    /\ f[0] = p /\ f[Len(S)] = q
    /\ \A k \in 0 .. Len(S) : Fine(c, f[k]) /\ (calm => Resting(c, f[k]))
    /\ \A k \in 1 .. Len(S) : /\ IsStep(S[k])
                              /\ f[k] = Exec(f[k - 1], S[k])
                              /\ S[k].lenient => Resting(c, f[k - 1])
Leads(calm, c, p, S, q) == \E f : Way(f, calm, c, p, S, q)

-----------------------------------------------------------------------------
(* Lists of operations.                                                    *)
LEMMA LeadsNowhere ==
    ASSUME NEW calm, NEW c, NEW p, Fine(c, p), calm => Resting(c, p)
    PROVE  Leads(calm, c, p, <<>>, p)
<1> DEFINE S == <<>>
           f == [k \in {0} |-> p]
<1>1. S \in Seq({S[k] : k \in DOMAIN S}) /\ Len(S) = 0
  OBVIOUS
<1>2. f[0] = p /\ 0 .. 0 = {0} /\ 1 .. 0 = {}
  OBVIOUS
<1> HIDE DEF S, f
<1>3. Way(f, calm, c, p, S, p)
  BY <1>1, <1>2 DEF Way
<1> QED
  BY <1>3 DEF Leads, S

(* An operation that is possible leads to what it makes.                   *)
LEMMA LeadsOne ==
    ASSUME NEW calm, NEW c, NEW p, NEW s, NEW q, IsStep(s), Fine(c, p), Fine(c, q),
           q = Exec(p, s), s.lenient => Resting(c, p),
           calm => Resting(c, p) /\ Resting(c, q)
    PROVE  Leads(calm, c, p, <<s>>, q)
<1> DEFINE S == <<s>>
           f == [k \in 0 .. 1 |-> IF k = 0 THEN p ELSE q]
<1>1. S \in Seq({S[k] : k \in DOMAIN S}) /\ Len(S) = 1 /\ S[1] = s
  <2>1. DOMAIN S = {1} /\ S[1] = s /\ Len(S) = 1
    OBVIOUS
  <2>2. {S[k] : k \in DOMAIN S} = {s}
    BY <2>1
  <2> QED
    BY <2>1, <2>2
<1>2. /\ f[0] = p /\ f[1] = q /\ 1 .. 1 = {1} /\ 1 - 1 = 0
      /\ \A k \in 0 .. 1 : k = 0 \/ k = 1
  OBVIOUS
<1> HIDE DEF S, f
<1>3. Way(f, calm, c, p, S, q)
  BY <1>1, <1>2 DEF Way
<1> QED
  BY <1>3 DEF Leads, S

(* Two lists, one after the other.                                         *)
LEMMA LeadsJoin ==
    ASSUME NEW calm, NEW c, NEW p, NEW S, NEW q, NEW T, NEW r,
           Leads(calm, c, p, S, q), Leads(calm, c, q, T, r)
    PROVE  Leads(calm, c, p, S \o T, r)
<1>1. PICK f : Way(f, calm, c, p, S, q)
  BY DEF Leads
<1>2. PICK g : Way(g, calm, c, q, T, r)
  BY DEF Leads
<1> DEFINE A == {S[k] : k \in DOMAIN S}
           B == {T[k] : k \in DOMAIN T}
           m == Len(S)
           n == Len(T)
           R == S \o T
           h == [k \in 0 .. m + n |-> IF k <= m THEN f[k] ELSE g[k - m]]
<1>3. S \in Seq(A) /\ T \in Seq(B)
  BY <1>1, <1>2 DEF Way
<1>4. S \in Seq(A \cup B) /\ T \in Seq(A \cup B)
  BY <1>3
<1>5. /\ m \in Nat /\ n \in Nat /\ R \in Seq(A \cup B) /\ Len(R) = m + n
      /\ \A k \in 1 .. m : R[k] = S[k]
      /\ \A k \in 1 .. n : R[m + k] = T[k]
  <2> HIDE DEF A, B
  <2> QED
    BY <1>4
<1> HIDE DEF A, B, R, m, n
<1>6. R \in Seq({R[k] : k \in DOMAIN R})
  <2> DEFINE C == {R[k] : k \in DOMAIN R}
  <2>1. DOMAIN R = 1 .. m + n /\ \A k \in 1 .. m + n : R[k] \in C
    BY <1>5
  <2> HIDE DEF C
  <2> QED
    BY <1>5, <2>1
<1>7. /\ \A k \in 0 .. m : k \in 0 .. m + n /\ h[k] = f[k]
      /\ \A k \in 1 .. n : m + k \in 0 .. m + n /\ h[m + k] = g[k]
  BY <1>5
<1>8. f[m] = q /\ g[0] = q /\ f[0] = p /\ g[n] = r
  BY <1>1, <1>2 DEF Way, m, n
<1>9. \A k \in 0 .. n : m + k \in 0 .. m + n /\ h[m + k] = g[k]
  BY <1>5, <1>7, <1>8
<1> HIDE DEF h
<1>10. ASSUME NEW k \in 0 .. m + n
       PROVE  (\E i \in 0 .. m : k = i) \/ (\E i \in 1 .. n : k = m + i)
  <2>1. CASE k <= m
    BY <2>1, <1>5
  <2>2. CASE k > m
    <3>1. k - m \in 1 .. n /\ k = m + (k - m)
      BY <2>2, <1>5
    <3> QED
      BY <3>1
  <2> QED
    BY <2>1, <2>2, <1>5
<1>11. /\ \A k \in 0 .. m : Fine(c, f[k]) /\ (calm => Resting(c, f[k]))
       /\ \A k \in 0 .. n : Fine(c, g[k]) /\ (calm => Resting(c, g[k]))
  BY <1>1, <1>2 DEF Way, m, n
<1>12. \A k \in 0 .. m + n : Fine(c, h[k]) /\ (calm => Resting(c, h[k]))
  BY <1>5, <1>7, <1>9, <1>10, <1>11
<1>13. ASSUME NEW k \in 1 .. m + n
       PROVE  /\ IsStep(R[k]) /\ h[k] = Exec(h[k - 1], R[k])
              /\ R[k].lenient => Resting(c, h[k - 1])
  <2>1. CASE k \in 1 .. m
    <3>1. /\ IsStep(S[k]) /\ f[k] = Exec(f[k - 1], S[k])
          /\ S[k].lenient => Resting(c, f[k - 1])
      BY <1>1, <2>1 DEF Way, m
    <3>2. h[k] = f[k] /\ h[k - 1] = f[k - 1] /\ R[k] = S[k]
      BY <1>5, <1>7, <2>1
    <3> QED
      BY <3>1, <3>2
  <2>2. CASE k \notin 1 .. m
    <3>1. k - m \in 1 .. n
      BY <2>2, <1>5
    <3> DEFINE i == k - m
    <3>2. /\ IsStep(T[i]) /\ g[i] = Exec(g[i - 1], T[i])
          /\ T[i].lenient => Resting(c, g[i - 1])
      BY <1>2, <3>1 DEF Way, n
    <3>3. /\ i \in 0 .. n /\ i - 1 \in 0 .. n /\ m + i = k /\ m + (i - 1) = k - 1
          /\ i \in 1 .. n
      BY <1>5, <3>1
    <3> HIDE DEF i
    <3>4. h[k] = g[i] /\ h[k - 1] = g[i - 1] /\ R[k] = T[i]
      BY <1>5, <1>9, <3>3
    <3> QED
      BY <3>2, <3>4
  <2> QED
    BY <2>1, <2>2
<1>14. h[0] = p /\ h[m + n] = r
  BY <1>5, <1>7, <1>8, <1>9
<1>15. Way(h, calm, c, p, R, r)
  BY <1>5, <1>6, <1>12, <1>13, <1>14 DEF Way
<1> QED
  BY <1>15 DEF Leads, R

(* The rest of a list leads on from what its first operation makes.        *)
LEMMA LeadsOn ==
    ASSUME NEW c, NEW p, NEW S, NEW q, Leads(FALSE, c, p, S, q), S # <<>>
    PROVE  /\ IsStep(Head(S)) /\ Fine(c, Exec(p, Head(S)))
           /\ Head(S).lenient => Resting(c, p)
           /\ Leads(FALSE, c, Exec(p, Head(S)), Tail(S), q)
<1>1. PICK f : Way(f, FALSE, c, p, S, q)
  BY DEF Leads
<1> DEFINE A == {S[k] : k \in DOMAIN S}
           n == Len(S)
           T == Tail(S)
           h == [k \in 0 .. n - 1 |-> f[k + 1]]
<1>2. S \in Seq(A)
  BY <1>1 DEF Way
<1>3. /\ n \in Nat /\ n > 0 /\ Head(S) = S[1] /\ T \in Seq(A) /\ Len(T) = n - 1
      /\ \A k \in 1 .. n - 1 : T[k] = S[k + 1]
  <2> HIDE DEF A
  <2> QED
    BY <1>2
<1> HIDE DEF A, n, T
<1>4. T \in Seq({T[k] : k \in DOMAIN T})
  <2> DEFINE C == {T[k] : k \in DOMAIN T}
  <2>1. DOMAIN T = 1 .. n - 1 /\ \A k \in 1 .. n - 1 : T[k] \in C
    BY <1>3
  <2> HIDE DEF C
  <2> QED
    BY <1>3, <2>1
<1>5. /\ IsStep(S[1]) /\ f[1] = Exec(p, S[1]) /\ Fine(c, f[1])
      /\ S[1].lenient => Resting(c, p)
  <2>1. 1 \in 1 .. n /\ 1 \in 0 .. n /\ 1 - 1 = 0
    BY <1>3
  <2> QED
    BY <2>1, <1>1 DEF Way, n
<1>6. \A k \in 0 .. n - 1 : h[k] = f[k + 1] /\ k + 1 \in 0 .. n
  BY <1>3
<1>7. /\ \A k \in 0 .. n : Fine(c, f[k])
      /\ f[n] = q
  BY <1>1 DEF Way, n
<1> HIDE DEF h
<1>8. ASSUME NEW k \in 1 .. n - 1
      PROVE  /\ IsStep(T[k]) /\ h[k] = Exec(h[k - 1], T[k])
             /\ T[k].lenient => Resting(c, h[k - 1])
  <2>1. /\ k + 1 \in 1 .. n /\ k \in 0 .. n - 1 /\ k - 1 \in 0 .. n - 1
        /\ (k + 1) - 1 = k /\ (k - 1) + 1 = k
    BY <1>3
  <2>2. /\ IsStep(S[k + 1]) /\ f[k + 1] = Exec(f[k], S[k + 1])
        /\ S[k + 1].lenient => Resting(c, f[k])
    BY <2>1, <1>1 DEF Way, n
  <2>3. h[k] = f[k + 1] /\ h[k - 1] = f[k] /\ T[k] = S[k + 1]
    BY <2>1, <1>3, <1>6
  <2> QED
    BY <2>2, <2>3
<1>9. h[0] = f[1] /\ h[n - 1] = q /\ \A k \in 0 .. n - 1 : Fine(c, h[k])
  BY <1>3, <1>6, <1>7
<1>10. Way(h, FALSE, c, f[1], T, q)
  BY <1>3, <1>4, <1>8, <1>9 DEF Way
<1> QED
  BY <1>3, <1>5, <1>10 DEF Leads, T

(* Where a list leads from, and where it leads, is good.                   *)
LEMMA LeadsFine ==
    ASSUME NEW calm, NEW c, NEW p, NEW S, NEW q, Leads(calm, c, p, S, q)
    PROVE  Fine(c, p) /\ Fine(c, q)
<1>1. PICK f : Way(f, calm, c, p, S, q)
  BY DEF Leads
<1>2. Len(S) \in Nat
  BY <1>1 DEF Way
<1>3. 0 \in 0 .. Len(S) /\ Len(S) \in 0 .. Len(S)
  BY <1>2
<1> QED
  BY <1>1, <1>2, <1>3 DEF Way

(* What a list leads to is good.                                           *)
LEMMA LeadsEnd ==
    ASSUME NEW calm, NEW c, NEW p, NEW q, Leads(calm, c, p, <<>>, q)
    PROVE  p = q
<1>1. PICK f : Way(f, calm, c, p, <<>>, q)
  BY DEF Leads
<1>2. Len(<<>>) = 0
  OBVIOUS
<1> QED
  BY <1>1, <1>2 DEF Way

(* A calm list may also be run by a call that forgives failures.           *)
LEMMA LeadsLeniently ==
    ASSUME NEW c, NEW p, NEW S, NEW q, Leads(TRUE, c, p, S, q)
    PROVE  Leads(FALSE, c, p, Leniently(S), q)
<1>1. PICK f : Way(f, TRUE, c, p, S, q)
  BY DEF Leads
<1> DEFINE A == {S[k] : k \in DOMAIN S}
           n == Len(S)
           T == Leniently(S)
<1>2. S \in Seq(A)
  BY <1>1 DEF Way
<1>3. n \in Nat /\ DOMAIN S = 1 .. n
  <2> HIDE DEF A
  <2> QED
    BY <1>2
<1>4. T = [i \in 1 .. n |-> [S[i] EXCEPT !.lenient = TRUE]]
  BY <1>3 DEF Leniently
<1> HIDE DEF A, n, T
<1>5. T \in Seq({T[k] : k \in DOMAIN T}) /\ Len(T) = n
  <2> DEFINE C == {T[k] : k \in DOMAIN T}
  <2>1. DOMAIN T = 1 .. n /\ \A k \in 1 .. n : T[k] \in C
    BY <1>4
  <2>2. T = [k \in 1 .. n |-> T[k]]
    BY <1>4
  <2> HIDE DEF C
  <2> QED
    BY <1>3, <2>1, <2>2
<1>6. ASSUME NEW k \in 1 .. n
      PROVE  /\ IsStep(T[k]) /\ f[k] = Exec(f[k - 1], T[k])
             /\ T[k].lenient => Resting(c, f[k - 1])
  <2> DEFINE s == S[k]
             t == T[k]
  <2>1. IsStep(s) /\ f[k] = Exec(f[k - 1], s)
    BY <1>1 DEF Way, n
  <2>2. t = [s EXCEPT !.lenient = TRUE]
    BY <1>4
  <2> HIDE DEF s, t
  <2>3. t = [op |-> s.op, area |-> s.area, to |-> s.to, lenient |-> TRUE]
    BY <2>1, <2>2 DEF IsStep
  <2>4. IsStep(t) /\ t.op = s.op /\ t.area = s.area /\ t.to = s.to
    BY <2>1, <2>3 DEF IsStep
  <2>5. Exec(f[k - 1], t) = Exec(f[k - 1], s)
    BY <2>4 DEF Exec
  <2>6. k - 1 \in 0 .. n
    BY <1>3
  <2>7. Resting(c, f[k - 1])
    BY <2>6, <1>1 DEF Way, n
  <2> QED
    BY <2>1, <2>4, <2>5, <2>7 DEF t
<1>7. /\ f[0] = p /\ f[n] = q
      /\ \A k \in 0 .. n : Fine(c, f[k])
  BY <1>1 DEF Way, n
<1>8. Way(f, FALSE, c, p, T, q)
  BY <1>5, <1>6, <1>7 DEF Way
<1> QED
  BY <1>8 DEF Leads, T

-----------------------------------------------------------------------------
(* One operation.                                                          *)
OnAreas(f) == f = [a \in Areas |-> f[a]]

(* A record of the four areas.                                             *)
LEMMA AreasAre ==
    ASSUME NEW f, OnAreas(f)
    PROVE  f = [root |-> f["root"], gens |-> f["gens"], ready |-> f["ready"], owner |-> f["owner"]]
BY DEF OnAreas, Areas

(* What an operation makes of each area: a write, then a sync.             *)
LEMMA RootExecWrite ==
    ASSUME NEW r, NEW rs, NEW g, NEW gs, NEW y, NEW ys, NEW o, NEW os, NEW v, NEW w, w = rs \cup v
    PROVE  Exec(World(r, rs, g, gs, y, ys, o, os), Write("root", v))
               = World(v, w, g, gs, y, ys, o, os)
<1> DEFINE p == World(r, rs, g, gs, y, ys, o, os)
           s == Write("root", v)
           fa == [a \in Areas |-> IF a = s.area /\ s.op = "write" THEN s.to ELSE p.at[a]]
           fm == [a \in Areas |-> IF a # s.area THEN p.may[a]
                                   ELSE IF s.op = "write" THEN p.may[a] \cup s.to ELSE p.at[a]]
<1>1. s.area = "root" /\ s.op = "write" /\ s.to = v
  BY DEF Write
<1>2. /\ p.at["root"] = r /\ p.at["gens"] = g /\ p.at["ready"] = y /\ p.at["owner"] = o
      /\ p.may["root"] = rs /\ p.may["gens"] = gs /\ p.may["ready"] = ys /\ p.may["owner"] = os
  BY DEF World
<1> HIDE DEF p, s
<1>3. /\ OnAreas(fa)
      /\ fa["root"] = v /\ fa["gens"] = g /\ fa["ready"] = y /\ fa["owner"] = o
  BY <1>1, <1>2 DEF Areas, OnAreas
<1>4. /\ OnAreas(fm)
      /\ fm["root"] = w /\ fm["gens"] = gs /\ fm["ready"] = ys /\ fm["owner"] = os
  BY <1>1, <1>2 DEF Areas, OnAreas
<1>5. Exec(p, s) = [at |-> fa, may |-> fm]
  BY DEF Exec
<1> HIDE DEF fa, fm
<1>6. fa = [root |-> v, gens |-> g, ready |-> y, owner |-> o]
  BY <1>3, AreasAre
<1>7. fm = [root |-> w, gens |-> gs, ready |-> ys, owner |-> os]
  BY <1>4, AreasAre
<1> QED
  BY <1>5, <1>6, <1>7 DEF World, p, s

LEMMA GensExecWrite ==
    ASSUME NEW r, NEW rs, NEW g, NEW gs, NEW y, NEW ys, NEW o, NEW os, NEW v, NEW w, w = gs \cup v
    PROVE  Exec(World(r, rs, g, gs, y, ys, o, os), Write("gens", v))
               = World(r, rs, v, w, y, ys, o, os)
<1> DEFINE p == World(r, rs, g, gs, y, ys, o, os)
           s == Write("gens", v)
           fa == [a \in Areas |-> IF a = s.area /\ s.op = "write" THEN s.to ELSE p.at[a]]
           fm == [a \in Areas |-> IF a # s.area THEN p.may[a]
                                   ELSE IF s.op = "write" THEN p.may[a] \cup s.to ELSE p.at[a]]
<1>1. s.area = "gens" /\ s.op = "write" /\ s.to = v
  BY DEF Write
<1>2. /\ p.at["root"] = r /\ p.at["gens"] = g /\ p.at["ready"] = y /\ p.at["owner"] = o
      /\ p.may["root"] = rs /\ p.may["gens"] = gs /\ p.may["ready"] = ys /\ p.may["owner"] = os
  BY DEF World
<1> HIDE DEF p, s
<1>3. /\ OnAreas(fa)
      /\ fa["root"] = r /\ fa["gens"] = v /\ fa["ready"] = y /\ fa["owner"] = o
  BY <1>1, <1>2 DEF Areas, OnAreas
<1>4. /\ OnAreas(fm)
      /\ fm["root"] = rs /\ fm["gens"] = w /\ fm["ready"] = ys /\ fm["owner"] = os
  BY <1>1, <1>2 DEF Areas, OnAreas
<1>5. Exec(p, s) = [at |-> fa, may |-> fm]
  BY DEF Exec
<1> HIDE DEF fa, fm
<1>6. fa = [root |-> r, gens |-> v, ready |-> y, owner |-> o]
  BY <1>3, AreasAre
<1>7. fm = [root |-> rs, gens |-> w, ready |-> ys, owner |-> os]
  BY <1>4, AreasAre
<1> QED
  BY <1>5, <1>6, <1>7 DEF World, p, s

LEMMA ReadyExecWrite ==
    ASSUME NEW r, NEW rs, NEW g, NEW gs, NEW y, NEW ys, NEW o, NEW os, NEW v, NEW w, w = ys \cup v
    PROVE  Exec(World(r, rs, g, gs, y, ys, o, os), Write("ready", v))
               = World(r, rs, g, gs, v, w, o, os)
<1> DEFINE p == World(r, rs, g, gs, y, ys, o, os)
           s == Write("ready", v)
           fa == [a \in Areas |-> IF a = s.area /\ s.op = "write" THEN s.to ELSE p.at[a]]
           fm == [a \in Areas |-> IF a # s.area THEN p.may[a]
                                   ELSE IF s.op = "write" THEN p.may[a] \cup s.to ELSE p.at[a]]
<1>1. s.area = "ready" /\ s.op = "write" /\ s.to = v
  BY DEF Write
<1>2. /\ p.at["root"] = r /\ p.at["gens"] = g /\ p.at["ready"] = y /\ p.at["owner"] = o
      /\ p.may["root"] = rs /\ p.may["gens"] = gs /\ p.may["ready"] = ys /\ p.may["owner"] = os
  BY DEF World
<1> HIDE DEF p, s
<1>3. /\ OnAreas(fa)
      /\ fa["root"] = r /\ fa["gens"] = g /\ fa["ready"] = v /\ fa["owner"] = o
  BY <1>1, <1>2 DEF Areas, OnAreas
<1>4. /\ OnAreas(fm)
      /\ fm["root"] = rs /\ fm["gens"] = gs /\ fm["ready"] = w /\ fm["owner"] = os
  BY <1>1, <1>2 DEF Areas, OnAreas
<1>5. Exec(p, s) = [at |-> fa, may |-> fm]
  BY DEF Exec
<1> HIDE DEF fa, fm
<1>6. fa = [root |-> r, gens |-> g, ready |-> v, owner |-> o]
  BY <1>3, AreasAre
<1>7. fm = [root |-> rs, gens |-> gs, ready |-> w, owner |-> os]
  BY <1>4, AreasAre
<1> QED
  BY <1>5, <1>6, <1>7 DEF World, p, s

LEMMA OwnerExecWrite ==
    ASSUME NEW r, NEW rs, NEW g, NEW gs, NEW y, NEW ys, NEW o, NEW os, NEW v, NEW w, w = os \cup v
    PROVE  Exec(World(r, rs, g, gs, y, ys, o, os), Write("owner", v))
               = World(r, rs, g, gs, y, ys, v, w)
<1> DEFINE p == World(r, rs, g, gs, y, ys, o, os)
           s == Write("owner", v)
           fa == [a \in Areas |-> IF a = s.area /\ s.op = "write" THEN s.to ELSE p.at[a]]
           fm == [a \in Areas |-> IF a # s.area THEN p.may[a]
                                   ELSE IF s.op = "write" THEN p.may[a] \cup s.to ELSE p.at[a]]
<1>1. s.area = "owner" /\ s.op = "write" /\ s.to = v
  BY DEF Write
<1>2. /\ p.at["root"] = r /\ p.at["gens"] = g /\ p.at["ready"] = y /\ p.at["owner"] = o
      /\ p.may["root"] = rs /\ p.may["gens"] = gs /\ p.may["ready"] = ys /\ p.may["owner"] = os
  BY DEF World
<1> HIDE DEF p, s
<1>3. /\ OnAreas(fa)
      /\ fa["root"] = r /\ fa["gens"] = g /\ fa["ready"] = y /\ fa["owner"] = v
  BY <1>1, <1>2 DEF Areas, OnAreas
<1>4. /\ OnAreas(fm)
      /\ fm["root"] = rs /\ fm["gens"] = gs /\ fm["ready"] = ys /\ fm["owner"] = w
  BY <1>1, <1>2 DEF Areas, OnAreas
<1>5. Exec(p, s) = [at |-> fa, may |-> fm]
  BY DEF Exec
<1> HIDE DEF fa, fm
<1>6. fa = [root |-> r, gens |-> g, ready |-> y, owner |-> v]
  BY <1>3, AreasAre
<1>7. fm = [root |-> rs, gens |-> gs, ready |-> ys, owner |-> w]
  BY <1>4, AreasAre
<1> QED
  BY <1>5, <1>6, <1>7 DEF World, p, s

LEMMA RootExecSync ==
    ASSUME NEW r, NEW rs, NEW g, NEW gs, NEW y, NEW ys, NEW o, NEW os
    PROVE  Exec(World(r, rs, g, gs, y, ys, o, os), Sync("root"))
               = World(r, r, g, gs, y, ys, o, os)
<1> DEFINE p == World(r, rs, g, gs, y, ys, o, os)
           s == Sync("root")
           fa == [a \in Areas |-> IF a = s.area /\ s.op = "write" THEN s.to ELSE p.at[a]]
           fm == [a \in Areas |-> IF a # s.area THEN p.may[a]
                                   ELSE IF s.op = "write" THEN p.may[a] \cup s.to ELSE p.at[a]]
<1>1. s.area = "root" /\ s.op = "sync"
  BY DEF Sync
<1>2. /\ p.at["root"] = r /\ p.at["gens"] = g /\ p.at["ready"] = y /\ p.at["owner"] = o
      /\ p.may["root"] = rs /\ p.may["gens"] = gs /\ p.may["ready"] = ys /\ p.may["owner"] = os
  BY DEF World
<1> HIDE DEF p, s
<1>3. /\ OnAreas(fa)
      /\ fa["root"] = r /\ fa["gens"] = g /\ fa["ready"] = y /\ fa["owner"] = o
  BY <1>1, <1>2 DEF Areas, OnAreas
<1>4. /\ OnAreas(fm)
      /\ fm["root"] = r /\ fm["gens"] = gs /\ fm["ready"] = ys /\ fm["owner"] = os
  BY <1>1, <1>2 DEF Areas, OnAreas
<1>5. Exec(p, s) = [at |-> fa, may |-> fm]
  BY DEF Exec
<1> HIDE DEF fa, fm
<1>6. fa = [root |-> r, gens |-> g, ready |-> y, owner |-> o]
  BY <1>3, AreasAre
<1>7. fm = [root |-> r, gens |-> gs, ready |-> ys, owner |-> os]
  BY <1>4, AreasAre
<1> QED
  BY <1>5, <1>6, <1>7 DEF World, p, s

LEMMA GensExecSync ==
    ASSUME NEW r, NEW rs, NEW g, NEW gs, NEW y, NEW ys, NEW o, NEW os
    PROVE  Exec(World(r, rs, g, gs, y, ys, o, os), Sync("gens"))
               = World(r, rs, g, g, y, ys, o, os)
<1> DEFINE p == World(r, rs, g, gs, y, ys, o, os)
           s == Sync("gens")
           fa == [a \in Areas |-> IF a = s.area /\ s.op = "write" THEN s.to ELSE p.at[a]]
           fm == [a \in Areas |-> IF a # s.area THEN p.may[a]
                                   ELSE IF s.op = "write" THEN p.may[a] \cup s.to ELSE p.at[a]]
<1>1. s.area = "gens" /\ s.op = "sync"
  BY DEF Sync
<1>2. /\ p.at["root"] = r /\ p.at["gens"] = g /\ p.at["ready"] = y /\ p.at["owner"] = o
      /\ p.may["root"] = rs /\ p.may["gens"] = gs /\ p.may["ready"] = ys /\ p.may["owner"] = os
  BY DEF World
<1> HIDE DEF p, s
<1>3. /\ OnAreas(fa)
      /\ fa["root"] = r /\ fa["gens"] = g /\ fa["ready"] = y /\ fa["owner"] = o
  BY <1>1, <1>2 DEF Areas, OnAreas
<1>4. /\ OnAreas(fm)
      /\ fm["root"] = rs /\ fm["gens"] = g /\ fm["ready"] = ys /\ fm["owner"] = os
  BY <1>1, <1>2 DEF Areas, OnAreas
<1>5. Exec(p, s) = [at |-> fa, may |-> fm]
  BY DEF Exec
<1> HIDE DEF fa, fm
<1>6. fa = [root |-> r, gens |-> g, ready |-> y, owner |-> o]
  BY <1>3, AreasAre
<1>7. fm = [root |-> rs, gens |-> g, ready |-> ys, owner |-> os]
  BY <1>4, AreasAre
<1> QED
  BY <1>5, <1>6, <1>7 DEF World, p, s

LEMMA ReadyExecSync ==
    ASSUME NEW r, NEW rs, NEW g, NEW gs, NEW y, NEW ys, NEW o, NEW os
    PROVE  Exec(World(r, rs, g, gs, y, ys, o, os), Sync("ready"))
               = World(r, rs, g, gs, y, y, o, os)
<1> DEFINE p == World(r, rs, g, gs, y, ys, o, os)
           s == Sync("ready")
           fa == [a \in Areas |-> IF a = s.area /\ s.op = "write" THEN s.to ELSE p.at[a]]
           fm == [a \in Areas |-> IF a # s.area THEN p.may[a]
                                   ELSE IF s.op = "write" THEN p.may[a] \cup s.to ELSE p.at[a]]
<1>1. s.area = "ready" /\ s.op = "sync"
  BY DEF Sync
<1>2. /\ p.at["root"] = r /\ p.at["gens"] = g /\ p.at["ready"] = y /\ p.at["owner"] = o
      /\ p.may["root"] = rs /\ p.may["gens"] = gs /\ p.may["ready"] = ys /\ p.may["owner"] = os
  BY DEF World
<1> HIDE DEF p, s
<1>3. /\ OnAreas(fa)
      /\ fa["root"] = r /\ fa["gens"] = g /\ fa["ready"] = y /\ fa["owner"] = o
  BY <1>1, <1>2 DEF Areas, OnAreas
<1>4. /\ OnAreas(fm)
      /\ fm["root"] = rs /\ fm["gens"] = gs /\ fm["ready"] = y /\ fm["owner"] = os
  BY <1>1, <1>2 DEF Areas, OnAreas
<1>5. Exec(p, s) = [at |-> fa, may |-> fm]
  BY DEF Exec
<1> HIDE DEF fa, fm
<1>6. fa = [root |-> r, gens |-> g, ready |-> y, owner |-> o]
  BY <1>3, AreasAre
<1>7. fm = [root |-> rs, gens |-> gs, ready |-> y, owner |-> os]
  BY <1>4, AreasAre
<1> QED
  BY <1>5, <1>6, <1>7 DEF World, p, s

LEMMA OwnerExecSync ==
    ASSUME NEW r, NEW rs, NEW g, NEW gs, NEW y, NEW ys, NEW o, NEW os
    PROVE  Exec(World(r, rs, g, gs, y, ys, o, os), Sync("owner"))
               = World(r, rs, g, gs, y, ys, o, o)
<1> DEFINE p == World(r, rs, g, gs, y, ys, o, os)
           s == Sync("owner")
           fa == [a \in Areas |-> IF a = s.area /\ s.op = "write" THEN s.to ELSE p.at[a]]
           fm == [a \in Areas |-> IF a # s.area THEN p.may[a]
                                   ELSE IF s.op = "write" THEN p.may[a] \cup s.to ELSE p.at[a]]
<1>1. s.area = "owner" /\ s.op = "sync"
  BY DEF Sync
<1>2. /\ p.at["root"] = r /\ p.at["gens"] = g /\ p.at["ready"] = y /\ p.at["owner"] = o
      /\ p.may["root"] = rs /\ p.may["gens"] = gs /\ p.may["ready"] = ys /\ p.may["owner"] = os
  BY DEF World
<1> HIDE DEF p, s
<1>3. /\ OnAreas(fa)
      /\ fa["root"] = r /\ fa["gens"] = g /\ fa["ready"] = y /\ fa["owner"] = o
  BY <1>1, <1>2 DEF Areas, OnAreas
<1>4. /\ OnAreas(fm)
      /\ fm["root"] = rs /\ fm["gens"] = gs /\ fm["ready"] = ys /\ fm["owner"] = o
  BY <1>1, <1>2 DEF Areas, OnAreas
<1>5. Exec(p, s) = [at |-> fa, may |-> fm]
  BY DEF Exec
<1> HIDE DEF fa, fm
<1>6. fa = [root |-> r, gens |-> g, ready |-> y, owner |-> o]
  BY <1>3, AreasAre
<1>7. fm = [root |-> rs, gens |-> gs, ready |-> ys, owner |-> o]
  BY <1>4, AreasAre
<1> QED
  BY <1>5, <1>6, <1>7 DEF World, p, s

(* A world is good if the product of its four sets is.                     *)
LEMMA WorldFine ==
    ASSUME NEW c,
           NEW r, NEW rs, NEW g, NEW gs, NEW y, NEW ys, NEW o, NEW os
    PROVE  /\ Fine(c, World(r, rs, g, gs, y, ys, o, os)) <=>
                  /\ r \subseteq rs /\ g \subseteq gs /\ y \subseteq ys /\ o \subseteq os
                  /\ Good(c, rs, gs, ys, os)
           /\ \A x : rs = {x} =>
                  (Restful(World(r, rs, g, gs, y, ys, o, os)) <=>
                       /\ HasCurrent(x)
                       /\ ~ Done(x) => \A k \in g : DOMAIN k \subseteq 0 .. x.current.generation)
<1> DEFINE p == World(r, rs, g, gs, y, ys, o, os)
<1>1. /\ p.may.root = rs /\ p.may.gens = gs /\ p.may.ready = ys /\ p.may.owner = os
      /\ p.at.gens = g
      /\ p.at["root"] = r /\ p.at["gens"] = g /\ p.at["ready"] = y /\ p.at["owner"] = o
      /\ p.may["root"] = rs /\ p.may["gens"] = gs /\ p.may["ready"] = ys /\ p.may["owner"] = os
  BY DEF World
<1> HIDE DEF p
<1>2. Fine(c, p) <=> /\ r \subseteq rs /\ g \subseteq gs /\ y \subseteq ys /\ o \subseteq os
                     /\ Good(c, rs, gs, ys, os)
  BY <1>1 DEF Fine, Areas
<1>3. ASSUME NEW x, rs = {x}
      PROVE  Restful(p) <=> /\ HasCurrent(x)
                            /\ ~ Done(x) => \A k \in g : DOMAIN k \subseteq 0 .. x.current.generation
  BY <1>1, <1>3 DEF Restful
<1> QED
  BY <1>2, <1>3 DEF p

(* What is good stays good when some of it can no longer come back.        *)
LEMMA GoodLess ==
    ASSUME NEW c, NEW rs, NEW gs, NEW ys, NEW os, Good(c, rs, gs, ys, os),
           NEW rt \in SUBSET rs, NEW gt \in SUBSET gs, NEW yt \in SUBSET ys, NEW ot \in SUBSET os
    PROVE  Good(c, rt, gt, yt, ot)
<1>1. Marked(rt, yt)
  BY DEF Good, Marked
<1> QED
  BY <1>1 DEF Good

(* One write or sync, as a list.                                           *)
LEMMA WriteRoot ==
    ASSUME NEW calm, NEW c,
           NEW r, NEW rs, NEW g, NEW gs, NEW y, NEW ys, NEW o, NEW os, NEW x, NEW w, w = rs \cup {x},
           Fine(c, World(r, rs, g, gs, y, ys, o, os)),
           calm => Resting(c, World(r, rs, g, gs, y, ys, o, os))
                   /\ Resting(c, World({x}, w, g, gs, y, ys, o, os)),
           RootOK(c, x), \A k \in gs : GensOK(x, k), \A k \in ys : ReadyOK(x, k),
           \A k \in ys, b \in os : OwnerOK(x, k, b), Marked(w, ys)
    PROVE  Leads(calm, c, World(r, rs, g, gs, y, ys, o, os), <<Put("root", x)>>,
                 World({x}, w, g, gs, y, ys, o, os))
<1> DEFINE p == World(r, rs, g, gs, y, ys, o, os)
           q == World({x}, w, g, gs, y, ys, o, os)
           s == Write("root", {x})
<1>1. q = Exec(p, s)
  BY RootExecWrite
<1>2. IsStep(s) /\ s.lenient = FALSE
  BY DEF IsStep, Write, Areas
<1>3. /\ r \subseteq rs /\ g \subseteq gs /\ y \subseteq ys /\ o \subseteq os
      /\ Good(c, rs, gs, ys, os)
  BY WorldFine
<1>4. Good(c, w, gs, ys, os)
  BY <1>3 DEF Good
<1>5. Fine(c, q)
  <2>1. {x} \subseteq w
    OBVIOUS
  <2> QED
    BY <1>3, <1>4, <2>1, WorldFine
<1>6. Fine(c, p) /\ (calm => Resting(c, p) /\ Resting(c, q))
  OBVIOUS
<1> HIDE DEF p, q, s
<1>7. Leads(calm, c, p, <<s>>, q)
  BY <1>1, <1>2, <1>5, <1>6, LeadsOne
<1> QED
  BY <1>7 DEF p, q, s, Put

LEMMA WriteGens ==
    ASSUME NEW calm, NEW c,
           NEW r, NEW rs, NEW g, NEW gs, NEW y, NEW ys, NEW o, NEW os, NEW v, NEW w, w = gs \cup v,
           Fine(c, World(r, rs, g, gs, y, ys, o, os)),
           calm => Resting(c, World(r, rs, g, gs, y, ys, o, os))
                   /\ Resting(c, World(r, rs, v, w, y, ys, o, os)),
           \A x \in rs, k \in v : GensOK(x, k)
    PROVE  Leads(calm, c, World(r, rs, g, gs, y, ys, o, os), <<Write("gens", v)>>,
                 World(r, rs, v, w, y, ys, o, os))
<1> DEFINE p == World(r, rs, g, gs, y, ys, o, os)
           q == World(r, rs, v, w, y, ys, o, os)
           s == Write("gens", v)
<1>1. q = Exec(p, s)
  BY GensExecWrite
<1>2. IsStep(s) /\ s.lenient = FALSE
  BY DEF IsStep, Write, Areas
<1>3. /\ r \subseteq rs /\ g \subseteq gs /\ y \subseteq ys /\ o \subseteq os
      /\ Good(c, rs, gs, ys, os)
  BY WorldFine
<1>4. Good(c, rs, w, ys, os)
  BY <1>3 DEF Good
<1>5. Fine(c, q)
  <2>1. v \subseteq w
    OBVIOUS
  <2> QED
    BY <1>3, <1>4, <2>1, WorldFine
<1>6. Fine(c, p) /\ (calm => Resting(c, p) /\ Resting(c, q))
  OBVIOUS
<1> HIDE DEF p, q, s
<1>7. Leads(calm, c, p, <<s>>, q)
  BY <1>1, <1>2, <1>5, <1>6, LeadsOne
<1> QED
  BY <1>7 DEF p, q, s

LEMMA WriteReady ==
    ASSUME NEW calm, NEW c,
           NEW r, NEW rs, NEW g, NEW gs, NEW y, NEW ys, NEW o, NEW os, NEW v, NEW w, w = ys \cup v,
           Fine(c, World(r, rs, g, gs, y, ys, o, os)),
           calm => Resting(c, World(r, rs, g, gs, y, ys, o, os))
                   /\ Resting(c, World(r, rs, g, gs, v, w, o, os)),
           \A x \in rs, k \in v : ReadyOK(x, k),
           \A x \in rs, k \in v, b \in os : OwnerOK(x, k, b), Marked(rs, w)
    PROVE  Leads(calm, c, World(r, rs, g, gs, y, ys, o, os), <<Write("ready", v)>>,
                 World(r, rs, g, gs, v, w, o, os))
<1> DEFINE p == World(r, rs, g, gs, y, ys, o, os)
           q == World(r, rs, g, gs, v, w, o, os)
           s == Write("ready", v)
<1>1. q = Exec(p, s)
  BY ReadyExecWrite
<1>2. IsStep(s) /\ s.lenient = FALSE
  BY DEF IsStep, Write, Areas
<1>3. /\ r \subseteq rs /\ g \subseteq gs /\ y \subseteq ys /\ o \subseteq os
      /\ Good(c, rs, gs, ys, os)
  BY WorldFine
<1>4. Good(c, rs, gs, w, os)
  BY <1>3 DEF Good
<1>5. Fine(c, q)
  <2>1. v \subseteq w
    OBVIOUS
  <2> QED
    BY <1>3, <1>4, <2>1, WorldFine
<1>6. Fine(c, p) /\ (calm => Resting(c, p) /\ Resting(c, q))
  OBVIOUS
<1> HIDE DEF p, q, s
<1>7. Leads(calm, c, p, <<s>>, q)
  BY <1>1, <1>2, <1>5, <1>6, LeadsOne
<1> QED
  BY <1>7 DEF p, q, s

LEMMA WriteOwner ==
    ASSUME NEW calm, NEW c,
           NEW r, NEW rs, NEW g, NEW gs, NEW y, NEW ys, NEW o, NEW os, NEW b \in BOOLEAN, NEW w, w = os \cup {b},
           Fine(c, World(r, rs, g, gs, y, ys, o, os)),
           calm => Resting(c, World(r, rs, g, gs, y, ys, o, os))
                   /\ Resting(c, World(r, rs, g, gs, y, ys, {b}, w)),
           \A x \in rs, k \in ys : OwnerOK(x, k, b)
    PROVE  Leads(calm, c, World(r, rs, g, gs, y, ys, o, os), <<Put("owner", b)>>,
                 World(r, rs, g, gs, y, ys, {b}, w))
<1> DEFINE p == World(r, rs, g, gs, y, ys, o, os)
           q == World(r, rs, g, gs, y, ys, {b}, w)
           s == Write("owner", {b})
<1>1. q = Exec(p, s)
  BY OwnerExecWrite
<1>2. IsStep(s) /\ s.lenient = FALSE
  BY DEF IsStep, Write, Areas
<1>3. /\ r \subseteq rs /\ g \subseteq gs /\ y \subseteq ys /\ o \subseteq os
      /\ Good(c, rs, gs, ys, os)
  BY WorldFine
<1>4. Good(c, rs, gs, ys, w)
  BY <1>3 DEF Good
<1>5. Fine(c, q)
  <2>1. {b} \subseteq w
    OBVIOUS
  <2> QED
    BY <1>3, <1>4, <2>1, WorldFine
<1>6. Fine(c, p) /\ (calm => Resting(c, p) /\ Resting(c, q))
  OBVIOUS
<1> HIDE DEF p, q, s
<1>7. Leads(calm, c, p, <<s>>, q)
  BY <1>1, <1>2, <1>5, <1>6, LeadsOne
<1> QED
  BY <1>7 DEF p, q, s, Put

LEMMA SyncRoot ==
    ASSUME NEW calm, NEW c,
           NEW r, NEW rs, NEW g, NEW gs, NEW y, NEW ys, NEW o, NEW os,
           Fine(c, World(r, rs, g, gs, y, ys, o, os)),
           calm => Resting(c, World(r, rs, g, gs, y, ys, o, os))
                   /\ Resting(c, World(r, r, g, gs, y, ys, o, os))
    PROVE  Leads(calm, c, World(r, rs, g, gs, y, ys, o, os), <<Sync("root")>>,
                 World(r, r, g, gs, y, ys, o, os))
<1> DEFINE p == World(r, rs, g, gs, y, ys, o, os)
           q == World(r, r, g, gs, y, ys, o, os)
           s == Sync("root")
<1>1. q = Exec(p, s)
  BY RootExecSync
<1>2. IsStep(s) /\ s.lenient = FALSE
  BY DEF IsStep, Sync, Areas
<1>3. /\ r \subseteq rs /\ g \subseteq gs /\ y \subseteq ys /\ o \subseteq os
      /\ Good(c, rs, gs, ys, os)
  BY WorldFine
<1>4. Good(c, r, gs, ys, os)
  BY <1>3, GoodLess
<1>5. Fine(c, q)
  <2>1. r \subseteq r
    OBVIOUS
  <2> QED
    BY <1>3, <1>4, <2>1, WorldFine
<1>6. Fine(c, p) /\ (calm => Resting(c, p) /\ Resting(c, q))
  OBVIOUS
<1> HIDE DEF p, q, s
<1>7. Leads(calm, c, p, <<s>>, q)
  BY <1>1, <1>2, <1>5, <1>6, LeadsOne
<1> QED
  BY <1>7 DEF p, q, s

LEMMA SyncGens ==
    ASSUME NEW calm, NEW c,
           NEW r, NEW rs, NEW g, NEW gs, NEW y, NEW ys, NEW o, NEW os,
           Fine(c, World(r, rs, g, gs, y, ys, o, os)),
           calm => Resting(c, World(r, rs, g, gs, y, ys, o, os))
                   /\ Resting(c, World(r, rs, g, g, y, ys, o, os))
    PROVE  Leads(calm, c, World(r, rs, g, gs, y, ys, o, os), <<Sync("gens")>>,
                 World(r, rs, g, g, y, ys, o, os))
<1> DEFINE p == World(r, rs, g, gs, y, ys, o, os)
           q == World(r, rs, g, g, y, ys, o, os)
           s == Sync("gens")
<1>1. q = Exec(p, s)
  BY GensExecSync
<1>2. IsStep(s) /\ s.lenient = FALSE
  BY DEF IsStep, Sync, Areas
<1>3. /\ r \subseteq rs /\ g \subseteq gs /\ y \subseteq ys /\ o \subseteq os
      /\ Good(c, rs, gs, ys, os)
  BY WorldFine
<1>4. Good(c, rs, g, ys, os)
  BY <1>3, GoodLess
<1>5. Fine(c, q)
  <2>1. g \subseteq g
    OBVIOUS
  <2> QED
    BY <1>3, <1>4, <2>1, WorldFine
<1>6. Fine(c, p) /\ (calm => Resting(c, p) /\ Resting(c, q))
  OBVIOUS
<1> HIDE DEF p, q, s
<1>7. Leads(calm, c, p, <<s>>, q)
  BY <1>1, <1>2, <1>5, <1>6, LeadsOne
<1> QED
  BY <1>7 DEF p, q, s

LEMMA SyncReady ==
    ASSUME NEW calm, NEW c,
           NEW r, NEW rs, NEW g, NEW gs, NEW y, NEW ys, NEW o, NEW os,
           Fine(c, World(r, rs, g, gs, y, ys, o, os)),
           calm => Resting(c, World(r, rs, g, gs, y, ys, o, os))
                   /\ Resting(c, World(r, rs, g, gs, y, y, o, os))
    PROVE  Leads(calm, c, World(r, rs, g, gs, y, ys, o, os), <<Sync("ready")>>,
                 World(r, rs, g, gs, y, y, o, os))
<1> DEFINE p == World(r, rs, g, gs, y, ys, o, os)
           q == World(r, rs, g, gs, y, y, o, os)
           s == Sync("ready")
<1>1. q = Exec(p, s)
  BY ReadyExecSync
<1>2. IsStep(s) /\ s.lenient = FALSE
  BY DEF IsStep, Sync, Areas
<1>3. /\ r \subseteq rs /\ g \subseteq gs /\ y \subseteq ys /\ o \subseteq os
      /\ Good(c, rs, gs, ys, os)
  BY WorldFine
<1>4. Good(c, rs, gs, y, os)
  BY <1>3, GoodLess
<1>5. Fine(c, q)
  <2>1. y \subseteq y
    OBVIOUS
  <2> QED
    BY <1>3, <1>4, <2>1, WorldFine
<1>6. Fine(c, p) /\ (calm => Resting(c, p) /\ Resting(c, q))
  OBVIOUS
<1> HIDE DEF p, q, s
<1>7. Leads(calm, c, p, <<s>>, q)
  BY <1>1, <1>2, <1>5, <1>6, LeadsOne
<1> QED
  BY <1>7 DEF p, q, s

LEMMA SyncOwner ==
    ASSUME NEW calm, NEW c,
           NEW r, NEW rs, NEW g, NEW gs, NEW y, NEW ys, NEW o, NEW os,
           Fine(c, World(r, rs, g, gs, y, ys, o, os)),
           calm => Resting(c, World(r, rs, g, gs, y, ys, o, os))
                   /\ Resting(c, World(r, rs, g, gs, y, ys, o, o))
    PROVE  Leads(calm, c, World(r, rs, g, gs, y, ys, o, os), <<Sync("owner")>>,
                 World(r, rs, g, gs, y, ys, o, o))
<1> DEFINE p == World(r, rs, g, gs, y, ys, o, os)
           q == World(r, rs, g, gs, y, ys, o, o)
           s == Sync("owner")
<1>1. q = Exec(p, s)
  BY OwnerExecSync
<1>2. IsStep(s) /\ s.lenient = FALSE
  BY DEF IsStep, Sync, Areas
<1>3. /\ r \subseteq rs /\ g \subseteq gs /\ y \subseteq ys /\ o \subseteq os
      /\ Good(c, rs, gs, ys, os)
  BY WorldFine
<1>4. Good(c, rs, gs, ys, o)
  BY <1>3, GoodLess
<1>5. Fine(c, q)
  <2>1. o \subseteq o
    OBVIOUS
  <2> QED
    BY <1>3, <1>4, <2>1, WorldFine
<1>6. Fine(c, p) /\ (calm => Resting(c, p) /\ Resting(c, q))
  OBVIOUS
<1> HIDE DEF p, q, s
<1>7. Leads(calm, c, p, <<s>>, q)
  BY <1>1, <1>2, <1>5, <1>6, LeadsOne
<1> QED
  BY <1>7 DEF p, q, s

(* Lists put together from single operations. *)
LEMMA After ==
    ASSUME NEW A, NEW a \in A, NEW R \in Seq(A)
    PROVE  /\ <<a>> \o R \in Seq(A) /\ Len(<<a>> \o R) = Len(R) + 1
           /\ (<<a>> \o R)[1] = a
           /\ \A i \in 1 .. Len(R) : (<<a>> \o R)[i + 1] = R[i]
OBVIOUS

(* A list of two to six as a chain of single ones.                         *)
LEMMA Cons2 ==
    ASSUME NEW a, NEW b
    PROVE  <<a>> \o <<b>> = <<a, b>>
<1> DEFINE A == {a, b}
           R == <<b>>
           S == <<a>> \o R
           T == <<a, b>>
<1>1. /\ a \in A /\ R \in Seq(A) /\ Len(R) = 1
      /\ R[1] = b
      /\ T \in Seq(A) /\ Len(T) = 2
      /\ T[1] = a /\ T[2] = b
  OBVIOUS
<1> HIDE DEF A, R, T
<1>2. /\ S \in Seq(A) /\ Len(S) = Len(R) + 1 /\ S[1] = a
      /\ \A i \in 1 .. Len(R) : S[i + 1] = R[i]
  <2>1. a \in A /\ R \in Seq(A)
    BY <1>1
  <2> QED
    BY <2>1, After
<1> HIDE DEF S
<1>3. S[1 + 1] = R[1]
  <2>1. S[1 + 1] = R[1]
    <3>1. 1 \in 1 .. Len(R)
      BY <1>1
    <3> QED
      BY <1>2, <3>1
  <2> QED
    BY <2>1
<1>4. \A i \in 1 .. 2 : i = 1 \/ i = 2
  OBVIOUS
<1>5. \A i \in 1 .. 2 : S[i] = T[i]
  BY <1>1, <1>2, <1>3, <1>4
<1>6. S = T
  BY <1>1, <1>2, <1>5, SeqEqual
<1> QED
  BY <1>6 DEF S, R, T

LEMMA Cons3 ==
    ASSUME NEW a, NEW b, NEW d
    PROVE  <<a>> \o <<b, d>> = <<a, b, d>>
<1> DEFINE A == {a, b, d}
           R == <<b, d>>
           S == <<a>> \o R
           T == <<a, b, d>>
<1>1. /\ a \in A /\ R \in Seq(A) /\ Len(R) = 2
      /\ R[1] = b /\ R[2] = d
      /\ T \in Seq(A) /\ Len(T) = 3
      /\ T[1] = a /\ T[2] = b /\ T[3] = d
  OBVIOUS
<1> HIDE DEF A, R, T
<1>2. /\ S \in Seq(A) /\ Len(S) = Len(R) + 1 /\ S[1] = a
      /\ \A i \in 1 .. Len(R) : S[i + 1] = R[i]
  <2>1. a \in A /\ R \in Seq(A)
    BY <1>1
  <2> QED
    BY <2>1, After
<1> HIDE DEF S
<1>3. S[1 + 1] = R[1] /\ S[2 + 1] = R[2]
  <2>1. S[1 + 1] = R[1]
    <3>1. 1 \in 1 .. Len(R)
      BY <1>1
    <3> QED
      BY <1>2, <3>1
  <2>2. S[2 + 1] = R[2]
    <3>1. 2 \in 1 .. Len(R)
      BY <1>1
    <3> QED
      BY <1>2, <3>1
  <2> QED
    BY <2>1, <2>2
<1>4. \A i \in 1 .. 3 : i = 1 \/ i = 2 \/ i = 3
  OBVIOUS
<1>5. \A i \in 1 .. 3 : S[i] = T[i]
  BY <1>1, <1>2, <1>3, <1>4
<1>6. S = T
  BY <1>1, <1>2, <1>5, SeqEqual
<1> QED
  BY <1>6 DEF S, R, T

LEMMA Cons4 ==
    ASSUME NEW a, NEW b, NEW d, NEW e
    PROVE  <<a>> \o <<b, d, e>> = <<a, b, d, e>>
<1> DEFINE A == {a, b, d, e}
           R == <<b, d, e>>
           S == <<a>> \o R
           T == <<a, b, d, e>>
<1>1. /\ a \in A /\ R \in Seq(A) /\ Len(R) = 3
      /\ R[1] = b /\ R[2] = d /\ R[3] = e
      /\ T \in Seq(A) /\ Len(T) = 4
      /\ T[1] = a /\ T[2] = b /\ T[3] = d /\ T[4] = e
  OBVIOUS
<1> HIDE DEF A, R, T
<1>2. /\ S \in Seq(A) /\ Len(S) = Len(R) + 1 /\ S[1] = a
      /\ \A i \in 1 .. Len(R) : S[i + 1] = R[i]
  <2>1. a \in A /\ R \in Seq(A)
    BY <1>1
  <2> QED
    BY <2>1, After
<1> HIDE DEF S
<1>3. S[1 + 1] = R[1] /\ S[2 + 1] = R[2] /\ S[3 + 1] = R[3]
  <2>1. S[1 + 1] = R[1]
    <3>1. 1 \in 1 .. Len(R)
      BY <1>1
    <3> QED
      BY <1>2, <3>1
  <2>2. S[2 + 1] = R[2]
    <3>1. 2 \in 1 .. Len(R)
      BY <1>1
    <3> QED
      BY <1>2, <3>1
  <2>3. S[3 + 1] = R[3]
    <3>1. 3 \in 1 .. Len(R)
      BY <1>1
    <3> QED
      BY <1>2, <3>1
  <2> QED
    BY <2>1, <2>2, <2>3
<1>4. \A i \in 1 .. 4 : i = 1 \/ i = 2 \/ i = 3 \/ i = 4
  OBVIOUS
<1>5. \A i \in 1 .. 4 : S[i] = T[i]
  BY <1>1, <1>2, <1>3, <1>4
<1>6. S = T
  BY <1>1, <1>2, <1>5, SeqEqual
<1> QED
  BY <1>6 DEF S, R, T

LEMMA Cons5 ==
    ASSUME NEW a, NEW b, NEW d, NEW e, NEW g
    PROVE  <<a>> \o <<b, d, e, g>> = <<a, b, d, e, g>>
<1> DEFINE A == {a, b, d, e, g}
           R == <<b, d, e, g>>
           S == <<a>> \o R
           T == <<a, b, d, e, g>>
<1>1. /\ a \in A /\ R \in Seq(A) /\ Len(R) = 4
      /\ R[1] = b /\ R[2] = d /\ R[3] = e /\ R[4] = g
      /\ T \in Seq(A) /\ Len(T) = 5
      /\ T[1] = a /\ T[2] = b /\ T[3] = d /\ T[4] = e /\ T[5] = g
  OBVIOUS
<1> HIDE DEF A, R, T
<1>2. /\ S \in Seq(A) /\ Len(S) = Len(R) + 1 /\ S[1] = a
      /\ \A i \in 1 .. Len(R) : S[i + 1] = R[i]
  <2>1. a \in A /\ R \in Seq(A)
    BY <1>1
  <2> QED
    BY <2>1, After
<1> HIDE DEF S
<1>3. S[1 + 1] = R[1] /\ S[2 + 1] = R[2] /\ S[3 + 1] = R[3] /\ S[4 + 1] = R[4]
  <2>1. S[1 + 1] = R[1]
    <3>1. 1 \in 1 .. Len(R)
      BY <1>1
    <3> QED
      BY <1>2, <3>1
  <2>2. S[2 + 1] = R[2]
    <3>1. 2 \in 1 .. Len(R)
      BY <1>1
    <3> QED
      BY <1>2, <3>1
  <2>3. S[3 + 1] = R[3]
    <3>1. 3 \in 1 .. Len(R)
      BY <1>1
    <3> QED
      BY <1>2, <3>1
  <2>4. S[4 + 1] = R[4]
    <3>1. 4 \in 1 .. Len(R)
      BY <1>1
    <3> QED
      BY <1>2, <3>1
  <2> QED
    BY <2>1, <2>2, <2>3, <2>4
<1>4. \A i \in 1 .. 5 : i = 1 \/ i = 2 \/ i = 3 \/ i = 4 \/ i = 5
  OBVIOUS
<1>5. \A i \in 1 .. 5 : S[i] = T[i]
  BY <1>1, <1>2, <1>3, <1>4
<1>6. S = T
  BY <1>1, <1>2, <1>5, SeqEqual
<1> QED
  BY <1>6 DEF S, R, T

LEMMA Cons6 ==
    ASSUME NEW a, NEW b, NEW d, NEW e, NEW g, NEW h
    PROVE  <<a>> \o <<b, d, e, g, h>> = <<a, b, d, e, g, h>>
<1> DEFINE A == {a, b, d, e, g, h}
           R == <<b, d, e, g, h>>
           S == <<a>> \o R
           T == <<a, b, d, e, g, h>>
<1>1. /\ a \in A /\ R \in Seq(A) /\ Len(R) = 5
      /\ R[1] = b /\ R[2] = d /\ R[3] = e /\ R[4] = g /\ R[5] = h
      /\ T \in Seq(A) /\ Len(T) = 6
      /\ T[1] = a /\ T[2] = b /\ T[3] = d /\ T[4] = e /\ T[5] = g /\ T[6] = h
  OBVIOUS
<1> HIDE DEF A, R, T
<1>2. /\ S \in Seq(A) /\ Len(S) = Len(R) + 1 /\ S[1] = a
      /\ \A i \in 1 .. Len(R) : S[i + 1] = R[i]
  <2>1. a \in A /\ R \in Seq(A)
    BY <1>1
  <2> QED
    BY <2>1, After
<1> HIDE DEF S
<1>3. S[1 + 1] = R[1] /\ S[2 + 1] = R[2] /\ S[3 + 1] = R[3] /\ S[4 + 1] = R[4] /\ S[5 + 1] = R[5]
  <2>1. S[1 + 1] = R[1]
    <3>1. 1 \in 1 .. Len(R)
      BY <1>1
    <3> QED
      BY <1>2, <3>1
  <2>2. S[2 + 1] = R[2]
    <3>1. 2 \in 1 .. Len(R)
      BY <1>1
    <3> QED
      BY <1>2, <3>1
  <2>3. S[3 + 1] = R[3]
    <3>1. 3 \in 1 .. Len(R)
      BY <1>1
    <3> QED
      BY <1>2, <3>1
  <2>4. S[4 + 1] = R[4]
    <3>1. 4 \in 1 .. Len(R)
      BY <1>1
    <3> QED
      BY <1>2, <3>1
  <2>5. S[5 + 1] = R[5]
    <3>1. 5 \in 1 .. Len(R)
      BY <1>1
    <3> QED
      BY <1>2, <3>1
  <2> QED
    BY <2>1, <2>2, <2>3, <2>4, <2>5
<1>4. \A i \in 1 .. 6 : i = 1 \/ i = 2 \/ i = 3 \/ i = 4 \/ i = 5 \/ i = 6
  OBVIOUS
<1>5. \A i \in 1 .. 6 : S[i] = T[i]
  BY <1>1, <1>2, <1>3, <1>4
<1>6. S = T
  BY <1>1, <1>2, <1>5, SeqEqual
<1> QED
  BY <1>6 DEF S, R, T

(* Lists of two to six operations lead where each leads on.                *)
LEMMA TwoSteps ==
    ASSUME NEW calm, NEW c, NEW p, NEW a, NEW q, NEW b, NEW r,
           Leads(calm, c, p, <<a>>, q), Leads(calm, c, q, <<b>>, r)
    PROVE  Leads(calm, c, p, <<a, b>>, r)
<1>1. Leads(calm, c, p, <<a>> \o <<b>>, r)
  BY LeadsJoin
<1> QED
  BY <1>1, Cons2

LEMMA ThreeSteps ==
    ASSUME NEW calm, NEW c, NEW p, NEW a, NEW q, NEW b, NEW r, NEW d, NEW s,
           Leads(calm, c, p, <<a>>, q), Leads(calm, c, q, <<b>>, r), Leads(calm, c, r, <<d>>, s)
    PROVE  Leads(calm, c, p, <<a, b, d>>, s)
<1>1. Leads(calm, c, q, <<b, d>>, s)
  BY TwoSteps
<1>2. Leads(calm, c, p, <<a>> \o <<b, d>>, s)
  BY <1>1, LeadsJoin
<1> QED
  BY <1>2, Cons3

LEMMA FourSteps ==
    ASSUME NEW calm, NEW c, NEW p, NEW a, NEW q, NEW b, NEW r, NEW d, NEW s, NEW e, NEW t,
           Leads(calm, c, p, <<a>>, q), Leads(calm, c, q, <<b>>, r), Leads(calm, c, r, <<d>>, s),
           Leads(calm, c, s, <<e>>, t)
    PROVE  Leads(calm, c, p, <<a, b, d, e>>, t)
<1>1. Leads(calm, c, q, <<b, d, e>>, t)
  BY ThreeSteps
<1>2. Leads(calm, c, p, <<a>> \o <<b, d, e>>, t)
  BY <1>1, LeadsJoin
<1> QED
  BY <1>2, Cons4

LEMMA SixSteps ==
    ASSUME NEW calm, NEW c, NEW p, NEW a, NEW q, NEW b, NEW r, NEW d, NEW s, NEW e, NEW t,
           NEW g, NEW u, NEW h, NEW v,
           Leads(calm, c, p, <<a>>, q), Leads(calm, c, q, <<b>>, r), Leads(calm, c, r, <<d>>, s),
           Leads(calm, c, s, <<e>>, t), Leads(calm, c, t, <<g>>, u), Leads(calm, c, u, <<h>>, v)
    PROVE  Leads(calm, c, p, <<a, b, d, e, g, h>>, v)
<1>1. Leads(calm, c, r, <<d, e, g, h>>, v)
  BY FourSteps
<1>2. Leads(calm, c, q, <<b>> \o <<d, e, g, h>>, v)
  BY <1>1, LeadsJoin
<1>3. Leads(calm, c, q, <<b, d, e, g, h>>, v)
  BY <1>2, Cons5
<1>4. Leads(calm, c, p, <<a>> \o <<b, d, e, g, h>>, v)
  BY <1>3, LeadsJoin
<1> QED
  BY <1>4, Cons6

(* Five lists, one after the other.                                        *)
LEMMA FiveCalls ==
    ASSUME NEW calm, NEW c, NEW p, NEW A, NEW q, NEW B, NEW r, NEW C, NEW s, NEW E, NEW t, NEW F,
           NEW u,
           Leads(calm, c, p, A, q), Leads(calm, c, q, B, r), Leads(calm, c, r, C, s),
           Leads(calm, c, s, E, t), Leads(calm, c, t, F, u)
    PROVE  Leads(calm, c, p, A \o B \o C \o E \o F, u)
<1> DEFINE AB == A \o B
           ABC == AB \o C
           ABCE == ABC \o E
           All == ABCE \o F
<1>1. Leads(calm, c, p, AB, r)
  BY LeadsJoin
<1> HIDE DEF AB
<1>2. Leads(calm, c, p, ABC, s)
  BY <1>1, LeadsJoin
<1> HIDE DEF ABC
<1>3. Leads(calm, c, p, ABCE, t)
  BY <1>2, LeadsJoin
<1> HIDE DEF ABCE
<1>4. Leads(calm, c, p, All, u)
  BY <1>3, LeadsJoin
<1> QED
  BY <1>4 DEF AB, ABC, ABCE

(* publish is a write and a sync.                                          *)
LEMMA PublishRoot ==
    ASSUME NEW c,
           NEW r, NEW rs, NEW g, NEW gs, NEW y, NEW ys, NEW o, NEW os, NEW x, NEW v,
           v = {x},
           Fine(c, World(r, rs, g, gs, y, ys, o, os)),
           RootOK(c, x), \A k \in gs : GensOK(x, k), \A k \in ys : ReadyOK(x, k),
           \A k \in ys, b \in os : OwnerOK(x, k, b), Marked(rs \cup v, ys)
    PROVE  /\ Leads(FALSE, c, World(r, rs, g, gs, y, ys, o, os), Publish("root", x),
                    World(v, v, g, gs, y, ys, o, os))
           /\ Fine(c, World(v, v, g, gs, y, ys, o, os))
<1> DEFINE w == rs \cup v
<1>1. w = rs \cup v /\ Marked(w, ys)
  OBVIOUS
<1> HIDE DEF w
<1>2. Leads(FALSE, c, World(r, rs, g, gs, y, ys, o, os), <<Put("root", x)>>,
            World(v, w, g, gs, y, ys, o, os))
  BY <1>1, WriteRoot
<1>3. Fine(c, World(v, w, g, gs, y, ys, o, os))
  BY <1>2, LeadsFine
<1>4. Leads(FALSE, c, World(v, w, g, gs, y, ys, o, os), <<Sync("root")>>,
            World(v, v, g, gs, y, ys, o, os))
  BY <1>3, SyncRoot
<1>5. Leads(FALSE, c, World(r, rs, g, gs, y, ys, o, os), <<Put("root", x), Sync("root")>>,
            World(v, v, g, gs, y, ys, o, os))
  BY <1>2, <1>4, TwoSteps
<1> QED
  BY <1>4, <1>5, LeadsFine DEF Publish

LEMMA PublishReady ==
    ASSUME NEW c,
           NEW r, NEW rs, NEW g, NEW gs, NEW y, NEW ys, NEW o, NEW os, NEW x, NEW v,
           v = {x},
           Fine(c, World(r, rs, g, gs, y, ys, o, os)),
           \A k \in rs : ReadyOK(k, x), \A k \in rs, b \in os : OwnerOK(k, x, b),
           Marked(rs, ys \cup v)
    PROVE  /\ Leads(FALSE, c, World(r, rs, g, gs, y, ys, o, os), Publish("ready", x),
                    World(r, rs, g, gs, v, v, o, os))
           /\ Fine(c, World(r, rs, g, gs, v, v, o, os))
<1> DEFINE w == ys \cup v
<1>1. /\ \A k \in rs, i \in v : ReadyOK(k, i)
      /\ \A k \in rs, i \in v, b \in os : OwnerOK(k, i, b)
      /\ w = ys \cup v /\ Marked(rs, w)
  OBVIOUS
<1> HIDE DEF w
<1>2. Leads(FALSE, c, World(r, rs, g, gs, y, ys, o, os), <<Write("ready", v)>>,
            World(r, rs, g, gs, v, w, o, os))
  BY <1>1, WriteReady
<1>3. Fine(c, World(r, rs, g, gs, v, w, o, os))
  BY <1>2, LeadsFine
<1>4. Leads(FALSE, c, World(r, rs, g, gs, v, w, o, os), <<Sync("ready")>>,
            World(r, rs, g, gs, v, v, o, os))
  BY <1>3, SyncReady
<1>5. Leads(FALSE, c, World(r, rs, g, gs, y, ys, o, os), <<Write("ready", v), Sync("ready")>>,
            World(r, rs, g, gs, v, v, o, os))
  BY <1>2, <1>4, TwoSteps
<1> QED
  BY <1>4, <1>5, LeadsFine DEF Publish, Put

LEMMA PublishOwner ==
    ASSUME NEW c,
           NEW r, NEW rs, NEW g, NEW gs, NEW y, NEW ys, NEW o, NEW os, NEW v, v = {TRUE},
           Fine(c, World(r, rs, g, gs, y, ys, o, os)),
           \A k \in rs, i \in ys : OwnerOK(k, i, TRUE)
    PROVE  /\ Leads(FALSE, c, World(r, rs, g, gs, y, ys, o, os), Publish("owner", TRUE),
                    World(r, rs, g, gs, y, ys, v, v))
           /\ Fine(c, World(r, rs, g, gs, y, ys, v, v))
<1> DEFINE w == os \cup v
           b == TRUE
<1>1. /\ w = os \cup v /\ v = {b} /\ b \in BOOLEAN
      /\ \A k \in rs, i \in ys : OwnerOK(k, i, b)
  OBVIOUS
<1> HIDE DEF w, b
<1>2. Leads(FALSE, c, World(r, rs, g, gs, y, ys, o, os), <<Put("owner", b)>>,
            World(r, rs, g, gs, y, ys, v, w))
  BY <1>1, WriteOwner
<1>3. Fine(c, World(r, rs, g, gs, y, ys, v, w))
  BY <1>2, LeadsFine
<1>4. Leads(FALSE, c, World(r, rs, g, gs, y, ys, v, w), <<Sync("owner")>>,
            World(r, rs, g, gs, y, ys, v, v))
  BY <1>3, SyncOwner
<1>5. Leads(FALSE, c, World(r, rs, g, gs, y, ys, o, os), <<Put("owner", b), Sync("owner")>>,
            World(r, rs, g, gs, y, ys, v, v))
  BY <1>2, <1>4, TwoSteps
<1> QED
  BY <1>4, <1>5, LeadsFine DEF Publish, b

(* put is a write.                                                         *)
LEMMA PutGens ==
    ASSUME NEW calm, NEW c,
           NEW r, NEW rs, NEW g, NEW gs, NEW y, NEW ys, NEW o, NEW os, NEW k, NEW v, NEW w,
           v = {k}, w = gs \cup v,
           Fine(c, World(r, rs, g, gs, y, ys, o, os)),
           calm => Resting(c, World(r, rs, g, gs, y, ys, o, os))
                   /\ Resting(c, World(r, rs, v, w, y, ys, o, os)),
           \A x \in rs : GensOK(x, k)
    PROVE  /\ Leads(calm, c, World(r, rs, g, gs, y, ys, o, os), <<Put("gens", k)>>,
                    World(r, rs, v, w, y, ys, o, os))
           /\ Fine(c, World(r, rs, v, w, y, ys, o, os))
<1>1. \A x \in rs, i \in v : GensOK(x, i)
  OBVIOUS
<1>2. Leads(calm, c, World(r, rs, g, gs, y, ys, o, os), <<Write("gens", v)>>,
            World(r, rs, v, w, y, ys, o, os))
  BY <1>1, WriteGens
<1> QED
  BY <1>2, LeadsFine DEF Put

LEMMA PutReady ==
    ASSUME NEW c, NEW r, NEW rs, NEW g, NEW gs, NEW y, NEW ys, NEW o, NEW os, NEW k,
           NEW v, NEW w, v = {k}, w = ys \cup v,
           Fine(c, World(r, rs, g, gs, y, ys, o, os)),
           \A x \in rs : ReadyOK(x, k), \A x \in rs, b \in os : OwnerOK(x, k, b),
           Marked(rs, w)
    PROVE  /\ Leads(FALSE, c, World(r, rs, g, gs, y, ys, o, os), <<Put("ready", k)>>,
                    World(r, rs, g, gs, v, w, o, os))
           /\ Fine(c, World(r, rs, g, gs, v, w, o, os))
<1>1. /\ \A x \in rs, i \in v : ReadyOK(x, i)
      /\ \A x \in rs, i \in v, b \in os : OwnerOK(x, i, b)
  OBVIOUS
<1>2. Leads(FALSE, c, World(r, rs, g, gs, y, ys, o, os), <<Write("ready", v)>>,
            World(r, rs, g, gs, v, w, o, os))
  BY <1>1, WriteReady
<1> QED
  BY <1>2, LeadsFine DEF Put

-----------------------------------------------------------------------------
(* What the areas are now.                                                 *)
Here == World({disk.root}, settled.root, {disk.gens}, settled.gens,
              {disk.ready}, settled.ready, {disk.owner}, settled.owner)
GoodNow(c) ==
    /\ disk.root \in settled.root /\ disk.gens \in settled.gens
    /\ disk.ready \in settled.ready /\ disk.owner \in settled.owner
    /\ Good(c, settled.root, settled.gens, settled.ready, settled.owner)

(* What is there is one of the choices.                                    *)
LEMMA HereFine ==
    ASSUME NEW c, GoodNow(c)
    PROVE  /\ Fine(c, Here)
           /\ RootOK(c, disk.root) /\ GensOK(disk.root, disk.gens)
           /\ ReadyOK(disk.root, disk.ready) /\ OwnerOK(disk.root, disk.ready, disk.owner)
           /\ disk.owner \in BOOLEAN
<1>1. /\ {disk.root} \subseteq settled.root /\ {disk.gens} \subseteq settled.gens
      /\ {disk.ready} \subseteq settled.ready /\ {disk.owner} \subseteq settled.owner
      /\ Good(c, settled.root, settled.gens, settled.ready, settled.owner)
  BY DEF GoodNow
<1>2. Fine(c, Here)
  BY <1>1, WorldFine DEF Here
<1> QED
  BY <1>2 DEF GoodNow, Good

(* Nones and records.                                                      *)
LEMMA Shapes ==
    /\ \A m, k, f : [marker |-> m, current |-> k, finished |-> f] # None
    /\ \A g, k, p, m : State(g, k, p, m) # None
    /\ \A w, r, b, s : Product(w, r, b, s) # None
    /\ Blank # None
<1>1. ASSUME NEW m, NEW k, NEW f
      PROVE  [marker |-> m, current |-> k, finished |-> f] # None
  BY DEF None
<1>2. ASSUME NEW g, NEW k, NEW p, NEW m
      PROVE  State(g, k, p, m) # None
  BY DEF None, State
<1>3. ASSUME NEW w, NEW r, NEW b, NEW s
      PROVE  Product(w, r, b, s) # None
  BY DEF None, Product
<1>4. Blank # None
  BY DEF None, Blank
<1> QED
  BY <1>1, <1>2, <1>3, <1>4

(* Generations put there, taken away and torn.                             *)
LEMMA Withs ==
    ASSUME NEW f, NEW x, NEW v
    PROVE  /\ DOMAIN With(f, x, v) = DOMAIN f \cup {x} /\ With(f, x, v)[x] = v
           /\ \A k \in DOMAIN f : k # x => With(f, x, v)[k] = f[k]
BY DEF With

LEMMA Restricts ==
    ASSUME NEW f, NEW S
    PROVE  DOMAIN Restrict(f, S) = S /\ \A k \in S : Restrict(f, S)[k] = f[k]
BY DEF Restrict

(* k is f, but for its value at x.                                         *)
Patched(k, f, x) ==
    DOMAIN k = DOMAIN f \cup {x} /\ \A i \in DOMAIN f : i # x => k[i] = f[i]

LEMMA Torns ==
    ASSUME NEW f, NEW S, NEW k \in TornIn(f, S)
    PROVE  \E x \in S : Patched(k, f, x)
<1>1. PICK x \in S : k \in {With(f, x, t) : t \in Torn(f[x])}
  BY DEF TornIn
<1>2. PICK t : k = With(f, x, t)
  BY <1>1
<1>3. k = [i \in DOMAIN f \cup {x} |-> IF i = x THEN t ELSE f[i]]
  BY <1>2 DEF With
<1>4. Patched(k, f, x)
  BY <1>3 DEF Patched
<1> QED
  BY <1>4

(* As long as there is no FINISHED, nobody owns the product.               *)
LEMMA Unfinished ==
    ASSUME NEW c, NEW rs, NEW gs, NEW ys, NEW os, Good(c, rs, gs, ys, os),
           NEW d \in rs, ~ Done(d), NEW i \in ys
    PROVE  /\ \A b \in os : b = FALSE
           /\ \A x : ~ Done(x) => /\ \A k : ReadyOK(x, k)
                                  /\ \A k : \A b \in os : OwnerOK(x, k, b)
           /\ \A x : ~ Done(x) => Marked(rs \cup {x}, ys)
<1>1. \A b \in os : b = FALSE
  BY DEF Good, OwnerOK
<1>2. ASSUME NEW x, ~ Done(x)
      PROVE  /\ \A k : ReadyOK(x, k)
             /\ \A k : \A b \in os : OwnerOK(x, k, b)
  BY <1>1, <1>2 DEF ReadyOK, OwnerOK
<1>3. ASSUME NEW x, ~ Done(x)
      PROVE  Marked(rs \cup {x}, ys)
  BY <1>3 DEF Good, Marked
<1> QED
  BY <1>1, <1>2, <1>3

(* If FINISHED is in no root that may come back, or in all, RESTORE-WORK   *)
(* may be there or not.                                                    *)
LEMMA NoneMarked ==
    ASSUME NEW rs, \A r \in rs : ~ Done(r)
    PROVE  \A zs : Marked(rs, zs)
BY DEF Marked

LEMMA AllMarked ==
    ASSUME NEW rs, \A r \in rs : Done(r)
    PROVE  \A zs : Marked(rs, zs)
BY DEF Marked

(* A root without CURRENT: an installation that has not come to its end.   *)
Unborn(c, x) ==
    /\ RootOK(c, x) /\ ~ HasCurrent(x) /\ ~ Done(x)
    /\ c.offered = None /\ ~ (c.acked > 0)

(* Before CURRENT, any beginning of an installation will do.               *)
LEMMA UnbornGens ==
    ASSUME NEW c, NEW x, Unborn(c, x), NEW k
    PROVE  GensOK(x, k) <=> DOMAIN k \subseteq {0}
BY DEF Unborn, GensOK

MarkedRoot == [marker |-> TRUE, current |-> None, finished |-> None]
FirstRoot == [marker |-> TRUE, current |-> InitialState, finished |-> None]

(* The roots an installation goes through.                                 *)
LEMMA InstallRoots ==
    ASSUME NEW c, GoodNow(c), disk.root # None => disk.root.marker /\ disk.root.current = None,
           NEW root, root = IF disk.root = None THEN NoRoot ELSE disk.root
    PROVE  /\ Unborn(c, disk.root) /\ Unborn(c, root) /\ Unborn(c, MarkedRoot)
           /\ root.marker => root = MarkedRoot
           /\ [root EXCEPT !.marker = TRUE] = MarkedRoot
           /\ [MarkedRoot EXCEPT !.current = InitialState] = FirstRoot
           /\ RootOK(c, FirstRoot) /\ HasCurrent(FirstRoot) /\ ~ Done(FirstRoot)
           /\ FirstRoot.current = InitialState
<1>1. RootOK(c, disk.root)
  BY HereFine
<1>2. ~ HasCurrent(disk.root) /\ ~ Done(disk.root)
  BY <1>1 DEF HasCurrent, Done, RootOK
<1>3. Unborn(c, disk.root)
  BY <1>1, <1>2 DEF Unborn, RootOK
<1>4. root = [marker |-> root.marker, current |-> None, finished |-> None] /\ root.marker \in BOOLEAN
  <2>1. CASE disk.root = None
    BY <2>1 DEF NoRoot
  <2>2. CASE disk.root # None
    BY <1>1, <2>2 DEF RootOK
  <2> QED
    BY <2>1, <2>2
<1>5. [root EXCEPT !.marker = TRUE] = MarkedRoot
  <2> DEFINE t == TRUE
             n == None
  <2> HIDE DEF t, n
  <2>1. PICK m : root = [marker |-> m, current |-> n, finished |-> n]
    BY <1>4 DEF n
  <2>2. [root EXCEPT !.marker = t] = [marker |-> t, current |-> n, finished |-> n]
    BY <2>1
  <2> QED
    BY <2>2 DEF MarkedRoot, t, n
<1>6. [MarkedRoot EXCEPT !.current = InitialState] = FirstRoot
  <2> DEFINE marked == MarkedRoot
             zero == InitialState
             t == TRUE
             n == None
  <2>1. marked = [marker |-> t, current |-> n, finished |-> n]
    BY DEF MarkedRoot
  <2> HIDE DEF marked, zero, t, n
  <2>2. [marked EXCEPT !.current = zero] = [marker |-> t, current |-> zero, finished |-> n]
    BY <2>1
  <2> QED
    BY <2>2 DEF marked, zero, t, n, FirstRoot
<1>7. c.offered = None /\ ~ (c.acked > 0)
  BY <1>3 DEF Unborn
<1>8. root # None /\ MarkedRoot # None /\ FirstRoot # None
  BY <1>4, Shapes DEF MarkedRoot, FirstRoot
<1>9. Unborn(c, root)
  BY <1>4, <1>7 DEF Unborn, RootOK, HasCurrent, Done
<1>10. Unborn(c, MarkedRoot)
  <2> DEFINE marked == MarkedRoot
  <2>1. marked = [marker |-> TRUE, current |-> None, finished |-> None]
    BY DEF MarkedRoot
  <2> HIDE DEF marked
  <2>2. Unborn(c, marked)
    BY <2>1, <1>7 DEF Unborn, RootOK, HasCurrent, Done
  <2> QED
    BY <2>2 DEF marked
<1>11. root.marker => root = MarkedRoot
  BY <1>4 DEF MarkedRoot
<1>12. InitialState # None /\ StateOK(InitialState)
  <2>1. InitialState = [generation |-> 0, cursor |-> BaseSeq, previous |-> BaseSeq,
                        manifest |-> Records(0, BaseSeq)]
    BY DEF InitialState, State, Base
  <2>2. BaseSeq \in Nat
    BY RestoreAssumption
  <2> QED
    BY <2>1, <2>2, Shapes DEF StateOK, State, InitialState
<1>13. RootOK(c, FirstRoot) /\ HasCurrent(FirstRoot) /\ ~ Done(FirstRoot) /\ FirstRoot.current = InitialState
  <2> DEFINE last == FirstRoot
  <2>1. last = [marker |-> TRUE, current |-> InitialState, finished |-> None] /\ last # None
    BY <1>8 DEF FirstRoot
  <2> HIDE DEF last
  <2>2. RootOK(c, last) /\ HasCurrent(last) /\ ~ Done(last) /\ last.current = InitialState
    BY <2>1, <1>7, <1>12 DEF RootOK, HasCurrent, Done
  <2> QED
    BY <2>2 DEF last
<1> QED
  BY <1>3, <1>5, <1>6, <1>9, <1>10, <1>11, <1>13

-----------------------------------------------------------------------------
(* The calls.                                                              *)
LEMMA InstallLeads ==
    ASSUME NEW c, GoodNow(c), disk.root # None => disk.root.marker /\ disk.root.current = None
    PROVE  \E q : Leads(FALSE, c, Here, InstallSteps, q) /\ Resting(c, q)
<1> DEFINE d == disk.root
           root == IF d = None THEN NoRoot ELSE d
           D == disk.gens
           rs == settled.root
           g == {D}
           gs == settled.gens
           y == {disk.ready}
           ys == settled.ready
           o == {disk.owner}
           os == settled.owner
           r1 == {root}
           rs1 == rs \cup r1
           r2 == {MarkedRoot}
           r3 == {FirstRoot}
<1>1. /\ Unborn(c, d) /\ Unborn(c, root) /\ Unborn(c, MarkedRoot)
      /\ root.marker => root = MarkedRoot
      /\ [root EXCEPT !.marker = TRUE] = MarkedRoot
      /\ [MarkedRoot EXCEPT !.current = InitialState] = FirstRoot
      /\ RootOK(c, FirstRoot) /\ HasCurrent(FirstRoot) /\ ~ Done(FirstRoot)
      /\ FirstRoot.current = InitialState
  BY InstallRoots
<1>2. /\ Fine(c, World({d}, rs, g, gs, y, ys, o, os)) /\ Good(c, rs, gs, ys, os)
      /\ d \in rs /\ disk.ready \in ys /\ D \in gs
      /\ Here = World({d}, rs, g, gs, y, ys, o, os)
  BY HereFine DEF Here, GoodNow
<1>3. InstallSteps =
          <<Put("root", root), Sync("root")>>
          \o (IF root.marker THEN <<>> ELSE Publish("root", MarkedRoot))
          \o (IF 0 \in DOMAIN D
              THEN <<Write("gens", TornIn(D, {0})), Put("gens", Without(D, 0))>> ELSE <<>>)
          \o <<Put("gens", With(D, 0, Generation(Blank, NoManifest, FALSE))),
               Put("gens", With(D, 0, Generation(Blank, Base, TRUE))),
               Put("gens", With(D, 0, Generation(InitialState, Base, TRUE))), Sync("gens")>>
          \o Publish("root", FirstRoot)
  BY <1>1 DEF InstallSteps
<1>4. ~ Done(d) /\ ~ Done(root) /\ ~ Done(MarkedRoot)
  BY <1>1 DEF Unborn
<1>5. /\ \A x : ~ Done(x) => /\ \A k : ReadyOK(x, k)
                             /\ \A k : \A b \in os : OwnerOK(x, k, b)
      /\ \A x : ~ Done(x) => Marked(rs \cup {x}, ys)
  <2> HIDE DEF d, root, rs, ys, gs, os
  <2> QED
    BY <1>2, <1>4, Unfinished
<1>6. \A k \in gs : DOMAIN k \subseteq {0}
  <2>1. \A k \in gs : GensOK(d, k)
    BY <1>2 DEF Good
  <2> QED
    BY <2>1, <1>1, UnbornGens
<1>7. r1 = {root} /\ r2 = {MarkedRoot} /\ r3 = {FirstRoot} /\ rs1 = rs \cup r1
  OBVIOUS
<1>8. DOMAIN D \subseteq {0}
  BY <1>2, <1>6
<1> HIDE DEF d, root, D, rs, g, gs, y, ys, o, os, r1, rs1, r2, r3
<1>9. /\ Leads(FALSE, c, World({d}, rs, g, gs, y, ys, o, os), <<Put("root", root), Sync("root")>>,
               World(r1, r1, g, gs, y, ys, o, os))
      /\ Fine(c, World(r1, r1, g, gs, y, ys, o, os))
  <2>1. /\ RootOK(c, root) /\ \A k \in gs : GensOK(root, k)
        /\ \A k \in ys : ReadyOK(root, k) /\ \A b \in os : OwnerOK(root, k, b)
        /\ Marked(rs1, ys)
    BY <1>1, <1>4, <1>5, <1>6, <1>7, UnbornGens DEF Unborn
  <2>2. Leads(FALSE, c, World({d}, rs, g, gs, y, ys, o, os), <<Put("root", root)>>,
              World(r1, rs1, g, gs, y, ys, o, os))
    BY <1>2, <1>7, <2>1, WriteRoot
  <2>3. Fine(c, World(r1, rs1, g, gs, y, ys, o, os))
    BY <2>2, LeadsFine
  <2>4. Leads(FALSE, c, World(r1, rs1, g, gs, y, ys, o, os), <<Sync("root")>>,
              World(r1, r1, g, gs, y, ys, o, os))
    BY <2>3, SyncRoot
  <2>5. Leads(FALSE, c, World({d}, rs, g, gs, y, ys, o, os), <<Put("root", root), Sync("root")>>,
              World(r1, r1, g, gs, y, ys, o, os))
    BY <2>2, <2>4, TwoSteps
  <2> QED
    BY <2>5, LeadsFine
<1>10. /\ Leads(FALSE, c, World(r1, r1, g, gs, y, ys, o, os),
                IF root.marker THEN <<>> ELSE Publish("root", MarkedRoot),
                World(r2, r2, g, gs, y, ys, o, os))
       /\ Fine(c, World(r2, r2, g, gs, y, ys, o, os))
  <2>1. CASE root.marker
    <3>1. r1 = r2
      BY <1>1, <1>7, <2>1
    <3>2. Leads(FALSE, c, World(r2, r2, g, gs, y, ys, o, os), <<>>, World(r2, r2, g, gs, y, ys, o, os))
      BY <1>9, <3>1, LeadsNowhere
    <3> QED
      BY <1>9, <2>1, <3>1, <3>2
  <2>2. CASE ~ root.marker
    <3>1. /\ RootOK(c, MarkedRoot) /\ \A k \in gs : GensOK(MarkedRoot, k)
          /\ \A k \in ys : ReadyOK(MarkedRoot, k)
          /\ \A k \in ys, b \in os : OwnerOK(MarkedRoot, k, b)
      BY <1>1, <1>4, <1>5, <1>6, UnbornGens DEF Unborn
    <3>2. Marked(r1 \cup r2, ys)
      BY <1>4, <1>7, NoneMarked
    <3>3. /\ Leads(FALSE, c, World(r1, r1, g, gs, y, ys, o, os), Publish("root", MarkedRoot),
                   World(r2, r2, g, gs, y, ys, o, os))
          /\ Fine(c, World(r2, r2, g, gs, y, ys, o, os))
      BY <1>7, <1>9, <3>1, <3>2, PublishRoot
    <3> QED
      BY <2>2, <3>3
  <2> QED
    BY <2>1, <2>2
<1>11. \A k : DOMAIN k \subseteq {0} => \A x \in r2 : GensOK(x, k)
  BY <1>1, <1>7, UnbornGens
<1>12. PICK g2, gs2 :
           /\ Leads(FALSE, c, World(r2, r2, g, gs, y, ys, o, os),
                    IF 0 \in DOMAIN D
                    THEN <<Write("gens", TornIn(D, {0})), Put("gens", Without(D, 0))>> ELSE <<>>,
                    World(r2, r2, g2, gs2, y, ys, o, os))
           /\ Fine(c, World(r2, r2, g2, gs2, y, ys, o, os))
  <2>1. CASE 0 \in DOMAIN D
    <3> DEFINE Z == {0}
               T == TornIn(D, Z)
               k == Without(D, 0)
               v == {k}
               gs1 == gs \cup T
               w == gs1 \cup v
    <3>1. \A i \in T : DOMAIN i \subseteq {0}
      <4> SUFFICES ASSUME NEW i \in T
                   PROVE  DOMAIN i \subseteq {0}
        OBVIOUS
      <4>1. \A x \in Z : x = 0
        OBVIOUS
      <4> HIDE DEF Z
      <4>2. PICK x \in Z : Patched(i, D, x)
        BY Torns
      <4> QED
        BY <1>8, <4>1, <4>2 DEF Patched
    <3>2. DOMAIN k \subseteq {0}
      <4>1. DOMAIN k = DOMAIN D \ {0}
        BY Restricts DEF Without
      <4> QED
        BY <1>8, <4>1
    <3>3. v = {k} /\ gs1 = gs \cup T /\ w = gs1 \cup v
      OBVIOUS
    <3> HIDE DEF Z, T, k, v, gs1, w
    <3>4. \A x \in r2, i \in T : GensOK(x, i)
      BY <1>11, <3>1
    <3>5. Leads(FALSE, c, World(r2, r2, g, gs, y, ys, o, os), <<Write("gens", T)>>,
                World(r2, r2, T, gs1, y, ys, o, os))
      BY <1>10, <3>3, <3>4, WriteGens
    <3>6. Fine(c, World(r2, r2, T, gs1, y, ys, o, os))
      BY <3>5, LeadsFine
    <3>7. \A x \in r2 : GensOK(x, k)
      BY <1>11, <3>2
    <3>8. /\ Leads(FALSE, c, World(r2, r2, T, gs1, y, ys, o, os), <<Put("gens", k)>>,
                   World(r2, r2, v, w, y, ys, o, os))
          /\ Fine(c, World(r2, r2, v, w, y, ys, o, os))
      BY <3>3, <3>6, <3>7, PutGens
    <3>9. Leads(FALSE, c, World(r2, r2, g, gs, y, ys, o, os), <<Write("gens", T), Put("gens", k)>>,
                World(r2, r2, v, w, y, ys, o, os))
      BY <3>5, <3>8, TwoSteps
    <3> QED
      BY <2>1, <3>8, <3>9 DEF T, k, Z
  <2>2. CASE ~ (0 \in DOMAIN D)
    <3>1. Leads(FALSE, c, World(r2, r2, g, gs, y, ys, o, os), <<>>, World(r2, r2, g, gs, y, ys, o, os))
      BY <1>10, LeadsNowhere
    <3> QED
      BY <1>10, <2>2, <3>1
  <2> QED
    BY <2>1, <2>2
<1> DEFINE k1 == With(D, 0, Generation(Blank, NoManifest, FALSE))
           k2 == With(D, 0, Generation(Blank, Base, TRUE))
           k3 == With(D, 0, Generation(InitialState, Base, TRUE))
           v1 == {k1}
           v2 == {k2}
           v3 == {k3}
           w1 == gs2 \cup v1
           w2 == w1 \cup v2
           w3 == w2 \cup v3
<1>13. /\ DOMAIN k1 = {0} /\ DOMAIN k2 = {0} /\ DOMAIN k3 = {0}
       /\ k3[0] = Generation(InitialState, Base, TRUE)
  BY <1>8 DEF With
<1>14. /\ v1 = {k1} /\ v2 = {k2} /\ v3 = {k3}
       /\ w1 = gs2 \cup v1 /\ w2 = w1 \cup v2 /\ w3 = w2 \cup v3
  OBVIOUS
<1> HIDE DEF k1, k2, k3, v1, v2, v3, w1, w2, w3
<1>15. \A x \in r2 : GensOK(x, k1) /\ GensOK(x, k2) /\ GensOK(x, k3)
  BY <1>11, <1>13
<1>16. /\ Leads(FALSE, c, World(r2, r2, g2, gs2, y, ys, o, os), <<Put("gens", k1)>>,
                World(r2, r2, v1, w1, y, ys, o, os))
       /\ Fine(c, World(r2, r2, v1, w1, y, ys, o, os))
  BY <1>12, <1>14, <1>15, PutGens
<1>17. /\ Leads(FALSE, c, World(r2, r2, v1, w1, y, ys, o, os), <<Put("gens", k2)>>,
                World(r2, r2, v2, w2, y, ys, o, os))
       /\ Fine(c, World(r2, r2, v2, w2, y, ys, o, os))
  BY <1>14, <1>15, <1>16, PutGens
<1>18. /\ Leads(FALSE, c, World(r2, r2, v2, w2, y, ys, o, os), <<Put("gens", k3)>>,
                World(r2, r2, v3, w3, y, ys, o, os))
       /\ Fine(c, World(r2, r2, v3, w3, y, ys, o, os))
  BY <1>14, <1>15, <1>17, PutGens
<1>19. Leads(FALSE, c, World(r2, r2, v3, w3, y, ys, o, os), <<Sync("gens")>>,
             World(r2, r2, v3, v3, y, ys, o, os))
  BY <1>18, SyncGens
<1>20. /\ Leads(FALSE, c, World(r2, r2, g2, gs2, y, ys, o, os),
                <<Put("gens", k1), Put("gens", k2), Put("gens", k3), Sync("gens")>>,
                World(r2, r2, v3, v3, y, ys, o, os))
       /\ Fine(c, World(r2, r2, v3, v3, y, ys, o, os))
  <2>1. Leads(FALSE, c, World(r2, r2, g2, gs2, y, ys, o, os),
              <<Put("gens", k1), Put("gens", k2), Put("gens", k3), Sync("gens")>>,
              World(r2, r2, v3, v3, y, ys, o, os))
    <3> DEFINE u0 == World(r2, r2, g2, gs2, y, ys, o, os)
               u1 == World(r2, r2, v1, w1, y, ys, o, os)
               u2 == World(r2, r2, v2, w2, y, ys, o, os)
               u3 == World(r2, r2, v3, w3, y, ys, o, os)
               u4 == World(r2, r2, v3, v3, y, ys, o, os)
               s1 == Put("gens", k1)
               s2 == Put("gens", k2)
               s3 == Put("gens", k3)
               s4 == Sync("gens")
    <3>1. /\ Leads(FALSE, c, u0, <<s1>>, u1) /\ Leads(FALSE, c, u1, <<s2>>, u2)
          /\ Leads(FALSE, c, u2, <<s3>>, u3) /\ Leads(FALSE, c, u3, <<s4>>, u4)
      BY <1>16, <1>17, <1>18, <1>19
    <3> HIDE DEF u0, u1, u2, u3, u4, s1, s2, s3, s4
    <3>2. Leads(FALSE, c, u0, <<s1, s2, s3, s4>>, u4)
      BY <3>1, FourSteps
    <3> QED
      BY <3>2 DEF u0, u4, s1, s2, s3, s4
  <2> QED
    BY <2>1, LeadsFine
<1>21. /\ Leads(FALSE, c, World(r2, r2, v3, v3, y, ys, o, os), Publish("root", FirstRoot),
                World(r3, r3, v3, v3, y, ys, o, os))
       /\ Fine(c, World(r3, r3, v3, v3, y, ys, o, os))
  <2>1. \A k \in v3 : GensOK(FirstRoot, k)
    <3>1. InitialState.generation = 0 /\ InitialState.manifest = Base
      BY DEF InitialState, State
    <3>2. GensOK(FirstRoot, k3)
      BY <1>1, <1>13, <3>1 DEF GensOK
    <3> QED
      BY <3>2, <1>14
  <2>2. Marked(r2 \cup r3, ys)
    BY <1>1, <1>4, <1>7, NoneMarked
  <2>3. /\ \A k \in ys : ReadyOK(FirstRoot, k)
        /\ \A k \in ys, b \in os : OwnerOK(FirstRoot, k, b)
    BY <1>1, <1>5
  <2>4. RootOK(c, FirstRoot) /\ r3 = {FirstRoot}
    BY <1>1, <1>7
  <2> QED
    BY <1>20, <2>1, <2>2, <2>3, <2>4, PublishRoot
<1>22. Resting(c, World(r3, r3, v3, v3, y, ys, o, os))
  <2>1. \A k \in v3 : DOMAIN k \subseteq 0 .. FirstRoot.current.generation
    BY <1>1, <1>13, <1>14 DEF InitialState, State
  <2>2. HasCurrent(FirstRoot) /\ r3 = {FirstRoot}
    BY <1>1, <1>7
  <2>3. Restful(World(r3, r3, v3, v3, y, ys, o, os))
    BY <2>1, <2>2, WorldFine
  <2> QED
    BY <2>3 DEF Resting
<1>23. Leads(FALSE, c, Here, InstallSteps, World(r3, r3, v3, v3, y, ys, o, os))
  <2>1. InstallSteps =
          <<Put("root", root), Sync("root")>>
          \o (IF root.marker THEN <<>> ELSE Publish("root", MarkedRoot))
          \o (IF 0 \in DOMAIN D
              THEN <<Write("gens", TornIn(D, {0})), Put("gens", Without(D, 0))>> ELSE <<>>)
          \o <<Put("gens", k1), Put("gens", k2), Put("gens", k3), Sync("gens")>>
          \o Publish("root", FirstRoot)
    BY <1>3 DEF k1, k2, k3
  <2> DEFINE A == <<Put("root", root), Sync("root")>>
             B == IF root.marker THEN <<>> ELSE Publish("root", MarkedRoot)
             C == IF 0 \in DOMAIN D
                  THEN <<Write("gens", TornIn(D, {0})), Put("gens", Without(D, 0))>> ELSE <<>>
             E == <<Put("gens", k1), Put("gens", k2), Put("gens", k3), Sync("gens")>>
             F == Publish("root", FirstRoot)
  <2>2. /\ Leads(FALSE, c, Here, A, World(r1, r1, g, gs, y, ys, o, os))
        /\ Leads(FALSE, c, World(r1, r1, g, gs, y, ys, o, os), B, World(r2, r2, g, gs, y, ys, o, os))
        /\ Leads(FALSE, c, World(r2, r2, g, gs, y, ys, o, os), C, World(r2, r2, g2, gs2, y, ys, o, os))
        /\ Leads(FALSE, c, World(r2, r2, g2, gs2, y, ys, o, os), E, World(r2, r2, v3, v3, y, ys, o, os))
        /\ Leads(FALSE, c, World(r2, r2, v3, v3, y, ys, o, os), F, World(r3, r3, v3, v3, y, ys, o, os))
    BY <1>2, <1>9, <1>10, <1>12, <1>20, <1>21
  <2>3. InstallSteps = A \o B \o C \o E \o F
    BY <2>1
  <2> HIDE DEF A, B, C, E, F
  <2> QED
    BY <2>2, <2>3, FiveCalls
<1> QED
  BY <1>22, <1>23

(* A builder may go on from a world whose root is known.                   *)
LEMMA RestingAt ==
    ASSUME NEW c, NEW r, NEW rs, NEW g, NEW gs, NEW y, NEW ys, NEW o, NEW os,
           NEW x, rs = {x}, HasCurrent(x),
           ~ Done(x) => \A k \in g : DOMAIN k \subseteq 0 .. x.current.generation
    PROVE  Resting(c, World(r, rs, g, gs, y, ys, o, os))
<1>1. Restful(World(r, rs, g, gs, y, ys, o, os))
  BY WorldFine
<1> QED
  BY <1>1 DEF Resting

Kept(x, D) ==
    /\ x.current.generation \in DOMAIN D
    /\ D[x.current.generation] = Generation(x.current, x.current.manifest, TRUE)

(* reap_generations leaves what CURRENT names alone.                       *)
LEMMA ReapLeads ==
    ASSUME NEW calm, NEW c, NEW x, NEW keep, NEW D,
           NEW r, NEW rs, NEW g, NEW gs, NEW y, NEW ys, NEW o, NEW os,
           rs = {x}, HasCurrent(x), ~ Done(x), keep = x.current.generation, keep \in Nat,
           Kept(x, D),
           calm => DOMAIN D \subseteq 0 .. keep,
           g = {D}, Fine(c, World(r, rs, g, gs, y, ys, o, os))
    PROVE  \E h, hs : /\ Leads(calm, c, World(r, rs, g, gs, y, ys, o, os), Reap(D, keep),
                               World(r, rs, h, hs, y, ys, o, os))
                      /\ Fine(c, World(r, rs, h, hs, y, ys, o, os))
                      /\ Resting(c, World(r, rs, h, hs, y, ys, o, os))
<1> DEFINE others == DOMAIN D \ {keep}
           T == TornIn(D, others)
           K == Restrict(D, {keep})
           v == {K}
           ts == gs \cup T
           w == ts \cup v
<1>1. \A i : keep \in DOMAIN i /\ i[keep] = D[keep] => GensOK(x, i)
  BY DEF Kept, GensOK
<1>0. keep \in DOMAIN D
  BY DEF Kept
<1>2. ASSUME NEW i \in T
      PROVE  keep \in DOMAIN i /\ i[keep] = D[keep] /\ DOMAIN i = DOMAIN D
  <2>1. \A j \in others : j \in DOMAIN D /\ j # keep
    OBVIOUS
  <2>3. i \in TornIn(D, others)
    OBVIOUS
  <2> HIDE DEF others, T, K, v, ts, w
  <2>2. PICK j \in others : Patched(i, D, j)
    BY <2>3, Torns
  <2> QED
    <3>1. j \in DOMAIN D /\ j # keep
      BY <2>1
    <3>2. i[keep] = D[keep]
      BY <1>0, <2>2, <3>1 DEF Patched
    <3>3. DOMAIN i = DOMAIN D
      BY <2>2, <3>1 DEF Patched
    <3> QED
      BY <1>0, <3>2, <3>3
<1>3. DOMAIN K = {keep} /\ K[keep] = D[keep]
  BY Restricts
<1>4. v = {K} /\ ts = gs \cup T /\ w = ts \cup v
  OBVIOUS
<1>5. Reap(D, keep) = IF others = {} THEN <<Sync("gens")>>
                      ELSE <<Write("gens", T), Put("gens", K), Sync("gens")>>
  BY DEF Reap
<1>6. calm => \A k \in g : DOMAIN k \subseteq 0 .. x.current.generation
  OBVIOUS
<1>7. calm => \A k \in T : DOMAIN k \subseteq 0 .. x.current.generation
  BY <1>2
<1>8. \A k \in v : DOMAIN k \subseteq 0 .. x.current.generation
  BY <1>3
<1>9. CASE others = {}
  <2>1. \A k \in g : DOMAIN k \subseteq 0 .. x.current.generation
    BY <1>9
  <2>2. \A l : Resting(c, World(r, rs, g, l, y, ys, o, os))
    <3> HIDE DEF others, T, K, v, ts, w
    <3> QED
      BY <2>1, RestingAt
  <2>3. Leads(calm, c, World(r, rs, g, gs, y, ys, o, os), <<Sync("gens")>>,
              World(r, rs, g, g, y, ys, o, os))
    BY <2>2, SyncGens
  <2>4. Fine(c, World(r, rs, g, g, y, ys, o, os))
    BY <2>3, LeadsFine
  <2> QED
    BY <1>5, <1>9, <2>2, <2>3, <2>4
<1>10. CASE others # {}
  <2> HIDE DEF others, T, K, v, ts, w
  <2>1. \A k \in T : GensOK(x, k)
    BY <1>1, <1>2
  <2>2. GensOK(x, K)
    BY <1>1, <1>3
  <2>3. /\ calm => \A l : Resting(c, World(r, rs, g, l, y, ys, o, os))
        /\ calm => \A l : Resting(c, World(r, rs, T, l, y, ys, o, os))
        /\ \A l : Resting(c, World(r, rs, v, l, y, ys, o, os))
    BY <1>6, <1>7, <1>8, RestingAt
  <2>4. Leads(calm, c, World(r, rs, g, gs, y, ys, o, os), <<Write("gens", T)>>,
              World(r, rs, T, ts, y, ys, o, os))
    BY <1>4, <2>1, <2>3, WriteGens
  <2>5. Fine(c, World(r, rs, T, ts, y, ys, o, os))
    BY <2>4, LeadsFine
  <2>6. /\ Leads(calm, c, World(r, rs, T, ts, y, ys, o, os), <<Put("gens", K)>>,
                 World(r, rs, v, w, y, ys, o, os))
        /\ Fine(c, World(r, rs, v, w, y, ys, o, os))
    <3>1. calm => /\ Resting(c, World(r, rs, T, ts, y, ys, o, os))
                  /\ Resting(c, World(r, rs, v, w, y, ys, o, os))
      BY <2>3
    <3>2. v = {K} /\ w = ts \cup v /\ \A i \in rs : GensOK(i, K)
      BY <1>4, <2>2
    <3> QED
      BY <3>1, <3>2, <2>5, PutGens
  <2>7. Leads(calm, c, World(r, rs, v, w, y, ys, o, os), <<Sync("gens")>>,
              World(r, rs, v, v, y, ys, o, os))
    BY <2>3, <2>6, SyncGens
  <2>8. Fine(c, World(r, rs, v, v, y, ys, o, os))
    BY <2>7, LeadsFine
  <2>9. Leads(calm, c, World(r, rs, g, gs, y, ys, o, os),
              <<Write("gens", T), Put("gens", K), Sync("gens")>>,
              World(r, rs, v, v, y, ys, o, os))
    BY <2>4, <2>6, <2>7, ThreeSteps
  <2> QED
    BY <1>5, <1>10, <2>3, <2>8, <2>9
<1> QED
  BY <1>9, <1>10

(* The records up to a cursor are a manifest that is there.                *)
LEMMA RecordsAre ==
    ASSUME NEW n \in Nat
    PROVE  Records(0, n) # NoManifest
<1>1. Records(0, n) = [i \in 1 .. n |-> i]
  BY DEF Records
<1>2. SUFFICES ASSUME [i \in 1 .. n |-> i] = NoManifest
               PROVE  FALSE
  BY <1>1
<1>3. 1 \in DOMAIN NoManifest /\ NoManifest[1] = 0
  BY DEF NoManifest
<1>4. 1 \in 1 .. n
  BY <1>2, <1>3
<1>5. [i \in 1 .. n |-> i][1] = 1
  BY <1>4
<1> QED
  BY <1>2, <1>3, <1>5

(* What CURRENT or FINISHED names verifies.                                *)
LEMMA NowVerified ==
    ASSUME NEW c, GoodNow(c), HasCurrent(disk.root)
    PROVE  /\ Verified
           /\ Recovered = disk.root.current /\ StateOK(disk.root.current)
           /\ disk.root.marker
           /\ disk.root = [marker |-> disk.root.marker, current |-> disk.root.current,
                           finished |-> disk.root.finished]
           /\ Done(disk.root) <=> disk.root.finished # None
           /\ Done(disk.root) => disk.root.finished = disk.root.current /\ disk.ready # None
           /\ ~ Done(disk.root) => disk.root.finished = None
<1> DEFINE d == disk.root
           y == disk.ready
           s == d.current
<1>1. RootOK(c, d) /\ GensOK(d, disk.gens) /\ ReadyOK(d, y)
  BY HereFine
<1>2. d # None /\ s # None
  BY DEF HasCurrent
<1>3. /\ d = [marker |-> d.marker, current |-> d.current, finished |-> d.finished]
      /\ d.marker /\ StateOK(s) /\ d.finished \in {None, s}
  BY <1>1, <1>2 DEF RootOK
<1>4. Done(d) <=> d.finished # None
  BY <1>2 DEF Done
<1>5. s.cursor \in Nat /\ s.manifest = Records(0, s.cursor)
  <2>1. s = State(s.generation, s.cursor, s.previous, Records(0, s.cursor)) /\ s.cursor \in Nat
    BY <1>3 DEF StateOK
  <2> QED
    BY <2>1 DEF State
<1>6. CASE d.finished # None
  <2>1. d.finished = s /\ Recovered = s
    BY <1>3, <1>6 DEF Recovered
  <2>2. /\ y = [work |-> y.work, rows |-> s.manifest, whole |-> TRUE,
                sealed |-> y.sealed, bound |-> y.bound, changed |-> y.changed]
        /\ y.work \in {None, s}
    BY <1>1, <1>4, <1>6, <2>1 DEF ReadyOK
  <2>3. y # None /\ y.rows = s.manifest
    <3>1. \A a, b, e, f, i : [work |-> a, rows |-> b, whole |-> TRUE,
                              sealed |-> e, bound |-> f, changed |-> i] # None
      BY DEF None
    <3> QED
      BY <2>2, <3>1
  <2>4. y.rows # NoManifest
    BY <1>5, <2>3, RecordsAre
  <2>5. Verified
    BY <1>6, <2>1, <2>2, <2>3, <2>4 DEF Verified
  <2> QED
    BY <1>2, <1>3, <1>4, <1>6, <2>1, <2>3, <2>5
<1>7. CASE d.finished = None
  <2>1. Recovered = s
    BY <1>7 DEF Recovered
  <2>2. /\ s.generation \in DOMAIN disk.gens
        /\ disk.gens[s.generation] = Generation(s, s.manifest, TRUE)
    BY <1>1, <1>4, <1>7 DEF GensOK
  <2>3. Verified
    BY <1>2, <1>7, <2>1, <2>2 DEF Verified, Generation
  <2> QED
    BY <1>2, <1>3, <1>4, <1>7, <2>1, <2>3
<1> QED
  BY <1>6, <1>7

(* open: CURRENT verifies, and what it does not name is reaped.            *)
LEMMA OpenLeads ==
    ASSUME NEW c, GoodNow(c), HasCurrent(disk.root)
    PROVE  \E q : Leads(FALSE, c, Here, OpenSteps, q) /\ Resting(c, q)
<1> DEFINE d == disk.root
           D == disk.gens
           keep == d.current.generation
           r == {d}
           rs == settled.root
           g == {D}
           gs == settled.gens
           y == {disk.ready}
           ys == settled.ready
           o == {disk.owner}
           os == settled.owner
<1>1. /\ Fine(c, World(r, rs, g, gs, y, ys, o, os))
      /\ Here = World(r, rs, g, gs, y, ys, o, os)
  BY HereFine DEF Here
<1>2. /\ Verified /\ Recovered = d.current /\ keep \in Nat
      /\ Done(d) <=> d.finished # None
  BY NowVerified DEF StateOK
<1>3. OpenSteps = <<Sync("root")>> \o (IF Done(d) THEN <<>> ELSE Reap(D, keep))
  BY <1>2 DEF OpenSteps, OpenRoot
<1>4. ~ Done(d) => Kept(d, D)
  BY HereFine DEF GensOK, Kept
<1>5. r = {d} /\ g = {D} /\ keep = d.current.generation /\ HasCurrent(d)
  OBVIOUS
<1> HIDE DEF d, D, keep, r, rs, g, gs, y, ys, o, os
<1>6. Leads(FALSE, c, World(r, rs, g, gs, y, ys, o, os), <<Sync("root")>>,
            World(r, r, g, gs, y, ys, o, os))
  BY <1>1, SyncRoot
<1>7. Fine(c, World(r, r, g, gs, y, ys, o, os))
  BY <1>6, LeadsFine
<1>8. CASE Done(d)
  <2>1. Leads(FALSE, c, World(r, r, g, gs, y, ys, o, os), <<>>, World(r, r, g, gs, y, ys, o, os))
    BY <1>7, LeadsNowhere
  <2>2. Resting(c, World(r, r, g, gs, y, ys, o, os))
    BY <1>5, <1>8, RestingAt
  <2>3. Leads(FALSE, c, World(r, rs, g, gs, y, ys, o, os), <<Sync("root")>> \o <<>>,
              World(r, r, g, gs, y, ys, o, os))
    BY <1>6, <2>1, LeadsJoin
  <2> QED
    BY <1>1, <1>3, <1>8, <2>2, <2>3
<1>9. CASE ~ Done(d)
  <2> DEFINE S == Reap(D, keep)
  <2>1. \E h, hs : /\ Leads(FALSE, c, World(r, r, g, gs, y, ys, o, os), Reap(D, keep),
                            World(r, r, h, hs, y, ys, o, os))
                   /\ Fine(c, World(r, r, h, hs, y, ys, o, os))
                   /\ Resting(c, World(r, r, h, hs, y, ys, o, os))
    <3> DEFINE f == FALSE
    <3>1. keep \in Nat /\ Kept(d, D) /\ ~ f
      BY <1>2, <1>4, <1>9
    <3> HIDE DEF f, S
    <3>2. \E h, hs : /\ Leads(f, c, World(r, r, g, gs, y, ys, o, os), Reap(D, keep),
                              World(r, r, h, hs, y, ys, o, os))
                     /\ Fine(c, World(r, r, h, hs, y, ys, o, os))
                     /\ Resting(c, World(r, r, h, hs, y, ys, o, os))
      BY <3>1, <1>5, <1>7, <1>9, ReapLeads
    <3> QED
      BY <3>2 DEF f
  <2>2. OpenSteps = <<Sync("root")>> \o S
    BY <1>3, <1>9
  <2>3. PICK q : Leads(FALSE, c, World(r, r, g, gs, y, ys, o, os), S, q) /\ Resting(c, q)
    <3>1. PICK h, hs : /\ Leads(FALSE, c, World(r, r, g, gs, y, ys, o, os), Reap(D, keep),
                                World(r, r, h, hs, y, ys, o, os))
                       /\ Resting(c, World(r, r, h, hs, y, ys, o, os))
      BY <2>1
    <3> QED
      BY <3>1
  <2> HIDE DEF S
  <2>4. Leads(FALSE, c, World(r, rs, g, gs, y, ys, o, os), <<Sync("root")>> \o S, q)
    BY <1>6, <2>3, LeadsJoin
  <2> QED
    BY <1>1, <2>2, <2>3, <2>4
<1> QED
  BY <1>8, <1>9

(* Records is a sequence of its length.                                    *)
LEMMA RecordsUpTo ==
    ASSUME NEW n \in Nat
    PROVE  /\ Records(0, n) \in Seq(Nat) /\ Len(Records(0, n)) = n
           /\ \A i \in 1 .. n : Records(0, n)[i] = i
<1>1. Records(0, n) = [i \in 1 .. n |-> i]
  BY DEF Records
<1>2. /\ [i \in 1 .. n |-> i] \in Seq(Nat) /\ Len([i \in 1 .. n |-> i]) = n
      /\ \A i \in 1 .. n : [j \in 1 .. n |-> j][i] = i
  OBVIOUS
<1> QED
  BY <1>1, <1>2

(* The elements of a concatenation.                                        *)
LEMMA Concatenated ==
    ASSUME NEW A, NEW R \in Seq(A), NEW T \in Seq(A)
    PROVE  /\ R \o T \in Seq(A) /\ Len(R \o T) = Len(R) + Len(T)
           /\ \A i \in 1 .. Len(R) + Len(T) :
                  (R \o T)[i] = IF i <= Len(R) THEN R[i] ELSE T[i - Len(R)]
OBVIOUS

(* The records up to a cursor and those from it on.                        *)
LEMMA RecordsJoin ==
    ASSUME NEW a \in Nat, NEW b \in Nat, a <= b
    PROVE  Records(0, a) \o Records(a, b) = Records(0, b) /\ Len(Records(0, a)) = a
<1> DEFINE R == Records(0, a)
           T == Records(a, b)
           U == Records(0, b)
<1>1. R \in Seq(Nat) /\ Len(R) = a /\ \A i \in 1 .. a : R[i] = i
  BY RecordsUpTo
<1>2. T \in Seq(Nat) /\ Len(T) = b - a /\ \A i \in 1 .. b - a : T[i] = a + i
  <2>1. T = [i \in 1 .. b - a |-> a + i]
    BY DEF Records
  <2> QED
    BY <2>1
<1>3. U \in Seq(Nat) /\ Len(U) = b /\ \A i \in 1 .. b : U[i] = i
  BY RecordsUpTo
<1> HIDE DEF R, T, U
<1>4. /\ R \o T \in Seq(Nat) /\ Len(R \o T) = Len(R) + Len(T)
      /\ \A i \in 1 .. Len(R) + Len(T) :
             (R \o T)[i] = IF i <= Len(R) THEN R[i] ELSE T[i - Len(R)]
  BY <1>1, <1>2, Concatenated
<1> DEFINE S == R \o T
<1>7. S \in Seq(Nat) /\ Len(S) = b
  BY <1>1, <1>2, <1>4
<1>5. ASSUME NEW i \in 1 .. b
      PROVE  S[i] = U[i]
  <2>1. i \in Nat /\ i \in 1 .. Len(R) + Len(T) /\ Len(R) = a
    BY <1>1, <1>2
  <2>2. S[i] = IF i <= a THEN R[i] ELSE T[i - a]
    BY <1>4, <2>1
  <2>3. U[i] = i
    BY <1>3
  <2>4. CASE i <= a
    BY <1>1, <2>1, <2>2, <2>3, <2>4
  <2>5. CASE i > a
    <3>1. i - a \in 1 .. b - a
      BY <2>1, <2>5
    <3>2. T[i - a] = a + (i - a)
      BY <1>2, <3>1
    <3> QED
      BY <2>1, <2>2, <2>3, <2>5, <3>2
  <2> QED
    BY <2>1, <2>4, <2>5
<1> HIDE DEF S
<1>6. S = U
  BY <1>3, <1>5, <1>7
<1> QED
  BY <1>1, <1>6 DEF R, S, T, U

(* CURRENT after an apply.                                                 *)
LEMMA AppliedRoot ==
    ASSUME NEW c, c.acked \in Nat, NEW d, RootOK(c, d), HasCurrent(d), ~ Done(d),
           NEW chunk, c.offered = chunk,
           chunk.start = d.current.cursor, chunk.end \in Nat, chunk.start <= chunk.end,
           NEW s, s = State(d.current.generation + 1, chunk.end, chunk.start,
                            d.current.manifest \o Records(chunk.start, chunk.end)),
           NEW n, n = [marker |-> d.marker, current |-> s, finished |-> d.finished]
    PROVE  /\ RootOK(c, n) /\ HasCurrent(n) /\ ~ Done(n) /\ n.current = s
           /\ Replayable(d.current.manifest, chunk.start)
           /\ s.generation = d.current.generation + 1 /\ d.current.generation \in Nat
<1>1. /\ d.marker = TRUE /\ d.finished = None /\ StateOK(d.current)
      /\ c.acked > 0 => d.current.cursor >= c.acked
  BY DEF RootOK, HasCurrent, Done
<1>2. /\ d.current.cursor \in Nat /\ d.current.generation \in Nat
      /\ d.current.manifest = Records(0, d.current.cursor)
  <2>1. /\ d.current = State(d.current.generation, d.current.cursor, d.current.previous,
                             Records(0, d.current.cursor))
        /\ d.current.cursor \in Nat /\ d.current.generation \in Nat
    BY <1>1 DEF StateOK
  <2> QED
    BY <2>1 DEF State
<1>3. /\ d.current.manifest \o Records(chunk.start, chunk.end) = Records(0, chunk.end)
      /\ Replayable(d.current.manifest, chunk.start)
  <2> DEFINE a == chunk.start
             b == chunk.end
  <2>1. a \in Nat /\ b \in Nat /\ a <= b /\ d.current.manifest = Records(0, a)
    BY <1>2
  <2> HIDE DEF a, b
  <2>2. d.current.manifest \o Records(a, b) = Records(0, b) /\ Len(d.current.manifest) = a
    BY <2>1, RecordsJoin
  <2> QED
    BY <2>2 DEF Replayable, a, b
<1>4. s = State(d.current.generation + 1, chunk.end, chunk.start, Records(0, chunk.end))
  BY <1>3
<1>5. /\ s.generation = d.current.generation + 1 /\ s.cursor = chunk.end
      /\ s.previous = chunk.start /\ s # None
  <2>1. s # None
    BY <1>4, Shapes
  <2>2. /\ s.generation = d.current.generation + 1 /\ s.cursor = chunk.end
        /\ s.previous = chunk.start
    BY <1>4 DEF State
  <2> QED
    BY <2>1, <2>2
<1>6. StateOK(s)
  BY <1>2, <1>4, <1>5 DEF StateOK
<1>7. n # None /\ n.current = s /\ n.marker = TRUE /\ n.finished = None
  BY <1>1, Shapes
<1>8. n = [marker |-> n.marker, current |-> n.current, finished |-> n.finished]
  OBVIOUS
<1>9. Fits(chunk, s)
  BY <1>5 DEF Fits
<1>10. c.acked > 0 => s.cursor >= c.acked
  BY <1>1, <1>2, <1>5
<1>11. HasCurrent(n) /\ ~ Done(n)
  BY <1>5, <1>7 DEF HasCurrent, Done
<1>12. RootOK(c, n)
  BY <1>5, <1>6, <1>7, <1>8, <1>9, <1>10, <1>11 DEF RootOK
<1> QED
  BY <1>2, <1>3, <1>5, <1>7, <1>11, <1>12

(* With changes nothing else.                                              *)
LEMMA WithElse ==
    ASSUME NEW f, NEW x, NEW v, NEW k \in DOMAIN f, k # x
    PROVE  k \in DOMAIN With(f, x, v) /\ With(f, x, v)[k] = f[k]
BY DEF With

(* apply_archive: a new generation beside the old one, then CURRENT.       *)
LEMMA ApplyLeads ==
    ASSUME NEW c, GoodNow(c), c.acked \in Nat, HasCurrent(disk.root), ~ Done(disk.root),
           settled.root = {disk.root}, builder.state = disk.root.current,
           DOMAIN disk.gens \subseteq 0 .. disk.root.current.generation,
           NEW chunk, c.offered = chunk, chunk.start = disk.root.current.cursor,
           chunk.end \in Nat, chunk.start <= chunk.end
    PROVE  \E q : Leads(FALSE, c, Here, ApplySteps(chunk), q) /\ Resting(c, q)
<1> DEFINE d == disk.root
           D == disk.gens
           s0 == d.current
           old == s0.generation
           next == old + 1
           rows == s0.manifest \o Records(chunk.start, chunk.end)
           s == State(next, chunk.end, chunk.start, rows)
           n == [marker |-> d.marker, current |-> s, finished |-> d.finished]
           r == {d}
           r2 == {n}
           g == {D}
           gs == settled.gens
           y == {disk.ready}
           ys == settled.ready
           o == {disk.owner}
           os == settled.owner
           k1 == With(D, next, Generation(Blank, NoManifest, FALSE))
           k2 == With(D, next, Generation(Blank, s0.manifest, TRUE))
           k3 == With(D, next, Generation(s0, s0.manifest, TRUE))
           k4 == With(D, next, Generation(s0, rows, TRUE))
           k5 == With(D, next, Generation(s, rows, TRUE))
           v1 == {k1}
           v2 == {k2}
           v3 == {k3}
           v4 == {k4}
           v5 == {k5}
           w1 == gs \cup v1
           w2 == w1 \cup v2
           w3 == w2 \cup v3
           w4 == w3 \cup v4
           w5 == w4 \cup v5
<1>1. /\ Fine(c, World(r, r, g, gs, y, ys, o, os)) /\ Good(c, r, gs, ys, os)
      /\ Here = World(r, r, g, gs, y, ys, o, os) /\ RootOK(c, d) /\ disk.ready \in ys
  BY HereFine DEF Here, GoodNow
<1>2. Kept(d, D)
  BY HereFine DEF GensOK, Kept
<1>3. /\ RootOK(c, n) /\ HasCurrent(n) /\ ~ Done(n) /\ n.current = s
      /\ Replayable(s0.manifest, chunk.start)
      /\ s.generation = next /\ old \in Nat
  BY <1>1, AppliedRoot
<1>4. [d EXCEPT !.current = s] = n
  <2>1. d = [marker |-> d.marker, current |-> d.current, finished |-> d.finished]
    BY <1>1 DEF RootOK, HasCurrent
  <2> HIDE DEF d, s
  <2> QED
    BY <2>1
<1>5. /\ old \in DOMAIN D /\ D[old] = Generation(s0, s0.manifest, TRUE)
      /\ ~ (next \in DOMAIN D) /\ D[old].whole = TRUE /\ D[old].rows = s0.manifest
      /\ next \in Nat /\ old # next
  <2>1. old \in DOMAIN D /\ D[old] = Generation(s0, s0.manifest, TRUE)
    BY <1>2 DEF Kept
  <2>2. D[old].whole = TRUE /\ D[old].rows = s0.manifest
    BY <2>1 DEF Generation
  <2>3. ~ (next \in DOMAIN D) /\ next \in Nat /\ old # next
    BY <1>3
  <2> QED
    BY <2>1, <2>2, <2>3
<1> DEFINE A == <<Put("gens", k1), Put("gens", k2), Put("gens", k3)>>
           B == <<>>
           C == <<Put("gens", k4), Put("gens", k5), Sync("gens")>>
           E == Publish("root", n)
           F == Leniently(Reap(k5, next))
<1>6. ApplySteps(chunk) = A \o B \o C \o E \o F
  <2>1. NewState(chunk, rows) = s
    BY DEF NewState
  <2>2. /\ builder.state = s0 /\ disk.gens = D /\ disk.root = d /\ D[old].rows = s0.manifest
        /\ D[old].whole = TRUE /\ ~ (next \in DOMAIN D)
    BY <1>5
  <2>3. Replayable(s0.manifest, chunk.start)
    BY <1>3
  <2> QED
    BY <1>4, <2>1, <2>2, <2>3 DEF ApplySteps
<1>7. /\ DOMAIN k5 \subseteq 0 .. next /\ next \in DOMAIN k5
      /\ k5[next] = Generation(s, rows, TRUE)
  BY <1>3 DEF With
<1>8. \A k \in {k1, k2, k3, k4, k5} : old \in DOMAIN k /\ k[old] = D[old]
  <2>1. ASSUME NEW v
        PROVE  old \in DOMAIN With(D, next, v) /\ With(D, next, v)[old] = D[old]
    <3>1. old \in DOMAIN D /\ old # next
      BY <1>5
    <3> HIDE DEF old, next, D
    <3> QED
      BY <3>1, WithElse
  <2> QED
    BY <2>1
<1>9. \A k : old \in DOMAIN k /\ k[old] = D[old] => GensOK(d, k)
  BY <1>5 DEF GensOK
<1>10. GensOK(d, k1) /\ GensOK(d, k2) /\ GensOK(d, k3) /\ GensOK(d, k4) /\ GensOK(d, k5)
  BY <1>8, <1>9
<1>11. Kept(n, k5) /\ GensOK(n, k5)
  <2>1. n.current = s /\ s.generation = next /\ s.manifest = rows
    BY <1>3 DEF State
  <2>2. Kept(n, k5)
    BY <1>7, <2>1 DEF Kept
  <2> QED
    BY <1>3, <2>2 DEF Kept, GensOK
<1>12. /\ r = {d} /\ r2 = {n} /\ v1 = {k1} /\ v2 = {k2} /\ v3 = {k3} /\ v4 = {k4} /\ v5 = {k5}
       /\ w1 = gs \cup v1 /\ w2 = w1 \cup v2 /\ w3 = w2 \cup v3 /\ w4 = w3 \cup v4 /\ w5 = w4 \cup v5
       /\ next = n.current.generation /\ ~ Done(d)
  BY <1>3
<1> HIDE DEF d, D, s0, old, next, rows, s, n, r, r2, g, gs, y, ys, o, os, k1, k2, k3, k4, k5,
             v1, v2, v3, v4, v5, w1, w2, w3, w4, w5
<1>13. /\ \A x \in r : GensOK(x, k1)
       /\ \A x \in r : GensOK(x, k2)
       /\ \A x \in r : GensOK(x, k3)
       /\ \A x \in r : GensOK(x, k4)
       /\ \A x \in r : GensOK(x, k5)
  BY <1>10, <1>12
<1>14. /\ Leads(FALSE, c, World(r, r, g, gs, y, ys, o, os), <<Put("gens", k1)>>,
                World(r, r, v1, w1, y, ys, o, os))
       /\ Fine(c, World(r, r, v1, w1, y, ys, o, os))
  BY <1>1, <1>12, <1>13, PutGens
<1>15. /\ Leads(FALSE, c, World(r, r, v1, w1, y, ys, o, os), <<Put("gens", k2)>>,
                World(r, r, v2, w2, y, ys, o, os))
       /\ Fine(c, World(r, r, v2, w2, y, ys, o, os))
  BY <1>12, <1>13, <1>14, PutGens
<1>16. /\ Leads(FALSE, c, World(r, r, v2, w2, y, ys, o, os), <<Put("gens", k3)>>,
                World(r, r, v3, w3, y, ys, o, os))
       /\ Fine(c, World(r, r, v3, w3, y, ys, o, os))
  BY <1>12, <1>13, <1>15, PutGens
<1>17. /\ Leads(FALSE, c, World(r, r, v3, w3, y, ys, o, os), <<Put("gens", k4)>>,
                World(r, r, v4, w4, y, ys, o, os))
       /\ Fine(c, World(r, r, v4, w4, y, ys, o, os))
  BY <1>12, <1>13, <1>16, PutGens
<1>18. /\ Leads(FALSE, c, World(r, r, v4, w4, y, ys, o, os), <<Put("gens", k5)>>,
                World(r, r, v5, w5, y, ys, o, os))
       /\ Fine(c, World(r, r, v5, w5, y, ys, o, os))
  BY <1>12, <1>13, <1>17, PutGens
<1>19. Leads(FALSE, c, World(r, r, v5, w5, y, ys, o, os), <<Sync("gens")>>,
             World(r, r, v5, v5, y, ys, o, os))
  BY <1>18, SyncGens
<1>20. Leads(FALSE, c, World(r, r, g, gs, y, ys, o, os), A, World(r, r, v3, w3, y, ys, o, os))
  <2> DEFINE u0 == World(r, r, g, gs, y, ys, o, os)
             u1 == World(r, r, v1, w1, y, ys, o, os)
             u2 == World(r, r, v2, w2, y, ys, o, os)
             u3 == World(r, r, v3, w3, y, ys, o, os)
             s1 == Put("gens", k1)
             s2 == Put("gens", k2)
             s3 == Put("gens", k3)
  <2>1. /\ Leads(FALSE, c, u0, <<s1>>, u1) /\ Leads(FALSE, c, u1, <<s2>>, u2)
        /\ Leads(FALSE, c, u2, <<s3>>, u3)
    BY <1>14, <1>15, <1>16
  <2> HIDE DEF u0, u1, u2, u3, s1, s2, s3
  <2>2. Leads(FALSE, c, u0, <<s1, s2, s3>>, u3)
    BY <2>1, ThreeSteps
  <2> QED
    BY <2>2 DEF u0, u3, s1, s2, s3
<1>21. Leads(FALSE, c, World(r, r, v3, w3, y, ys, o, os), B, World(r, r, v3, w3, y, ys, o, os))
  BY <1>16, LeadsNowhere
<1>22. Leads(FALSE, c, World(r, r, v3, w3, y, ys, o, os), C, World(r, r, v5, v5, y, ys, o, os))
  <2> DEFINE u0 == World(r, r, v3, w3, y, ys, o, os)
             u1 == World(r, r, v4, w4, y, ys, o, os)
             u2 == World(r, r, v5, w5, y, ys, o, os)
             u3 == World(r, r, v5, v5, y, ys, o, os)
             s1 == Put("gens", k4)
             s2 == Put("gens", k5)
             s3 == Sync("gens")
  <2>1. /\ Leads(FALSE, c, u0, <<s1>>, u1) /\ Leads(FALSE, c, u1, <<s2>>, u2)
        /\ Leads(FALSE, c, u2, <<s3>>, u3)
    BY <1>17, <1>18, <1>19
  <2> HIDE DEF u0, u1, u2, u3, s1, s2, s3
  <2>2. Leads(FALSE, c, u0, <<s1, s2, s3>>, u3)
    BY <2>1, ThreeSteps
  <2> QED
    BY <2>2 DEF u0, u3, s1, s2, s3
<1>23. Fine(c, World(r, r, v5, v5, y, ys, o, os))
  BY <1>19, LeadsFine
<1>24. /\ \A k \in ys : ReadyOK(n, k)
       /\ \A k \in ys, b \in os : OwnerOK(n, k, b)
       /\ \A k \in v5 : GensOK(n, k)
       /\ Marked(r \cup r2, ys)
  <2>1. /\ \A x : ~ Done(x) => /\ \A k : ReadyOK(x, k)
                               /\ \A k : \A b \in os : OwnerOK(x, k, b)
    <3>1. d \in r /\ ~ Done(d) /\ Good(c, r, gs, ys, os) /\ disk.ready \in ys
      BY <1>1, <1>12
    <3> QED
      BY <3>1, Unfinished
  <2>2. Marked(r \cup r2, ys)
    BY <1>3, <1>12, NoneMarked
  <2> QED
    BY <1>3, <1>11, <1>12, <2>1, <2>2
<1>25. /\ Leads(FALSE, c, World(r, r, v5, v5, y, ys, o, os), E, World(r2, r2, v5, v5, y, ys, o, os))
       /\ Fine(c, World(r2, r2, v5, v5, y, ys, o, os))
  <2>1. RootOK(c, n) /\ r2 = {n}
    BY <1>3, <1>12
  <2> QED
    BY <1>23, <1>24, <2>1, PublishRoot
<1>26. PICK h, hs :
           /\ Leads(FALSE, c, World(r2, r2, v5, v5, y, ys, o, os), F, World(r2, r2, h, hs, y, ys, o, os))
           /\ Resting(c, World(r2, r2, h, hs, y, ys, o, os))
  <2> DEFINE t == TRUE
             S == Reap(k5, next)
  <2>1. /\ r2 = {n} /\ HasCurrent(n) /\ ~ Done(n) /\ next = n.current.generation /\ next \in Nat
        /\ Kept(n, k5) /\ (t => DOMAIN k5 \subseteq 0 .. next) /\ v5 = {k5}
    BY <1>3, <1>5, <1>7, <1>11, <1>12
  <2> HIDE DEF t
  <2>2. \E h, hs : /\ Leads(t, c, World(r2, r2, v5, v5, y, ys, o, os), Reap(k5, next),
                            World(r2, r2, h, hs, y, ys, o, os))
                   /\ Fine(c, World(r2, r2, h, hs, y, ys, o, os))
                   /\ Resting(c, World(r2, r2, h, hs, y, ys, o, os))
    BY <1>25, <2>1, ReapLeads
  <2>3. PICK h, hs :
           /\ Leads(TRUE, c, World(r2, r2, v5, v5, y, ys, o, os), Reap(k5, next),
                    World(r2, r2, h, hs, y, ys, o, os))
           /\ Resting(c, World(r2, r2, h, hs, y, ys, o, os))
    BY <2>2 DEF t
  <2>4. Leads(FALSE, c, World(r2, r2, v5, v5, y, ys, o, os), F, World(r2, r2, h, hs, y, ys, o, os))
    BY <2>3, LeadsLeniently
  <2> QED
    BY <2>3, <2>4
<1> HIDE DEF A, B, C, E, F
<1>27. Leads(FALSE, c, World(r, r, g, gs, y, ys, o, os), A \o B \o C \o E \o F,
             World(r2, r2, h, hs, y, ys, o, os))
  BY <1>20, <1>21, <1>22, <1>25, <1>26, FiveCalls
<1> QED
  BY <1>1, <1>6, <1>26, <1>27

(* A product without its RESTORE-WORK is as good.                          *)
LEMMA Unmarking ==
    ASSUME NEW x, NEW k, Done(x), ReadyOK(x, k), NEW n, n = None,
           NEW m, m = [work |-> n, rows |-> k.rows, whole |-> k.whole, sealed |-> k.sealed,
                       bound |-> k.bound, changed |-> k.changed]
    PROVE  /\ [k EXCEPT !.work = n] = m
           /\ ReadyOK(x, m) /\ \A b : OwnerOK(x, k, b) => OwnerOK(x, m, b)
<1>1. /\ k = [work |-> k.work, rows |-> k.rows, whole |-> k.whole, sealed |-> k.sealed,
              bound |-> k.bound, changed |-> k.changed]
      /\ k.rows = x.finished.manifest /\ k.whole = TRUE
  <2>1. k = [work |-> k.work, rows |-> x.finished.manifest, whole |-> TRUE,
             sealed |-> k.sealed, bound |-> k.bound, changed |-> k.changed]
    BY DEF ReadyOK
  <2>2. k.rows = x.finished.manifest /\ k.whole = TRUE
    BY <2>1
  <2> QED
    BY <2>1, <2>2
<1>2. [k EXCEPT !.work = n] = m
  BY <1>1
<1>3. /\ m.work = None /\ m.rows = k.rows /\ m.whole = k.whole /\ m.sealed = k.sealed
      /\ m.bound = k.bound /\ m.changed = k.changed
  OBVIOUS
<1>4. m = [work |-> m.work, rows |-> x.finished.manifest, whole |-> TRUE,
           sealed |-> m.sealed, bound |-> m.bound, changed |-> m.changed]
  BY <1>1, <1>3
<1>5. ReadyOK(x, m)
  BY <1>3, <1>4 DEF ReadyOK
<1>6. Sealed(k) => Sealed(m)
  BY <1>3 DEF Sealed
<1>7. ASSUME NEW b, OwnerOK(x, k, b)
      PROVE  OwnerOK(x, m, b)
  BY <1>3, <1>6, <1>7 DEF OwnerOK
<1> QED
  BY <1>2, <1>5, <1>7

(* RESTORE-WORK is removed last.                                           *)
LEMMA UnmarkLeads ==
    ASSUME NEW c, NEW x, NEW k,
           NEW r, NEW rs, NEW g, NEW gs, NEW y, NEW ys, NEW o, NEW os,
           rs = {x}, Done(x), y = {k}, Fine(c, World(r, rs, g, gs, y, ys, o, os))
    PROVE  \E v, vs : /\ Leads(FALSE, c, World(r, rs, g, gs, y, ys, o, os), Unmark(k),
                               World(r, rs, g, gs, v, vs, o, os))
                      /\ Fine(c, World(r, rs, g, gs, v, vs, o, os))
<1>1. Good(c, rs, gs, ys, os) /\ y \subseteq ys
  BY WorldFine
<1>2. ReadyOK(x, k) /\ \A b \in os : OwnerOK(x, k, b)
  BY <1>1 DEF Good
<1>3. CASE k.work = None
  <2>1. Unmark(k) = <<>>
    BY <1>3 DEF Unmark
  <2>2. Leads(FALSE, c, World(r, rs, g, gs, y, ys, o, os), <<>>, World(r, rs, g, gs, y, ys, o, os))
    BY LeadsNowhere
  <2> QED
    BY <2>1, <2>2
<1>4. CASE k.work # None
  <2> DEFINE n == None
             m == [work |-> n, rows |-> k.rows, whole |-> k.whole, sealed |-> k.sealed,
                   bound |-> k.bound, changed |-> k.changed]
             v == {m}
  <2>1. n = None /\ v = {m}
    OBVIOUS
  <2>2. Unmark(k) = Publish("ready", [k EXCEPT !.work = n])
    BY <1>4 DEF Unmark
  <2> HIDE DEF n
  <2>3. /\ [k EXCEPT !.work = n] = m
        /\ ReadyOK(x, m) /\ \A b : OwnerOK(x, k, b) => OwnerOK(x, m, b)
    BY <1>2, <2>1, Unmarking
  <2>4. Unmark(k) = Publish("ready", m)
    BY <2>2, <2>3
  <2> HIDE DEF m, v
  <2>5. /\ \A i \in rs : ReadyOK(i, m)
        /\ \A i \in rs, b \in os : OwnerOK(i, m, b)
    BY <1>2, <2>3
  <2>6. Marked(rs, ys \cup v)
    BY AllMarked
  <2>7. /\ Leads(FALSE, c, World(r, rs, g, gs, y, ys, o, os), Publish("ready", m),
                 World(r, rs, g, gs, v, v, o, os))
        /\ Fine(c, World(r, rs, g, gs, v, v, o, os))
    BY <2>1, <2>5, <2>6, PublishReady
  <2> QED
    BY <2>4, <2>7
<1> QED
  BY <1>3, <1>4

(* Nobody needs the generations of a finished restore.                     *)
LEMMA DropLeads ==
    ASSUME NEW c, c.kind = "finish", NEW x, NEW X,
           NEW r, NEW rs, NEW g, NEW gs, NEW y, NEW ys, NEW o, NEW os,
           r = {x}, Done(x), HasCurrent(x), Fine(c, World(r, r, g, gs, y, ys, o, os))
    PROVE  \E q : Leads(FALSE, c, World(r, r, g, gs, y, ys, o, os),
                        Leniently(<<Write("gens", X), Sync("root")>>), q)
<1> DEFINE w == gs \cup X
<1>1. \A p : Resting(c, p)
  BY DEF Resting
<1>2. \A i \in r, k \in X : GensOK(i, k)
  BY DEF GensOK
<1>3. w = gs \cup X
  OBVIOUS
<1> HIDE DEF w
<1> DEFINE t == TRUE
<1> HIDE DEF t
<1>4. Leads(t, c, World(r, r, g, gs, y, ys, o, os), <<Write("gens", X)>>,
            World(r, r, X, w, y, ys, o, os))
  BY <1>1, <1>2, <1>3, WriteGens
<1>5. Fine(c, World(r, r, X, w, y, ys, o, os))
  BY <1>4, LeadsFine
<1>6. Leads(t, c, World(r, r, X, w, y, ys, o, os), <<Sync("root")>>,
            World(r, r, X, w, y, ys, o, os))
  BY <1>1, <1>5, SyncRoot
<1>7. Leads(t, c, World(r, r, g, gs, y, ys, o, os), <<Write("gens", X), Sync("root")>>,
            World(r, r, X, w, y, ys, o, os))
  BY <1>4, <1>6, TwoSteps
<1> DEFINE S == <<Write("gens", X), Sync("root")>>
<1>8. Leads(TRUE, c, World(r, r, g, gs, y, ys, o, os), S, World(r, r, X, w, y, ys, o, os))
  BY <1>7 DEF t
<1> HIDE DEF S
<1>9. Leads(FALSE, c, World(r, r, g, gs, y, ys, o, os), Leniently(S), World(r, r, X, w, y, ys, o, os))
  BY <1>8, LeadsLeniently
<1> QED
  BY <1>9 DEF S

(* finish when FINISHED is there: only what was left to tidy up.           *)
LEMMA FinishAgainLeads ==
    ASSUME NEW c, GoodNow(c), c.kind = "finish", HasCurrent(disk.root), Done(disk.root),
           settled.root = {disk.root}, builder.finished
    PROVE  \E q : Leads(FALSE, c, Here, FinishSteps, q) /\ Resting(c, q)
<1> DEFINE d == disk.root
           k == disk.ready
           r == {d}
           g == {disk.gens}
           gs == settled.gens
           y == {k}
           ys == settled.ready
           o == {disk.owner}
           os == settled.owner
           X == {<<>>} \cup TornIn(disk.gens, DOMAIN disk.gens)
           S == Unmark(k)
           T == Leniently(<<Write("gens", X), Sync("root")>>)
<1>1. Fine(c, World(r, r, g, gs, y, ys, o, os)) /\ Here = World(r, r, g, gs, y, ys, o, os)
  BY HereFine DEF Here
<1>2. FinishSteps = S \o T
  BY DEF FinishSteps
<1>3. r = {d} /\ y = {k} /\ Done(d) /\ HasCurrent(d)
  OBVIOUS
<1> HIDE DEF d, k, r, g, gs, y, ys, o, os, X
<1>4. PICK v, vs : /\ Leads(FALSE, c, World(r, r, g, gs, y, ys, o, os), S,
                            World(r, r, g, gs, v, vs, o, os))
                   /\ Fine(c, World(r, r, g, gs, v, vs, o, os))
  <2>1. r = {d} /\ Done(d) /\ y = {k} /\ Fine(c, World(r, r, g, gs, y, ys, o, os))
    BY <1>1, <1>3
  <2>2. \E v, vs : /\ Leads(FALSE, c, World(r, r, g, gs, y, ys, o, os), Unmark(k),
                             World(r, r, g, gs, v, vs, o, os))
                   /\ Fine(c, World(r, r, g, gs, v, vs, o, os))
    <3> HIDE DEF S, T
    <3> QED
      BY ONLY <2>1, UnmarkLeads
  <2> QED
    BY <2>2
<1>5. PICK q : Leads(FALSE, c, World(r, r, g, gs, v, vs, o, os), T, q)
  BY <1>3, <1>4, DropLeads
<1> HIDE DEF S, T
<1>6. Leads(FALSE, c, World(r, r, g, gs, y, ys, o, os), S \o T, q)
  BY <1>4, <1>5, LeadsJoin
<1>7. Resting(c, q)
  BY DEF Resting
<1> QED
  BY <1>1, <1>2, <1>6, <1>7

(* While no root knows of a product, `ready` may be anything.              *)
Unowned(x, os) == \A k : \A b \in os : OwnerOK(x, k, b)

LEMMA AnyReady ==
    ASSUME NEW c, NEW x, ~ Done(x), NEW k,
           NEW r, NEW rs, NEW g, NEW gs, NEW y, NEW ys, NEW o, NEW os, NEW v, NEW w,
           v = {k}, w = ys \cup v, rs = {x}, Unowned(x, os),
           Fine(c, World(r, rs, g, gs, y, ys, o, os))
    PROVE  /\ Leads(FALSE, c, World(r, rs, g, gs, y, ys, o, os), <<Put("ready", k)>>,
                    World(r, rs, g, gs, v, w, o, os))
           /\ Fine(c, World(r, rs, g, gs, v, w, o, os))
<1>1. \A i \in rs : ReadyOK(i, k)
  BY DEF ReadyOK
<1>2. \A i \in rs, b \in os : OwnerOK(i, k, b)
  BY DEF Unowned
<1>3. Marked(rs, w)
  BY NoneMarked
<1>4. Leads(FALSE, c, World(r, rs, g, gs, y, ys, o, os), <<Put("ready", k)>>,
            World(r, rs, g, gs, v, w, o, os))
  BY ONLY v = {k}, w = ys \cup v, Fine(c, World(r, rs, g, gs, y, ys, o, os)),
          <1>1, <1>2, <1>3, PutReady
<1> QED
  BY <1>4, LeadsFine

(* What an earlier finish left in ready is removed.                        *)
LEMMA ClearLeads ==
    ASSUME NEW c, NEW x, ~ Done(x),
           NEW r, NEW rs, NEW g, NEW gs, NEW y, NEW ys, NEW o, NEW os,
           y = {disk.ready}, rs = {x}, Unowned(x, os),
           Fine(c, World(r, rs, g, gs, y, ys, o, os))
    PROVE  \E v, vs : /\ Leads(FALSE, c, World(r, rs, g, gs, y, ys, o, os), ClearReady,
                               World(r, rs, g, gs, v, vs, o, os))
                      /\ Fine(c, World(r, rs, g, gs, v, vs, o, os))
<1> DEFINE n == None
           T == Torn(disk.ready)
           v == {n}
           ts == ys \cup T
           w == ts \cup v
<1>1. ClearReady = IF disk.ready = n THEN <<>> ELSE <<Write("ready", T), Put("ready", n)>>
  BY DEF ClearReady
<1>2. v = {n} /\ ts = ys \cup T /\ w = ts \cup v
  OBVIOUS
<1> HIDE DEF n, T, v, ts, w
<1>3. CASE disk.ready = n
  <2>1. Leads(FALSE, c, World(r, rs, g, gs, y, ys, o, os), <<>>, World(r, rs, g, gs, y, ys, o, os))
    BY LeadsNowhere
  <2> QED
    BY <1>1, <1>3, <2>1
<1>4. CASE disk.ready # n
  <2>1. \A i \in rs, k \in T : ReadyOK(i, k)
    BY DEF ReadyOK
  <2>2. \A i \in rs, k \in T, b \in os : OwnerOK(i, k, b)
    BY DEF Unowned
  <2>3. Marked(rs, ts)
    BY NoneMarked
  <2>4. Leads(FALSE, c, World(r, rs, g, gs, y, ys, o, os), <<Write("ready", T)>>,
              World(r, rs, g, gs, T, ts, o, os))
    BY <1>2, <2>1, <2>2, <2>3, WriteReady
  <2>5. Fine(c, World(r, rs, g, gs, T, ts, o, os))
    BY <2>4, LeadsFine
  <2>6. /\ Leads(FALSE, c, World(r, rs, g, gs, T, ts, o, os), <<Put("ready", n)>>,
                 World(r, rs, g, gs, v, w, o, os))
        /\ Fine(c, World(r, rs, g, gs, v, w, o, os))
    BY <1>2, <2>5, AnyReady
  <2>7. Leads(FALSE, c, World(r, rs, g, gs, y, ys, o, os), <<Write("ready", T), Put("ready", n)>>,
              World(r, rs, g, gs, v, w, o, os))
    BY <2>4, <2>6, TwoSteps
  <2> QED
    BY <1>1, <1>4, <2>6, <2>7
<1> QED
  BY <1>3, <1>4

(* The product as FINISHED is about to name it.                            *)
SealedProduct ==
    Product(builder.state, disk.gens[builder.state.generation].rows, TRUE,
            disk.gens[builder.state.generation].rows)

(* The product is put together in ready.                                   *)
LEMMA MakeLeads ==
    ASSUME NEW c, NEW x, ~ Done(x),
           NEW r, NEW g, NEW gs, NEW y, NEW ys, NEW o, NEW os,
           r = {x}, Unowned(x, os),
           NEW v, v = {SealedProduct},
           Fine(c, World(r, r, g, gs, y, ys, o, os))
    PROVE  /\ Leads(FALSE, c, World(r, r, g, gs, y, ys, o, os), MakeReady,
                    World(r, r, g, gs, v, v, o, os))
           /\ Fine(c, World(r, r, g, gs, v, v, o, os))
<1> DEFINE rows == disk.gens[builder.state.generation].rows
           k1 == Product(Blank, NoManifest, FALSE, NoManifest)
           k2 == Product(Blank, rows, TRUE, NoManifest)
           k3 == Product(builder.state, rows, TRUE, NoManifest)
           k4 == SealedProduct
           v1 == {k1}
           v2 == {k2}
           v3 == {k3}
           w1 == ys \cup v1
           w2 == w1 \cup v2
           w3 == w2 \cup v3
           w4 == w3 \cup v
           s1 == Put("ready", k1)
           s2 == Put("ready", k2)
           s3 == Put("ready", k3)
           s4 == Put("ready", k4)
           s5 == Sync("root")
           s6 == Sync("ready")
           u0 == World(r, r, g, gs, y, ys, o, os)
           u1 == World(r, r, g, gs, v1, w1, o, os)
           u2 == World(r, r, g, gs, v2, w2, o, os)
           u3 == World(r, r, g, gs, v3, w3, o, os)
           u4 == World(r, r, g, gs, v, w4, o, os)
           u5 == World(r, r, g, gs, v, v, o, os)
<1>1. MakeReady = <<s1, s2, s3, s4, s5, s6>>
  BY DEF MakeReady, SealedProduct
<1>2. /\ v1 = {k1} /\ v2 = {k2} /\ v3 = {k3} /\ v = {k4}
      /\ w1 = ys \cup v1 /\ w2 = w1 \cup v2 /\ w3 = w2 \cup v3 /\ w4 = w3 \cup v
  OBVIOUS
<1> HIDE DEF rows, k1, k2, k3, k4, v1, v2, v3, w1, w2, w3, w4
<1>3. Leads(FALSE, c, u0, <<s1>>, u1) /\ Fine(c, u1)
  BY <1>2, AnyReady
<1>4. Leads(FALSE, c, u1, <<s2>>, u2) /\ Fine(c, u2)
  <2>1. v2 = {k2} /\ w2 = w1 \cup v2
    BY <1>2
  <2> QED
    BY ONLY ~ Done(x), r = {x}, Unowned(x, os), <1>3, <2>1, AnyReady
<1>5. Leads(FALSE, c, u2, <<s3>>, u3) /\ Fine(c, u3)
  <2>1. v3 = {k3} /\ w3 = w2 \cup v3
    BY <1>2
  <2> QED
    BY ONLY ~ Done(x), r = {x}, Unowned(x, os), <1>4, <2>1, AnyReady
<1>6. Leads(FALSE, c, u3, <<s4>>, u4) /\ Fine(c, u4)
  <2>1. v = {k4} /\ w4 = w3 \cup v
    BY <1>2
  <2> QED
    BY ONLY ~ Done(x), r = {x}, Unowned(x, os), <1>5, <2>1, AnyReady
<1>7. Leads(FALSE, c, u4, <<s5>>, u4)
  BY <1>6, SyncRoot
<1>8. Leads(FALSE, c, u4, <<s6>>, u5)
  BY <1>6, SyncReady
<1>9. Fine(c, u5)
  BY <1>8, LeadsFine
<1> HIDE DEF s1, s2, s3, s4, s5, s6, u0, u1, u2, u3, u4, u5
<1>10. Leads(FALSE, c, u0, <<s1, s2, s3, s4, s5, s6>>, u5)
  BY <1>3, <1>4, <1>5, <1>6, <1>7, <1>8, SixSteps
<1>11. Leads(FALSE, c, u0, MakeReady, u5)
  BY <1>1, <1>10
<1> QED
  BY <1>9, <1>11 DEF u0, u5

(* The root once FINISHED is there.                                        *)
LEMMA FinishedRoot ==
    ASSUME NEW c, NEW d, RootOK(c, d), HasCurrent(d), ~ Done(d), NEW s, s = d.current,
           NEW n, n = [marker |-> d.marker, current |-> d.current, finished |-> s],
           NEW p, p = Product(s, s.manifest, TRUE, s.manifest)
    PROVE  /\ RootOK(c, n) /\ HasCurrent(n) /\ Done(n) /\ \A k : GensOK(n, k)
           /\ ReadyOK(n, p) /\ ~ Unmarked(p) /\ \A b : OwnerOK(n, p, b)
<1>1. /\ d = [marker |-> d.marker, current |-> d.current, finished |-> d.finished]
      /\ d # None /\ d.current # None /\ StateOK(s)
  BY DEF RootOK, HasCurrent
<1>3. n # None
  BY Shapes
<1>4. n.current = s /\ n.marker = d.marker /\ n.finished = s
  OBVIOUS
<1>5. HasCurrent(n) /\ Done(n)
  BY <1>1, <1>3, <1>4 DEF HasCurrent, Done
<1>6. RootOK(c, n)
  <2>1. n = [marker |-> n.marker, current |-> n.current, finished |-> n.finished]
    OBVIOUS
  <2>2. n.marker \in BOOLEAN /\ n.marker
    BY <1>1, <1>4 DEF RootOK
  <2>3. /\ c.acked > 0 => n.current.cursor >= c.acked
        /\ c.offered # None => Fits(c.offered, n.current)
    BY <1>4 DEF RootOK
  <2> QED
    BY <1>1, <1>4, <1>5, <2>1, <2>2, <2>3 DEF RootOK
<1>7. \A k : GensOK(n, k)
  BY <1>5 DEF GensOK
<1>8. /\ p.work = s /\ p.rows = s.manifest /\ p.whole = TRUE /\ p.sealed = s.manifest
      /\ p.bound = FALSE /\ p.changed = FALSE
  BY DEF Product
<1>9. p = [work |-> p.work, rows |-> n.finished.manifest, whole |-> TRUE,
           sealed |-> p.sealed, bound |-> p.bound, changed |-> p.changed]
  BY <1>4, <1>8 DEF Product
<1>10. ReadyOK(n, p)
  BY <1>4, <1>8, <1>9 DEF ReadyOK
<1>11. s.manifest # NoManifest
  <2>1. s = State(s.generation, s.cursor, s.previous, Records(0, s.cursor)) /\ s.cursor \in Nat
    BY <1>1 DEF StateOK
  <2>2. s.manifest = Records(0, s.cursor)
    BY <2>1 DEF State
  <2> QED
    BY <2>1, <2>2, RecordsAre
<1>12. Sealed(p)
  BY <1>8, <1>11 DEF Sealed
<1>13. \A b : OwnerOK(n, p, b)
  BY <1>5, <1>8, <1>12 DEF OwnerOK
<1>14. ~ Unmarked(p)
  BY <1>1, <1>8 DEF Unmarked
<1> QED
  BY <1>5, <1>6, <1>7, <1>10, <1>13, <1>14

(* finish: the product is sealed before FINISHED is published.             *)
LEMMA FinishNewLeads ==
    ASSUME NEW c, GoodNow(c), c.kind = "finish", HasCurrent(disk.root), ~ Done(disk.root),
           settled.root = {disk.root}, builder.state = disk.root.current, ~ builder.finished
    PROVE  \E q : Leads(FALSE, c, Here, FinishSteps, q) /\ Resting(c, q)
<1> DEFINE d == disk.root
           s == d.current
           n == [marker |-> d.marker, current |-> d.current, finished |-> s]
           p == Product(s, s.manifest, TRUE, s.manifest)
           r == {d}
           r2 == {n}
           g == {disk.gens}
           gs == settled.gens
           y == {disk.ready}
           ys == settled.ready
           o == {disk.owner}
           os == settled.owner
           v == {p}
           X == {<<>>} \cup TornIn(disk.gens, DOMAIN disk.gens)
           A == ClearReady
           B == MakeReady
           C == Publish("root", n)
           E == Unmark(p)
           F == Leniently(<<Write("gens", X), Sync("root")>>)
<1>1. /\ Fine(c, World(r, r, g, gs, y, ys, o, os)) /\ Good(c, r, gs, ys, os)
      /\ Here = World(r, r, g, gs, y, ys, o, os) /\ RootOK(c, d) /\ disk.ready \in ys
  BY HereFine DEF Here, GoodNow
<1>2. /\ RootOK(c, n) /\ HasCurrent(n) /\ Done(n) /\ \A k : GensOK(n, k)
      /\ ReadyOK(n, p) /\ ~ Unmarked(p) /\ \A b : OwnerOK(n, p, b)
  <2>1. /\ RootOK(c, d) /\ HasCurrent(d) /\ ~ Done(d) /\ s = d.current
        /\ n = [marker |-> d.marker, current |-> d.current, finished |-> s]
        /\ p = Product(s, s.manifest, TRUE, s.manifest)
    BY <1>1
  <2> HIDE DEF d, s, n, p
  <2> QED
    BY ONLY <2>1, FinishedRoot
<1>3. /\ disk.gens[s.generation].rows = s.manifest
      /\ disk.gens[s.generation].whole = TRUE
  <2>1. disk.gens[s.generation] = Generation(s, s.manifest, TRUE)
    BY HereFine DEF GensOK
  <2> QED
    BY <2>1 DEF Generation
<1>4. SealedProduct = p
  BY <1>3 DEF SealedProduct
<1>5. FinishSteps = A \o B \o C \o E \o F
  <2>1. ~ builder.finished /\ builder.state = s /\ disk.gens[builder.state.generation].whole
    BY <1>3
  <2>2. [disk.root EXCEPT !.finished = builder.state] = n
    <3>1. d = [marker |-> d.marker, current |-> d.current, finished |-> d.finished]
      BY <1>1 DEF RootOK, HasCurrent
    <3>2. disk.root = d /\ builder.state = s
      OBVIOUS
    <3> HIDE DEF d, s
    <3>3. [d EXCEPT !.finished = s] = n
      BY <3>1
    <3> QED
      BY <3>2, <3>3
  <2>3. Product(builder.state, disk.gens[builder.state.generation].rows, TRUE,
                disk.gens[builder.state.generation].rows) = p
    BY <1>4 DEF SealedProduct
  <2> HIDE DEF n, p
  <2> QED
    BY <2>1, <2>2, <2>3 DEF FinishSteps, ReadySteps
<1>6. Unowned(d, os)
  <2>1. d \in r /\ ~ Done(d)
    OBVIOUS
  <2> HIDE DEF d, r, os, ys, gs
  <2>2. \A x : ~ Done(x) => /\ \A k : ReadyOK(x, k)
                            /\ \A k : \A b \in os : OwnerOK(x, k, b)
    BY <1>1, <2>1, Unfinished
  <2> QED
    BY <2>1, <2>2 DEF Unowned
<1>7. /\ r = {d} /\ ~ Done(d) /\ y = {disk.ready} /\ r2 = {n} /\ v = {p} /\ v = {SealedProduct}
  BY <1>4
<1> HIDE DEF d, s, n, p, r, r2, g, gs, y, ys, o, os, v, X
<1>8. PICK y2, z2 : /\ Leads(FALSE, c, World(r, r, g, gs, y, ys, o, os), A,
                             World(r, r, g, gs, y2, z2, o, os))
                    /\ Fine(c, World(r, r, g, gs, y2, z2, o, os))
  <2>1. ~ Done(d) /\ y = {disk.ready} /\ r = {d}
    BY <1>7
  <2> QED
    BY <1>1, <1>6, <2>1, ClearLeads
<1>9. /\ Leads(FALSE, c, World(r, r, g, gs, y2, z2, o, os), B, World(r, r, g, gs, v, v, o, os))
      /\ Fine(c, World(r, r, g, gs, v, v, o, os))
  <2>1. ~ Done(d) /\ r = {d} /\ v = {SealedProduct}
    BY <1>7
  <2> QED
    BY <1>6, <1>8, <2>1, MakeLeads
<1>10. /\ Leads(FALSE, c, World(r, r, g, gs, v, v, o, os), C, World(r2, r2, g, gs, v, v, o, os))
       /\ Fine(c, World(r2, r2, g, gs, v, v, o, os))
  <2>1. r2 = {n} /\ RootOK(c, n)
    BY <1>2, <1>7
  <2>2. \A k \in gs : GensOK(n, k)
    BY <1>2
  <2>3. \A k \in v : ReadyOK(n, k)
    BY <1>2, <1>7
  <2>4. \A k \in v, b \in os : OwnerOK(n, k, b)
    BY <1>2, <1>7
  <2>5. Marked(r \cup r2, v)
    BY <1>2, <1>7 DEF Marked
  <2> QED
    BY <1>9, <2>1, <2>2, <2>3, <2>4, <2>5, PublishRoot
<1>11. PICK y3, z3 : /\ Leads(FALSE, c, World(r2, r2, g, gs, v, v, o, os), E,
                              World(r2, r2, g, gs, y3, z3, o, os))
                     /\ Fine(c, World(r2, r2, g, gs, y3, z3, o, os))
  <2>1. r2 = {n} /\ Done(n) /\ v = {p} /\ Fine(c, World(r2, r2, g, gs, v, v, o, os))
    BY <1>2, <1>7, <1>10
  <2>2. \E y3, z3 : /\ Leads(FALSE, c, World(r2, r2, g, gs, v, v, o, os), Unmark(p),
                             World(r2, r2, g, gs, y3, z3, o, os))
                    /\ Fine(c, World(r2, r2, g, gs, y3, z3, o, os))
    <3> HIDE DEF A, B, C, E, F
    <3> QED
      BY ONLY <2>1, UnmarkLeads
  <2> QED
    BY <2>2
<1>12. PICK q : Leads(FALSE, c, World(r2, r2, g, gs, y3, z3, o, os), F, q)
  <2>1. r2 = {n} /\ Done(n) /\ HasCurrent(n)
    BY <1>2, <1>7
  <2> QED
    BY <1>11, <2>1, DropLeads
<1> HIDE DEF A, B, C, E, F
<1>13. Leads(FALSE, c, World(r, r, g, gs, y, ys, o, os), A \o B \o C \o E \o F, q)
  BY <1>8, <1>9, <1>10, <1>11, <1>12, FiveCalls
<1>14. Resting(c, q)
  BY DEF Resting
<1> QED
  BY <1>1, <1>5, <1>13, <1>14

(* The product in the hands of its owner.                                  *)
LEMMA Taking ==
    ASSUME NEW x, NEW k, NEW f, Done(x), ReadyOK(x, k)
    PROVE  ReadyOK(x, Taken(k, f)) /\ Taken(k, f).bound
<1> DEFINE t == TRUE
           z == k.changed \/ f
           m == [work |-> k.work, rows |-> k.rows, whole |-> k.whole, sealed |-> k.sealed,
                 bound |-> t, changed |-> z]
<1>1. Taken(k, f) = [k EXCEPT !.bound = t, !.changed = z]
  BY DEF Taken
<1>2. t
  OBVIOUS
<1> HIDE DEF t, z
<1>3. /\ k = [work |-> k.work, rows |-> k.rows, whole |-> k.whole, sealed |-> k.sealed,
              bound |-> k.bound, changed |-> k.changed]
      /\ k.rows = x.finished.manifest /\ k.whole = TRUE
  <2>1. k = [work |-> k.work, rows |-> x.finished.manifest, whole |-> TRUE,
             sealed |-> k.sealed, bound |-> k.bound, changed |-> k.changed]
    BY DEF ReadyOK
  <2>2. k.rows = x.finished.manifest /\ k.whole = TRUE
    BY <2>1
  <2> QED
    BY <2>1, <2>2
<1>4. Taken(k, f) = m
  BY <1>1, <1>3
<1>5. m.work = k.work /\ m.rows = k.rows /\ m.whole = k.whole /\ m.sealed = k.sealed /\ m.bound = t
  OBVIOUS
<1>6. m = [work |-> m.work, rows |-> x.finished.manifest, whole |-> TRUE,
           sealed |-> m.sealed, bound |-> m.bound, changed |-> m.changed]
  BY <1>3, <1>5
<1>7. ReadyOK(x, m)
  BY <1>5, <1>6 DEF ReadyOK
<1> QED
  BY <1>2, <1>4, <1>5, <1>7

UnsealedReady(k) == [k EXCEPT !.sealed = NoManifest]

(* SEALED goes once the owner has its binding.                             *)
LEMMA Unsealing ==
    ASSUME NEW x, NEW k, Done(x), ReadyOK(x, k), k.bound
    PROVE  ReadyOK(x, UnsealedReady(k)) /\ UnsealedReady(k).bound
<1> DEFINE z == NoManifest
           m == [work |-> k.work, rows |-> k.rows, whole |-> k.whole, sealed |-> z,
                 bound |-> k.bound, changed |-> k.changed]
<1>1. UnsealedReady(k) = [k EXCEPT !.sealed = z]
  BY DEF UnsealedReady
<1> HIDE DEF z
<1>2. /\ k = [work |-> k.work, rows |-> k.rows, whole |-> k.whole, sealed |-> k.sealed,
              bound |-> k.bound, changed |-> k.changed]
      /\ k.rows = x.finished.manifest /\ k.whole = TRUE
  <2>1. k = [work |-> k.work, rows |-> x.finished.manifest, whole |-> TRUE,
             sealed |-> k.sealed, bound |-> k.bound, changed |-> k.changed]
    BY DEF ReadyOK
  <2>2. k.rows = x.finished.manifest /\ k.whole = TRUE
    BY <2>1
  <2> QED
    BY <2>1, <2>2
<1>3. UnsealedReady(k) = m
  BY <1>1, <1>2
<1>4. m.work = k.work /\ m.rows = k.rows /\ m.whole = k.whole /\ m.bound = k.bound
  OBVIOUS
<1>5. m = [work |-> m.work, rows |-> x.finished.manifest, whole |-> TRUE,
           sealed |-> m.sealed, bound |-> m.bound, changed |-> m.changed]
  BY <1>2, <1>4
<1>6. ReadyOK(x, m)
  BY <1>4, <1>5 DEF ReadyOK
<1> QED
  BY <1>3, <1>4, <1>6

(* Binding a product that is registered.                                   *)
LEMMA BoundLeads ==
    ASSUME NEW c, NEW m,
           NEW r, NEW rs, NEW g, NEW gs, NEW y, NEW ys, NEW o, NEW os, NEW v, v = {m},
           \A x \in rs : Done(x) /\ ReadyOK(x, m), m.bound, \A b \in os : b,
           Fine(c, World(r, rs, g, gs, y, ys, o, os))
    PROVE  /\ Leads(FALSE, c, World(r, rs, g, gs, y, ys, o, os), Publish("ready", m),
                    World(r, rs, g, gs, v, v, o, os))
           /\ Fine(c, World(r, rs, g, gs, v, v, o, os))
<1>1. \A i \in rs : ReadyOK(i, m)
  OBVIOUS
<1>2. \A i \in rs, b \in os : OwnerOK(i, m, b)
  BY DEF OwnerOK
<1>3. Marked(rs, ys \cup v)
  BY AllMarked
<1> QED
  BY ONLY v = {m}, Fine(c, World(r, rs, g, gs, y, ys, o, os)), <1>1, <1>2, <1>3, PublishReady

(* Four lists, one after the other.                                        *)
LEMMA FourCalls ==
    ASSUME NEW calm, NEW c, NEW p, NEW A, NEW q, NEW B, NEW r, NEW C, NEW s, NEW E, NEW t,
           Leads(calm, c, p, A, q), Leads(calm, c, q, B, r), Leads(calm, c, r, C, s),
           Leads(calm, c, s, E, t)
    PROVE  Leads(calm, c, p, A \o B \o C \o E, t)
<1> DEFINE AB == A \o B
           ABC == AB \o C
           All == ABC \o E
<1>1. Leads(calm, c, p, AB, r)
  BY LeadsJoin
<1> HIDE DEF AB
<1>2. Leads(calm, c, p, ABC, s)
  BY <1>1, LeadsJoin
<1> HIDE DEF ABC
<1>3. Leads(calm, c, p, All, t)
  BY <1>2, LeadsJoin
<1> QED
  BY <1>3 DEF AB, ABC

(* import: registered first, bound, and unsealed last.                     *)
LEMMA ImportLeads ==
    ASSUME NEW c, GoodNow(c), c.kind = "import", Done(disk.root),
           disk.ready # None, disk.ready.work = None,
           NEW takeover \in BOOLEAN
    PROVE  \E q : Leads(FALSE, c, Here, ImportSteps(takeover), q) /\ Resting(c, q)
<1> DEFINE d == disk.root
           k == disk.ready
           r == {d}
           rs == settled.root
           g == {disk.gens}
           gs == settled.gens
           y == {k}
           ys == settled.ready
           o == {disk.owner}
           os == settled.owner
           no == FALSE
           yes == TRUE
           k1 == Taken(k, no)
           k2 == Taken(k, yes)
           k3 == UnsealedReady(Taken(k, takeover))
           v1 == {k1}
           v2 == {k2}
           v3 == {k3}
           o2 == {TRUE}
           A == <<Sync("owner"), Sync("ready")>>
           B1 == IF disk.owner THEN <<>> ELSE Publish("owner", TRUE)
           B2 == Publish("ready", k1)
           B == IF k.bound THEN IF disk.owner THEN <<>> ELSE <<Refuse>> ELSE B1 \o B2
           C == IF takeover THEN Publish("ready", k2) ELSE <<>>
           E == Publish("ready", k3)
<1>1. /\ Fine(c, World(r, rs, g, gs, y, ys, o, os)) /\ Good(c, rs, gs, ys, os)
      /\ Here = World(r, rs, g, gs, y, ys, o, os)
      /\ d \in rs /\ k \in ys /\ disk.owner \in os
  BY HereFine DEF Here, GoodNow
<1>2. /\ \A x \in rs : Done(x)
      /\ \A x \in rs : ReadyOK(x, k)
  <2>1. Unmarked(k)
    BY DEF Unmarked
  <2>2. \A x \in rs : Done(x)
    BY <1>1, <2>1 DEF Good, Marked
  <2> QED
    BY <1>1, <2>2 DEF Good
<1>3. k.bound => disk.owner
  BY <1>1 DEF Good, OwnerOK
<1>4. ImportSteps(takeover) = A \o B \o C \o E
  BY DEF ImportSteps, UnsealedReady
<1>5. /\ \A x \in rs : ReadyOK(x, k1) /\ ReadyOK(x, k2) /\ ReadyOK(x, k3)
      /\ k1.bound /\ k2.bound /\ k3.bound
  <2> HIDE DEF no, yes, k, rs
  <2>1. \A x \in rs : \A f : ReadyOK(x, Taken(k, f)) /\ Taken(k, f).bound
    BY <1>2, Taking
  <2>2. \A x \in rs : \A f : ReadyOK(x, UnsealedReady(Taken(k, f))) /\ UnsealedReady(Taken(k, f)).bound
    BY <1>2, <2>1, Unsealing
  <2>3. d \in rs
    BY <1>1
  <2> QED
    BY <2>1, <2>2, <2>3
<1>6. /\ v1 = {k1} /\ v2 = {k2} /\ v3 = {k3} /\ y = {k} /\ o = {disk.owner} /\ o2 = {TRUE}
      /\ \A b \in o2 : b
      /\ disk.owner => \A b \in o : b
  OBVIOUS
<1> HIDE DEF d, k, r, rs, g, gs, y, ys, o, os, no, yes, k1, k2, k3, v1, v2, v3, o2
<1>7. /\ Leads(FALSE, c, World(r, rs, g, gs, y, ys, o, os), A, World(r, rs, g, gs, y, y, o, o))
      /\ Fine(c, World(r, rs, g, gs, y, y, o, o))
  <2>1. Leads(FALSE, c, World(r, rs, g, gs, y, ys, o, os), <<Sync("owner")>>,
              World(r, rs, g, gs, y, ys, o, o))
    BY <1>1, SyncOwner
  <2>2. Fine(c, World(r, rs, g, gs, y, ys, o, o))
    BY <2>1, LeadsFine
  <2>3. Leads(FALSE, c, World(r, rs, g, gs, y, ys, o, o), <<Sync("ready")>>,
              World(r, rs, g, gs, y, y, o, o))
    BY <2>2, SyncReady
  <2>4. Leads(FALSE, c, World(r, rs, g, gs, y, ys, o, os), <<Sync("owner"), Sync("ready")>>,
              World(r, rs, g, gs, y, y, o, o))
    BY <2>1, <2>3, TwoSteps
  <2>5. Fine(c, World(r, rs, g, gs, y, y, o, o))
    BY <2>3, LeadsFine
  <2> QED
    BY <2>4, <2>5
<1>8. PICK y2, p2 : /\ Leads(FALSE, c, World(r, rs, g, gs, y, y, o, o), B,
                             World(r, rs, g, gs, y2, y2, p2, p2))
                    /\ Fine(c, World(r, rs, g, gs, y2, y2, p2, p2))
                    /\ \A b \in p2 : b
  <2>1. CASE k.bound
    <3>1. B = <<>> /\ \A b \in o : b
      BY <1>3, <1>6, <2>1
    <3>2. Leads(FALSE, c, World(r, rs, g, gs, y, y, o, o), <<>>, World(r, rs, g, gs, y, y, o, o))
      BY <1>7, LeadsNowhere
    <3> QED
      BY <1>7, <3>1, <3>2
  <2>2. CASE ~ k.bound
    <3>1. PICK p2 : /\ Leads(FALSE, c, World(r, rs, g, gs, y, y, o, o), B1,
                             World(r, rs, g, gs, y, y, p2, p2))
                    /\ Fine(c, World(r, rs, g, gs, y, y, p2, p2))
                    /\ \A b \in p2 : b
      <4>1. CASE disk.owner
        <5>1. B1 = <<>> /\ \A b \in o : b
          BY <1>6, <4>1
        <5>2. Leads(FALSE, c, World(r, rs, g, gs, y, y, o, o), <<>>, World(r, rs, g, gs, y, y, o, o))
          BY <1>7, LeadsNowhere
        <5> QED
          BY <1>7, <5>1, <5>2
      <4>2. CASE ~ disk.owner
        <5>1. B1 = Publish("owner", TRUE)
          BY <4>2
        <5>2. \A i \in rs, j \in y : OwnerOK(i, j, TRUE)
          <6>1. Good(c, rs, gs, ys, os) /\ k \in ys /\ disk.owner \in os
            BY <1>1
          <6>2. \A i \in rs : OwnerOK(i, k, disk.owner)
            BY <6>1 DEF Good
          <6>3. \A i \in rs : OwnerOK(i, k, TRUE)
            BY <1>2, <6>2 DEF OwnerOK
          <6> QED
            BY <1>6, <6>3
        <5>3. o2 = {TRUE} /\ \A b \in o2 : b
          BY <1>6
        <5>4. /\ Leads(FALSE, c, World(r, rs, g, gs, y, y, o, o), Publish("owner", TRUE),
                       World(r, rs, g, gs, y, y, o2, o2))
              /\ Fine(c, World(r, rs, g, gs, y, y, o2, o2))
          BY <1>7, <5>2, <5>3, PublishOwner
        <5> QED
          BY <5>1, <5>3, <5>4
      <4> QED
        BY <4>1, <4>2
    <3>2. /\ v1 = {k1} /\ k1.bound
          /\ \A x \in rs : Done(x) /\ ReadyOK(x, k1)
      BY <1>2, <1>5, <1>6
    <3>3. /\ Leads(FALSE, c, World(r, rs, g, gs, y, y, p2, p2), B2,
                   World(r, rs, g, gs, v1, v1, p2, p2))
          /\ Fine(c, World(r, rs, g, gs, v1, v1, p2, p2))
      BY <3>1, <3>2, BoundLeads
    <3>4. B = B1 \o B2
      BY <2>2
    <3> HIDE DEF B, B1, B2
    <3>5. Leads(FALSE, c, World(r, rs, g, gs, y, y, o, o), B1 \o B2,
                World(r, rs, g, gs, v1, v1, p2, p2))
      BY <3>1, <3>3, LeadsJoin
    <3> QED
      BY <3>1, <3>3, <3>4, <3>5
  <2> QED
    BY <2>1, <2>2
<1>9. PICK y3 : /\ Leads(FALSE, c, World(r, rs, g, gs, y2, y2, p2, p2), C,
                         World(r, rs, g, gs, y3, y3, p2, p2))
                /\ Fine(c, World(r, rs, g, gs, y3, y3, p2, p2))
  <2>1. CASE takeover
    <3>1. C = Publish("ready", k2)
      BY <2>1
    <3>2. /\ v2 = {k2} /\ k2.bound
          /\ \A x \in rs : Done(x) /\ ReadyOK(x, k2)
      BY <1>2, <1>5, <1>6
    <3>3. /\ Leads(FALSE, c, World(r, rs, g, gs, y2, y2, p2, p2), Publish("ready", k2),
                   World(r, rs, g, gs, v2, v2, p2, p2))
          /\ Fine(c, World(r, rs, g, gs, v2, v2, p2, p2))
      BY <1>8, <3>2, BoundLeads
    <3> QED
      BY <3>1, <3>3
  <2>2. CASE ~ takeover
    <3>1. C = <<>>
      BY <2>2
    <3>2. Leads(FALSE, c, World(r, rs, g, gs, y2, y2, p2, p2), <<>>,
                World(r, rs, g, gs, y2, y2, p2, p2))
      BY <1>8, LeadsNowhere
    <3> QED
      BY <1>8, <3>1, <3>2
  <2> QED
    BY <2>1, <2>2
<1>10. Leads(FALSE, c, World(r, rs, g, gs, y3, y3, p2, p2), E, World(r, rs, g, gs, v3, v3, p2, p2))
  <2>1. /\ v3 = {k3} /\ k3.bound
        /\ \A x \in rs : Done(x) /\ ReadyOK(x, k3)
    BY <1>2, <1>5, <1>6
  <2> QED
    BY <1>8, <1>9, <2>1, BoundLeads
<1> HIDE DEF A, B, C, E
<1>11. Leads(FALSE, c, World(r, rs, g, gs, y, ys, o, os), A \o B \o C \o E,
             World(r, rs, g, gs, v3, v3, p2, p2))
  BY <1>7, <1>8, <1>9, <1>10, FourCalls
<1>12. Resting(c, World(r, rs, g, gs, v3, v3, p2, p2))
  BY DEF Resting
<1> QED
  BY <1>1, <1>4, <1>11, <1>12

-----------------------------------------------------------------------------
(* The invariant.                                                          *)
Call == [kind |-> IF job = None THEN "none" ELSE job.kind, acked |-> acked, offered |-> offered]
At(p) == \A a \in Areas : disk[a] \in p.at[a] /\ settled[a] \subseteq p.may[a]
Going(c, todo) == \E p, q : At(p) /\ Leads(FALSE, c, p, todo, q) /\ Resting(c, q)

Shaped ==
    /\ OnAreas(disk) /\ OnAreas(settled)
    /\ \A a \in Areas : disk[a] \in settled[a]
    /\ acked \in Nat /\ ~ broken

(* What is left of the call that runs can be made.                         *)
JobOK ==
    job # None =>
        /\ job = [kind |-> job.kind, todo |-> job.todo]
        /\ job.kind \in {"install", "open", "apply", "finish", "import"}
        /\ Going(Call, job.todo)

(* A builder that may go on knows what CURRENT names.                      *)
Knowing(b) ==
    /\ settled.root = {disk.root} /\ HasCurrent(disk.root)
    /\ ~ Done(disk.root) => DOMAIN disk.gens \subseteq 0 .. disk.root.current.generation
    /\ b.state = disk.root.current /\ (b.finished <=> Done(disk.root))
BuilderOK ==
    builder # None =>
        /\ builder = [state |-> builder.state, poisoned |-> builder.poisoned,
                      finished |-> builder.finished]
        /\ ~ builder.finished /\ offered # None => Fits(offered, builder.state)
        /\ job = None /\ ~ builder.poisoned => Knowing(builder)
        /\ job # None => job.kind \in {"apply", "finish"}

IInv == Shaped /\ GoodNow(Call) /\ JobOK /\ BuilderOK

(* The domain of a record of the areas.                                    *)
LEMMA AreasHere == \A f : OnAreas(f) => DOMAIN f = {"root", "gens", "ready", "owner"}
BY DEF OnAreas, Areas

(* What is good depends on what was acknowledged and offered only.         *)
LEMMA SameCall ==
    ASSUME NEW c, NEW d, c.acked = d.acked, c.offered = d.offered, GoodNow(c)
    PROVE  GoodNow(d)
<1>1. \A r : RootOK(c, r) => RootOK(d, r)
  BY DEF RootOK
<1> QED
  BY <1>1 DEF GoodNow, Good

(* The world of this moment.                                               *)
LEMMA AtHere ==
    ASSUME Shaped
    PROVE  At(Here)
<1> DEFINE p == Here
<1>1. /\ p.at["root"] = {disk.root} /\ p.at["gens"] = {disk.gens}
      /\ p.at["ready"] = {disk.ready} /\ p.at["owner"] = {disk.owner}
      /\ p.may["root"] = settled.root /\ p.may["gens"] = settled.gens
      /\ p.may["ready"] = settled.ready /\ p.may["owner"] = settled.owner
  BY DEF Here, World
<1> HIDE DEF p
<1>2. At(p)
  BY <1>1 DEF At, Areas
<1> QED
  BY <1>2 DEF p

(* Nothing is there at first.                                              *)
LEMMA GoodAtFirst ==
    ASSUME Init
    PROVE  IInv
<1> DEFINE r == None
           g == <<>>
           b == FALSE
<1>1. /\ disk = [gens |-> g, root |-> r, ready |-> r, owner |-> b]
      /\ settled = [a \in Areas |-> {disk[a]}]
      /\ acked = 0 /\ offered = None /\ ~ broken /\ job = None /\ builder = None
  BY DEF Init, Nothing
<1>2. DOMAIN g = {} /\ r = None /\ b = FALSE
  OBVIOUS
<1> HIDE DEF r, g, b
<1>3. /\ disk.root = r /\ disk.gens = g /\ disk.ready = r /\ disk.owner = b
      /\ settled.root = {r} /\ settled.gens = {g} /\ settled.ready = {r} /\ settled.owner = {b}
  BY <1>1 DEF Areas
<1>4. Shaped
  BY <1>1, <1>2 DEF Shaped, OnAreas, Areas
<1>5. ~ HasCurrent(r) /\ ~ Done(r)
  BY <1>2 DEF HasCurrent, Done
<1>6. Call.acked = 0 /\ Call.offered = None
  BY <1>1 DEF Call
<1>7. RootOK(Call, r)
  BY <1>2, <1>6 DEF RootOK
<1>8. GensOK(r, g) /\ ReadyOK(r, r) /\ OwnerOK(r, r, b)
  BY <1>2, <1>5 DEF GensOK, ReadyOK, OwnerOK
<1>9. Marked({r}, {r})
  BY <1>5 DEF Marked
<1>10. {b} \subseteq BOOLEAN
  BY <1>2
<1>11. Good(Call, {r}, {g}, {r}, {b})
  BY <1>7, <1>8, <1>9, <1>10 DEF Good
<1>12. GoodNow(Call)
  BY <1>3, <1>11 DEF GoodNow
<1> QED
  BY <1>1, <1>4, <1>12 DEF IInv, JobOK, BuilderOK

(* Starting a call.                                                        *)
LEMMA Starting ==
    ASSUME IInv, NEW kind \in {"install", "open", "apply", "finish", "import"}, NEW S,
           job' = [kind |-> kind, todo |-> S],
           UNCHANGED <<disk, settled, acked, broken>>,
           NEW c, c = Call', GoodNow(c),
           NEW p, p = Here, NEW q, Leads(FALSE, c, p, S, q), Resting(c, q)
    PROVE  Shaped' /\ GoodNow(Call)' /\ JobOK'
<1>1. Shaped'
  BY DEF IInv, Shaped, OnAreas
<1>2. GoodNow(Call)'
  BY DEF GoodNow
<1>3. At(p)
  BY AtHere DEF IInv
<1>4. At(p)'
  BY <1>3 DEF At
<1>5. job'.kind = kind /\ job'.todo = S
  OBVIOUS
<1>6. Going(Call, job.todo)'
  BY <1>4, <1>5 DEF Going
<1>7. JobOK'
  BY <1>5, <1>6 DEF JobOK
<1> QED
  BY <1>1, <1>2, <1>7

(* The first step of each call.                                            *)
LEMMA InstallStep ==
    ASSUME IInv, Install
    PROVE  IInv'
<1> PICK c : c = Call'
  OBVIOUS
<1> PICK p : p = Here
  OBVIOUS
<1>1. /\ job' = [kind |-> "install", todo |-> InstallSteps]
      /\ UNCHANGED <<disk, settled, acked, broken, builder, offered>> /\ builder = None
      /\ disk.root # None => disk.root.marker /\ disk.root.current = None
  BY DEF Install, Calling, Quiet
<1>2. c.acked = Call.acked /\ c.offered = Call.offered
  BY <1>1 DEF Call
<1>3. GoodNow(c)
  BY <1>2, SameCall DEF IInv
<1>4. PICK q : Leads(FALSE, c, p, InstallSteps, q) /\ Resting(c, q)
  BY <1>1, <1>3, InstallLeads
<1>5. Shaped' /\ GoodNow(Call)' /\ JobOK'
  BY <1>1, <1>3, <1>4, Starting
<1> QED
  BY <1>1, <1>5 DEF IInv, BuilderOK

LEMMA OpenStep ==
    ASSUME IInv, OpenBuilder
    PROVE  IInv'
<1> PICK c : c = Call'
  OBVIOUS
<1> PICK p : p = Here
  OBVIOUS
<1>1. /\ job' = [kind |-> "open", todo |-> OpenSteps]
      /\ UNCHANGED <<disk, settled, acked, broken, builder, offered>> /\ builder = None
      /\ HasCurrent(disk.root)
  BY DEF OpenBuilder, Calling, Quiet, HasCurrent
<1>2. c.acked = Call.acked /\ c.offered = Call.offered
  BY <1>1 DEF Call
<1>3. GoodNow(c)
  BY <1>2, SameCall DEF IInv
<1>4. PICK q : Leads(FALSE, c, p, OpenSteps, q) /\ Resting(c, q)
  BY <1>1, <1>3, OpenLeads
<1>5. Shaped' /\ GoodNow(Call)' /\ JobOK'
  BY <1>1, <1>3, <1>4, Starting
<1> QED
  BY <1>1, <1>5 DEF IInv, BuilderOK

LEMMA FinishStep ==
    ASSUME IInv, Finish
    PROVE  IInv'
<1> PICK c : c = Call'
  OBVIOUS
<1> PICK p : p = Here
  OBVIOUS
<1>1. /\ job' = [kind |-> "finish", todo |-> FinishSteps]
      /\ UNCHANGED <<disk, settled, acked, broken, builder, offered>>
      /\ job = None /\ builder # None /\ ~ builder.poisoned
  BY DEF Finish, Calling, Quiet
<1>2. c.acked = Call.acked /\ c.offered = Call.offered /\ c.kind = "finish"
  <2>1. job' # None /\ job'.kind = "finish"
    BY <1>1 DEF None
  <2> QED
    BY <1>1, <2>1 DEF Call
<1>3. GoodNow(c)
  BY <1>2, SameCall DEF IInv
<1>4. Knowing(builder)
  BY <1>1 DEF IInv, BuilderOK
<1>5. PICK q : Leads(FALSE, c, p, FinishSteps, q) /\ Resting(c, q)
  <2>1. /\ settled.root = {disk.root} /\ HasCurrent(disk.root)
        /\ builder.state = disk.root.current /\ (builder.finished <=> Done(disk.root))
    BY <1>4 DEF Knowing
  <2>2. CASE Done(disk.root)
    BY <1>2, <1>3, <2>1, <2>2, FinishAgainLeads
  <2>3. CASE ~ Done(disk.root)
    BY <1>2, <1>3, <2>1, <2>3, FinishNewLeads
  <2> QED
    BY <2>2, <2>3
<1>6. Shaped' /\ GoodNow(Call)' /\ JobOK'
  BY <1>1, <1>3, <1>5, Starting
<1>7. BuilderOK'
  <2>1. job' # None /\ job'.kind = "finish"
    BY <1>1 DEF None
  <2>2. /\ builder = [state |-> builder.state, poisoned |-> builder.poisoned,
                      finished |-> builder.finished]
        /\ ~ builder.finished /\ offered # None => Fits(offered, builder.state)
    BY <1>1 DEF IInv, BuilderOK
  <2> QED
    BY <1>1, <2>1, <2>2 DEF BuilderOK
<1> QED
  BY <1>6, <1>7 DEF IInv

LEMMA ImportStep ==
    ASSUME IInv, NEW flag \in BOOLEAN, Import(flag)
    PROVE  IInv'
<1> PICK c : c = Call'
  OBVIOUS
<1> PICK p : p = Here
  OBVIOUS
<1> PICK S : S = ImportSteps(flag)
  OBVIOUS
<1>1. /\ job' = [kind |-> "import", todo |-> S]
      /\ UNCHANGED <<disk, settled, acked, broken, builder, offered>> /\ builder = None
      /\ Done(disk.root) /\ disk.ready # None /\ disk.ready.work = None
  BY DEF Import, Calling, Quiet, Done
<1>2. c.acked = Call.acked /\ c.offered = Call.offered /\ c.kind = "import"
  <2>1. job' # None /\ job'.kind = "import"
    BY <1>1 DEF None
  <2> QED
    BY <1>1, <2>1 DEF Call
<1>3. GoodNow(c)
  BY <1>2, SameCall DEF IInv
<1>4. PICK q : Leads(FALSE, c, p, S, q) /\ Resting(c, q)
  BY <1>1, <1>2, <1>3, ImportLeads
<1>5. Shaped' /\ GoodNow(Call)' /\ JobOK'
  BY <1>1, <1>3, <1>4, Starting
<1> QED
  BY <1>1, <1>5 DEF IInv, BuilderOK

LEMMA ForgetStep ==
    ASSUME IInv, Forget
    PROVE  IInv'
<1>1. /\ UNCHANGED <<disk, settled, acked, broken, job, offered>>
      /\ job = None /\ builder' = None
  BY DEF Forget, Quiet
<1>2. Shaped'
  BY <1>1 DEF IInv, Shaped, OnAreas
<1> PICK c : c = Call'
  OBVIOUS
<1>3. c.acked = Call.acked /\ c.offered = Call.offered
  BY <1>1 DEF Call
<1>4. GoodNow(c)
  BY <1>3, SameCall DEF IInv
<1>5. GoodNow(Call)'
  BY <1>1, <1>4 DEF GoodNow
<1> QED
  BY <1>1, <1>2, <1>5 DEF IInv, JobOK, BuilderOK

(* A chunk that CURRENT knows, or that it is ready for.                    *)
LEMMA OfferedGood ==
    ASSUME NEW c, GoodNow(c), settled.root = {disk.root}, HasCurrent(disk.root),
           NEW e, Fits(e.offered, disk.root.current),
           e.acked > 0 => disk.root.current.cursor >= e.acked
    PROVE  GoodNow(e)
<1>1. \A r \in settled.root : RootOK(c, r)
  BY DEF GoodNow, Good
<1>2. \A r \in settled.root : RootOK(e, r)
  BY <1>1 DEF RootOK
<1> QED
  BY <1>2 DEF GoodNow, Good

LEMMA ApplyStep ==
    ASSUME IInv, NEW chunk \in Chunks, Apply(chunk)
    PROVE  IInv'
<1> PICK c : c = Call'
  OBVIOUS
<1> PICK p : p = Here
  OBVIOUS
<1> PICK S : S = ApplySteps(chunk)
  OBVIOUS
<1>1. /\ job = None /\ builder # None /\ ~ builder.poisoned /\ ~ builder.finished
      /\ offered' = chunk /\ UNCHANGED <<disk, settled, builder, broken>>
  BY DEF Apply
<1>2. /\ settled.root = {disk.root} /\ HasCurrent(disk.root) /\ ~ Done(disk.root)
      /\ DOMAIN disk.gens \subseteq 0 .. disk.root.current.generation
      /\ builder.state = disk.root.current
  BY <1>1 DEF IInv, BuilderOK, Knowing
<1>3. /\ builder = [state |-> builder.state, poisoned |-> builder.poisoned,
                    finished |-> builder.finished]
      /\ (builder.finished <=> Done(disk.root))
  BY <1>1 DEF IInv, BuilderOK, Knowing
<1>4. chunk.start \in Nat /\ chunk.end \in Nat /\ chunk.start <= chunk.end
  BY RestoreAssumption DEF Chunks
<1>5. GoodNow(Call) /\ acked \in Nat
  BY DEF IInv, Shaped
<1>6. /\ StateOK(disk.root.current) /\ disk.root.current.cursor \in Nat
      /\ acked > 0 => disk.root.current.cursor >= acked
  <2>1. RootOK(Call, disk.root) /\ Call.acked = acked
    BY <1>5, HereFine DEF Call
  <2> QED
    BY <1>2, <2>1 DEF RootOK, HasCurrent, StateOK
<1>7. c.acked = acked' /\ c.offered = chunk
  BY <1>1 DEF Call
<1>8. CASE Recognised(chunk) /\ acked' = builder.state.cursor /\ UNCHANGED job
  <2>1. Fits(c.offered, disk.root.current)
    BY <1>2, <1>7, <1>8 DEF Recognised, Fits
  <2>2. acked' \in Nat /\ (c.acked > 0 => disk.root.current.cursor >= c.acked)
    BY <1>2, <1>6, <1>7, <1>8
  <2>3. GoodNow(c)
    BY <1>2, <1>5, <2>1, <2>2, OfferedGood
  <2>4. GoodNow(Call)'
    BY <1>1, <2>3 DEF GoodNow
  <2>5. Shaped'
    BY <1>1, <2>2 DEF IInv, Shaped, OnAreas
  <2>6. BuilderOK'
    <3>1. Knowing(builder)'
      BY <1>1, <1>2, <1>3 DEF Knowing
    <3>2. Fits(offered, builder.state)'
      BY <1>1, <1>2, <1>7, <2>1 DEF Fits
    <3> QED
      BY <1>1, <1>3, <1>8, <3>1, <3>2 DEF BuilderOK
  <2> QED
    BY <1>1, <1>8, <2>4, <2>5, <2>6 DEF IInv, JobOK
<1>9. CASE /\ chunk.start = builder.state.cursor /\ UNCHANGED acked
           /\ job' = [kind |-> "apply", todo |-> S]
  <2>1. Fits(c.offered, disk.root.current)
    BY <1>2, <1>7, <1>9 DEF Fits
  <2>2. c.acked \in Nat /\ (c.acked > 0 => disk.root.current.cursor >= c.acked)
    BY <1>5, <1>6, <1>7, <1>9
  <2>3. GoodNow(c)
    BY <1>2, <1>5, <2>1, <2>2, OfferedGood
  <2>4. chunk.start = disk.root.current.cursor
    BY <1>2, <1>9
  <2>5. PICK q : Leads(FALSE, c, p, S, q) /\ Resting(c, q)
    BY <1>2, <1>4, <1>7, <2>2, <2>3, <2>4, ApplyLeads
  <2>6. Shaped' /\ GoodNow(Call)' /\ JobOK'
    BY <1>1, <1>9, <2>3, <2>5, Starting
  <2>7. BuilderOK'
    <3>1. job' # None /\ job'.kind = "apply"
      BY <1>9 DEF None
    <3>2. Fits(offered, builder.state)'
      BY <1>1, <1>2, <1>7, <2>1 DEF Fits
    <3> QED
      BY <1>1, <1>3, <3>1, <3>2 DEF BuilderOK
  <2> QED
    BY <2>6, <2>7 DEF IInv
<1> QED
  BY <1>8, <1>9 DEF Apply, Calling

(* A bound product that is used is still what FINISHED stands for.         *)
LEMMA UsedReady ==
    ASSUME NEW x, NEW k, Done(x), ReadyOK(x, k), k.bound, NEW t
    PROVE  LET m == [k EXCEPT !.changed = t]
           IN  ReadyOK(x, m) /\ m.bound /\ m.work = k.work /\ m # None
<1> DEFINE m == [work |-> k.work, rows |-> k.rows, whole |-> k.whole, sealed |-> k.sealed,
                 bound |-> k.bound, changed |-> t]
<1>1. /\ k = [work |-> k.work, rows |-> k.rows, whole |-> k.whole, sealed |-> k.sealed,
              bound |-> k.bound, changed |-> k.changed]
      /\ k.rows = x.finished.manifest /\ k.whole = TRUE
  <2>1. k = [work |-> k.work, rows |-> x.finished.manifest, whole |-> TRUE,
             sealed |-> k.sealed, bound |-> k.bound, changed |-> k.changed]
    BY DEF ReadyOK
  <2>2. k.rows = x.finished.manifest /\ k.whole = TRUE
    BY <2>1
  <2> QED
    BY <2>1, <2>2
<1>2. [k EXCEPT !.changed = t] = m
  <2>1. k = [work |-> k.work, rows |-> k.rows, whole |-> k.whole, sealed |-> k.sealed,
             bound |-> k.bound, changed |-> k.changed]
    BY <1>1
  <2> QED
    BY ONLY <2>1
<1>3. m.work = k.work /\ m.rows = k.rows /\ m.whole = k.whole /\ m.bound = k.bound
  OBVIOUS
<1>4. m = [work |-> m.work, rows |-> x.finished.manifest, whole |-> TRUE,
           sealed |-> m.sealed, bound |-> m.bound, changed |-> m.changed]
  BY <1>1, <1>3
<1>5. ReadyOK(x, m)
  BY <1>3, <1>4 DEF ReadyOK
<1>6. m # None
  BY DEF None
<1> QED
  BY <1>2, <1>3, <1>5, <1>6

(* The owner uses what it imported.                                        *)
LEMMA UseStep ==
    ASSUME IInv, Use
    PROVE  IInv'
<1> DEFINE k == disk.ready
           rs == settled.root
           os == settled.owner
<1> PICK t : t = TRUE
  OBVIOUS
<1> PICK m : m = [k EXCEPT !.changed = t]
  OBVIOUS
<1>1. /\ job = None /\ k # None /\ k.bound
      /\ disk' = [disk EXCEPT !.ready = m]
      /\ UNCHANGED <<builder, job, acked, offered, broken>>
  BY DEF Use
<1>2. OnAreas(disk) /\ OnAreas(settled) /\ GoodNow(Call)
  BY DEF IInv, Shaped
<1>3. /\ disk'["root"] = disk.root /\ disk'["gens"] = disk.gens /\ disk'["owner"] = disk.owner
      /\ disk'["ready"] = m /\ OnAreas(disk')
  BY <1>1, <1>2 DEF OnAreas, Areas
<1>4. settled' = [settled EXCEPT !.ready = {m}]
  <2>1. settled' = [settled EXCEPT !.ready = {disk'.ready}]
    BY DEF Use
  <2> QED
    BY <1>3, <2>1
<1>5. /\ settled'["root"] = settled.root /\ settled'["gens"] = settled.gens
      /\ settled'["owner"] = settled.owner /\ settled'["ready"] = {m} /\ OnAreas(settled')
  <2> PICK v : v = {m}
    OBVIOUS
  <2>1. /\ settled'["root"] = settled.root /\ settled'["gens"] = settled.gens
        /\ settled'["owner"] = settled.owner /\ settled'["ready"] = v /\ OnAreas(settled')
    BY <1>2, <1>4 DEF OnAreas, Areas
  <2> QED
    BY <2>1
<1>6. /\ Good(Call, rs, settled.gens, settled.ready, os)
      /\ disk.root \in rs /\ disk.gens \in settled.gens /\ k \in settled.ready /\ disk.owner \in os
  BY <1>2 DEF GoodNow
<1>7. \A r \in rs : Done(r) => ReadyOK(r, m) /\ m.bound /\ m.work = k.work /\ m # None
  <2> SUFFICES ASSUME NEW r \in rs, Done(r)
               PROVE  ReadyOK(r, m) /\ m.bound /\ m.work = k.work /\ m # None
    OBVIOUS
  <2>1. ReadyOK(r, k)
    BY <1>6 DEF Good
  <2> HIDE DEF k
  <2> QED
    BY <1>1, <2>1, UsedReady
<1>8. \A r \in rs : ReadyOK(r, m)
  BY <1>7 DEF ReadyOK
<1>9. \A r \in rs, b \in os : OwnerOK(r, m, b)
  <2> SUFFICES ASSUME NEW r \in rs, NEW b \in os
               PROVE  OwnerOK(r, m, b)
    OBVIOUS
  <2>1. OwnerOK(r, k, b)
    BY <1>6 DEF Good
  <2>2. k.bound
    BY <1>1
  <2> QED
    BY <1>7, <2>1, <2>2 DEF OwnerOK
<1>10. Marked(rs, {m})
  <2> SUFFICES ASSUME NEW r \in rs, Done(r), Unmarked(m)
               PROVE  \A i \in rs : Done(i)
    BY DEF Marked
  <2>1. Unmarked(k)
    BY <1>1, <1>7 DEF Unmarked
  <2> QED
    BY <1>6, <2>1 DEF Good, Marked
<1>11. Good(Call, rs, settled.gens, {m}, os)
  <2>1. \A r \in rs, y \in {m} : ReadyOK(r, y)
    BY <1>8
  <2>2. \A r \in rs, y \in {m}, b \in os : OwnerOK(r, y, b)
    BY <1>9
  <2> QED
    BY <1>6, <1>10, <2>1, <2>2 DEF Good
<1> PICK c : c = Call
  OBVIOUS
<1>12. c = Call'
  BY <1>1 DEF Call
<1>13. GoodNow(Call)'
  <2>1. Good(c, settled'.root, settled'.gens, settled'.ready, settled'.owner)
    BY <1>5, <1>11
  <2>2. /\ disk'.root \in settled'.root /\ disk'.gens \in settled'.gens
        /\ disk'.ready \in settled'.ready /\ disk'.owner \in settled'.owner
    BY <1>3, <1>5, <1>6
  <2> QED
    BY <1>12, <2>1, <2>2 DEF GoodNow
<1>14. Shaped'
  <2>1. \A a \in Areas : disk'[a] \in settled'[a]
    BY <1>3, <1>5, <1>6 DEF Areas
  <2> QED
    BY <1>1, <1>3, <1>5, <2>1 DEF IInv, Shaped
<1>15. BuilderOK'
  <2>1. Knowing(builder) => Knowing(builder)'
    BY <1>1, <1>3, <1>5 DEF Knowing
  <2> QED
    BY <1>1, <2>1 DEF IInv, BuilderOK
<1> QED
  BY <1>1, <1>13, <1>14, <1>15 DEF IInv, JobOK

(* What the areas hold and may hold stays within the world the call knows. *)
LEMMA Within ==
    ASSUME NEW c, NEW p, NEW dd, NEW ss, Fine(c, p),
           \A a \in Areas : dd[a] \in ss[a] /\ ss[a] \subseteq p.may[a]
    PROVE  /\ dd.root \in ss.root /\ dd.gens \in ss.gens
           /\ dd.ready \in ss.ready /\ dd.owner \in ss.owner
           /\ Good(c, ss.root, ss.gens, ss.ready, ss.owner)
<1>1. /\ ss["root"] \subseteq p.may["root"] /\ ss["gens"] \subseteq p.may["gens"]
      /\ ss["ready"] \subseteq p.may["ready"] /\ ss["owner"] \subseteq p.may["owner"]
  BY DEF Areas
<1>2. /\ dd["root"] \in ss["root"] /\ dd["gens"] \in ss["gens"]
      /\ dd["ready"] \in ss["ready"] /\ dd["owner"] \in ss["owner"]
  BY DEF Areas
<1>3. Good(c, p.may.root, p.may.gens, p.may.ready, p.may.owner)
  BY DEF Fine
<1>4. Good(c, ss.root, ss.gens, ss.ready, ss.owner)
  BY <1>1, <1>3, GoodLess
<1> QED
  BY <1>2, <1>4

(* An operation leads from within a world to within the next.              *)
LEMMA Operation ==
    ASSUME Shaped, NEW p, At(p), NEW s, IsStep(s), NEW n, n = Exec(p, s),
           UNCHANGED <<acked, broken>>,
           IF s.op = "sync"
           THEN /\ settled' = [settled EXCEPT ![s.area] = {disk[s.area]}]
                /\ UNCHANGED disk
           ELSE \E v \in s.to : /\ disk' = [disk EXCEPT ![s.area] = v]
                                /\ settled' = [settled EXCEPT ![s.area] = @ \cup {v}]
    PROVE  Shaped' /\ At(n)'
<1>1. /\ OnAreas(disk) /\ OnAreas(settled) /\ \A a \in Areas : disk[a] \in settled[a]
      /\ acked \in Nat /\ ~ broken
      /\ \A a \in Areas : disk[a] \in p.at[a] /\ settled[a] \subseteq p.may[a]
  BY DEF Shaped, At
<1>2. s.area \in Areas /\ s.op \in {"write", "sync"}
  BY DEF IsStep
<1> DEFINE na == n.at
           nm == n.may
<1>3. /\ \A a \in Areas : na[a] = IF a = s.area /\ s.op = "write" THEN s.to ELSE p.at[a]
      /\ \A a \in Areas : nm[a] = IF a # s.area THEN p.may[a]
                                  ELSE IF s.op = "write" THEN p.may[a] \cup s.to ELSE p.at[a]
  BY DEF Exec
<1> HIDE DEF na, nm
<1>4. SUFFICES /\ OnAreas(disk') /\ OnAreas(settled')
               /\ \A a \in Areas : /\ disk'[a] \in settled'[a]
                                   /\ disk'[a] \in na[a] /\ settled'[a] \subseteq nm[a]
  BY <1>1 DEF Shaped, At, na, nm
<1>5. CASE s.op = "sync"
  <2> PICK v : v = {disk[s.area]}
    OBVIOUS
  <2>1. settled' = [settled EXCEPT ![s.area] = v] /\ disk' = disk
    BY <1>5
  <2>2. /\ OnAreas(settled') /\ OnAreas(disk')
        /\ \A a \in Areas : settled'[a] = IF a = s.area THEN v ELSE settled[a]
    BY <1>1, <1>2, <2>1 DEF OnAreas
  <2>3. ASSUME NEW a \in Areas
        PROVE  /\ disk'[a] \in settled'[a]
               /\ disk'[a] \in na[a] /\ settled'[a] \subseteq nm[a]
    <3>1. na[a] = p.at[a] /\ nm[a] = IF a # s.area THEN p.may[a] ELSE p.at[a]
      BY <1>3, <1>5
    <3> QED
      BY <1>1, <2>1, <2>2, <3>1
  <2> QED
    BY <2>2, <2>3
<1>6. CASE s.op = "write"
  <2>1. PICK v \in s.to : /\ disk' = [disk EXCEPT ![s.area] = v]
                          /\ settled' = [settled EXCEPT ![s.area] = @ \cup {v}]
    BY <1>6
  <2> PICK w : w = settled[s.area] \cup {v}
    OBVIOUS
  <2>2. settled' = [settled EXCEPT ![s.area] = w]
    BY <2>1
  <2>3. /\ OnAreas(settled') /\ OnAreas(disk')
        /\ \A a \in Areas : settled'[a] = IF a = s.area THEN w ELSE settled[a]
        /\ \A a \in Areas : disk'[a] = IF a = s.area THEN v ELSE disk[a]
    BY <1>1, <1>2, <2>1, <2>2 DEF OnAreas
  <2>4. ASSUME NEW a \in Areas
        PROVE  /\ disk'[a] \in settled'[a]
               /\ disk'[a] \in na[a] /\ settled'[a] \subseteq nm[a]
    <3>1. CASE a = s.area
      <4>1. na[a] = s.to /\ nm[a] = p.may[a] \cup s.to
        BY <1>3, <1>6, <3>1
      <4>2. disk'[a] = v /\ settled'[a] = settled[a] \cup {v}
        BY <2>3, <3>1
      <4> QED
        BY <1>1, <4>1, <4>2
    <3>2. CASE a # s.area
      <4>1. na[a] = p.at[a] /\ nm[a] = p.may[a]
        BY <1>3, <3>2
      <4>2. disk'[a] = disk[a] /\ settled'[a] = settled[a]
        BY <2>3, <3>2
      <4> QED
        BY <1>1, <4>1, <4>2
    <3> QED
      BY <3>1, <3>2
  <2> QED
    BY <2>3, <2>4
<1> QED
  BY <1>2, <1>5, <1>6

(* The next operation of the call.                                         *)
LEMMA NextStep ==
    ASSUME IInv, Step
    PROVE  IInv'
<1>1. /\ job # None /\ job = [kind |-> job.kind, todo |-> job.todo]
      /\ job.kind \in {"install", "open", "apply", "finish", "import"}
      /\ Going(Call, job.todo) /\ job.todo # <<>>
  BY DEF IInv, JobOK, Step, Running
<1> PICK c : c = Call
  OBVIOUS
<1> PICK S : S = job.todo
  OBVIOUS
<1>2. PICK p, q : At(p) /\ Leads(FALSE, c, p, S, q) /\ Resting(c, q)
  BY <1>1 DEF Going
<1> PICK s : s = Head(S)
  OBVIOUS
<1> PICK T : T = Tail(S)
  OBVIOUS
<1> PICK n : n = Exec(p, s)
  OBVIOUS
<1>3. IsStep(s) /\ Fine(c, n) /\ Leads(FALSE, c, n, T, q)
  BY <1>1, <1>2, LeadsOn
<1>4. /\ UNCHANGED <<builder, acked, offered, broken>>
      /\ job' = [job EXCEPT !.todo = T]
      /\ IF s.op = "sync"
         THEN /\ settled' = [settled EXCEPT ![s.area] = {disk[s.area]}]
              /\ UNCHANGED disk
         ELSE \E v \in s.to : /\ disk' = [disk EXCEPT ![s.area] = v]
                              /\ settled' = [settled EXCEPT ![s.area] = @ \cup {v}]
  BY DEF Step
<1>5. Shaped' /\ At(n)'
  BY <1>2, <1>3, <1>4, Operation DEF IInv
<1>6. job' = [kind |-> job.kind, todo |-> T]
  BY <1>1, <1>4
<1>7. job' # None /\ job'.kind = job.kind /\ job'.todo = T
  BY <1>6 DEF None
<1>8. c = Call'
  BY <1>1, <1>4, <1>7 DEF Call
<1>9. PICK dd, ss : dd = disk' /\ ss = settled'
  OBVIOUS
<1>10. GoodNow(Call)'
  <2>1. \A a \in Areas : dd[a] \in ss[a] /\ ss[a] \subseteq n.may[a]
    BY <1>5, <1>9 DEF Shaped, At
  <2>2. /\ dd.root \in ss.root /\ dd.gens \in ss.gens
        /\ dd.ready \in ss.ready /\ dd.owner \in ss.owner
        /\ Good(c, ss.root, ss.gens, ss.ready, ss.owner)
    BY <1>3, <2>1, Within
  <2> QED
    BY <1>8, <1>9, <2>2 DEF GoodNow
<1>11. Going(Call, job.todo)'
  BY <1>2, <1>3, <1>5, <1>7, <1>8 DEF Going
<1>12. JobOK'
  BY <1>1, <1>6, <1>7, <1>11 DEF JobOK
<1>13. BuilderOK'
  BY <1>1, <1>4, <1>7 DEF IInv, BuilderOK
<1> QED
  BY <1>5, <1>10, <1>12, <1>13 DEF IInv

(* An operation fails: the call returns, or goes on if it forgives.        *)
LEMMA FailStep ==
    ASSUME IInv, StepFails
    PROVE  IInv'
<1>1. /\ job # None /\ job = [kind |-> job.kind, todo |-> job.todo]
      /\ job.kind \in {"install", "open", "apply", "finish", "import"}
      /\ Going(Call, job.todo) /\ job.todo # <<>>
  BY DEF IInv, JobOK, StepFails, Running
<1> PICK c : c = Call
  OBVIOUS
<1> PICK S : S = job.todo
  OBVIOUS
<1>2. PICK p, q : At(p) /\ Leads(FALSE, c, p, S, q) /\ Resting(c, q)
  BY <1>1 DEF Going
<1> PICK s : s = Head(S)
  OBVIOUS
<1>3. IsStep(s) /\ Fine(c, p) /\ (s.lenient => Resting(c, p))
  BY <1>1, <1>2, LeadsOn, LeadsFine
<1>4. s.op # "refuse"
  BY <1>3 DEF IsStep
<1>5. /\ UNCHANGED <<disk, settled, acked, offered>> /\ broken' = (broken \/ s.op = "refuse")
      /\ job' = IF s.lenient THEN [job EXCEPT !.todo = <<>>] ELSE None
      /\ builder' = IF s.lenient THEN builder
                    ELSE IF job.kind = "apply" THEN [builder EXCEPT !.poisoned = TRUE]
                    ELSE None
  BY DEF StepFails
<1>6. Shaped'
  BY <1>4, <1>5 DEF IInv, Shaped, OnAreas
<1> PICK e : e = Call'
  OBVIOUS
<1>7. e.acked = Call.acked /\ e.offered = Call.offered
  BY <1>5 DEF Call
<1>8. GoodNow(Call)'
  <2>1. GoodNow(e)
    BY <1>7, SameCall DEF IInv
  <2> QED
    BY <1>5, <2>1 DEF GoodNow
<1>9. CASE s.lenient
  <2> PICK n : n = <<>>
    OBVIOUS
  <2>1. job' = [job EXCEPT !.todo = n] /\ builder' = builder
    BY <1>5, <1>9
  <2>2. job' = [kind |-> job.kind, todo |-> n]
    BY <1>1, <2>1
  <2>3. job' # None /\ job'.kind = job.kind /\ job'.todo = n
    BY <2>2 DEF None
  <2>4. c = Call'
    BY <1>1, <1>5, <2>3 DEF Call
  <2>5. Leads(FALSE, c, p, <<>>, p)
    BY <1>3, LeadsNowhere
  <2>6. At(p)'
    BY <1>2, <1>5 DEF At
  <2>7. Leads(FALSE, c, p, n, p) /\ Resting(c, p)
    BY <1>3, <1>9, <2>5
  <2>8. Going(Call, job.todo)'
    BY <2>3, <2>4, <2>6, <2>7 DEF Going
  <2>9. JobOK'
    BY <1>1, <2>2, <2>3, <2>8 DEF JobOK
  <2>10. BuilderOK'
    BY <1>1, <1>5, <2>1, <2>3 DEF IInv, BuilderOK
  <2> QED
    BY <1>6, <1>8, <2>9, <2>10 DEF IInv
<1>10. CASE ~ s.lenient
  <2>1. job' = None
    BY <1>5, <1>10
  <2>2. BuilderOK'
    <3>1. CASE job.kind = "apply" /\ builder # None
      <4> PICK t : t = TRUE
        OBVIOUS
      <4>1. builder' = [builder EXCEPT !.poisoned = t]
        BY <1>5, <1>10, <3>1
      <4>2. /\ builder = [state |-> builder.state, poisoned |-> builder.poisoned,
                          finished |-> builder.finished]
            /\ ~ builder.finished /\ offered # None => Fits(offered, builder.state)
        BY <3>1 DEF IInv, BuilderOK
      <4>3. builder' = [state |-> builder.state, poisoned |-> t, finished |-> builder.finished]
        BY <4>1, <4>2
      <4>4. /\ builder'.state = builder.state /\ builder'.finished = builder.finished
            /\ builder'.poisoned
        BY <4>3
      <4>5. builder' = [state |-> builder'.state, poisoned |-> builder'.poisoned,
                        finished |-> builder'.finished]
        BY <4>3
      <4> QED
        BY <1>5, <2>1, <4>2, <4>4, <4>5 DEF BuilderOK
    <3>2. CASE job.kind = "apply" /\ builder = None
      <4>1. builder' = None
        BY <1>5, <1>10, <3>2 DEF None
      <4> QED
        BY <4>1 DEF BuilderOK
    <3>3. CASE job.kind # "apply"
      <4>1. builder' = None
        BY <1>5, <1>10, <3>3
      <4> QED
        BY <4>1 DEF BuilderOK
    <3> QED
      BY <3>1, <3>2, <3>3
  <2> QED
    BY <1>6, <1>8, <2>1, <2>2 DEF IInv, JobOK
<1> QED
  BY <1>9, <1>10

(* The call returns.                                                       *)
LEMMA ReturnStep ==
    ASSUME IInv, Return
    PROVE  IInv'
<1>1. /\ job # None /\ Going(Call, job.todo) /\ job.todo = <<>>
      /\ job.kind \in {"install", "open", "apply", "finish", "import"}
  BY DEF IInv, JobOK, Return
<1> PICK c : c = Call
  OBVIOUS
<1>2. PICK p, q : At(p) /\ Leads(FALSE, c, p, <<>>, q) /\ Resting(c, q)
  BY <1>1 DEF Going
<1>3. Resting(c, p)
  BY <1>2, LeadsEnd
<1>4. c.kind = job.kind /\ c.acked = acked /\ c.offered = offered
  BY <1>1 DEF Call
<1>5. /\ UNCHANGED <<disk, settled, offered, broken>> /\ job' = None
      /\ acked' = IF job.kind \in {"install", "apply"} THEN Recovered.cursor ELSE acked
  BY DEF Return
<1> PICK e : e = Call'
  OBVIOUS
<1>6. e.acked = acked' /\ e.offered = offered
  BY <1>5 DEF Call
<1>7. CASE job.kind \in {"install", "open", "apply"}
  <2>1. Restful(p)
    BY <1>3, <1>4, <1>7 DEF Resting
  <2>2. PICK r \in p.may.root :
            /\ p.may.root = {r} /\ HasCurrent(r)
            /\ ~ Done(r) => \A g \in p.at.gens : DOMAIN g \subseteq 0 .. r.current.generation
    BY <2>1 DEF Restful
  <2>3. /\ disk.root \in settled.root /\ settled.root \subseteq p.may.root
        /\ disk.gens \in p.at.gens
    <3>1. disk["root"] \in settled["root"]
      BY DEF IInv, Shaped, Areas
    <3>2. settled["root"] \subseteq p.may["root"] /\ disk["gens"] \in p.at["gens"]
      BY <1>2 DEF At, Areas
    <3> QED
      BY <3>1, <3>2
  <2>4. settled.root = {disk.root} /\ r = disk.root
    BY <2>2, <2>3
  <2>5. /\ HasCurrent(disk.root)
        /\ ~ Done(disk.root) => DOMAIN disk.gens \subseteq 0 .. disk.root.current.generation
    BY <2>2, <2>3, <2>4
  <2>6. GoodNow(c)
    BY DEF IInv
  <2>7. /\ Recovered = disk.root.current /\ StateOK(disk.root.current)
        /\ Done(disk.root) <=> disk.root.finished # None
    BY <2>5, <2>6, NowVerified
  <2>8. builder' = [state |-> Recovered, poisoned |-> FALSE,
                    finished |-> disk.root.finished # None]
    BY <1>7 DEF Return
  <2>9. /\ builder'.state = disk.root.current /\ (builder'.finished <=> Done(disk.root))
        /\ builder' = [state |-> builder'.state, poisoned |-> builder'.poisoned,
                       finished |-> builder'.finished]
    BY <2>7, <2>8
  <2>10. acked' \in Nat /\ (acked' > 0 => disk.root.current.cursor >= acked')
    <3>1. acked \in Nat /\ (acked > 0 => disk.root.current.cursor >= acked)
      <4>1. RootOK(c, disk.root)
        BY <2>6, HereFine
      <4> QED
        BY <1>4, <4>1 DEF IInv, Shaped, RootOK
    <3>2. disk.root.current.cursor \in Nat
      BY <2>7 DEF StateOK
    <3> QED
      BY <1>5, <2>7, <3>1, <3>2
  <2>11. offered # None => Fits(offered, disk.root.current)
    <3>1. RootOK(c, disk.root)
      BY <2>6, HereFine
    <3> QED
      BY <1>4, <3>1 DEF RootOK
  <2>12. GoodNow(e)
    <3>1. \A i \in settled.root : RootOK(c, i)
      BY <2>6 DEF GoodNow, Good
    <3>2. \A i \in settled.root : RootOK(e, i)
      BY <1>6, <2>4, <2>5, <2>10, <2>11, <3>1 DEF RootOK
    <3> QED
      BY <2>6, <3>2 DEF GoodNow, Good
  <2>13. GoodNow(Call)'
    BY <1>5, <2>12 DEF GoodNow
  <2>14. Shaped'
    BY <1>5, <2>10 DEF IInv, Shaped, OnAreas
  <2>15. BuilderOK'
    <3>1. Knowing(builder)'
      BY <1>5, <2>4, <2>5, <2>9 DEF Knowing
    <3>2. Fits(offered, builder.state)' \/ offered' = None
      BY <1>5, <2>9, <2>11 DEF Fits
    <3> QED
      BY <1>5, <2>9, <3>1, <3>2 DEF BuilderOK
  <2> QED
    BY <1>5, <2>13, <2>14, <2>15 DEF IInv, JobOK
<1>8. CASE job.kind \in {"finish", "import"}
  <2>1. builder' = None /\ acked' = acked
    BY <1>8 DEF Return
  <2>2. GoodNow(e)
    BY <1>4, <1>6, <2>1, SameCall DEF IInv
  <2>3. GoodNow(Call)'
    BY <1>5, <2>2 DEF GoodNow
  <2>4. Shaped'
    BY <1>5, <2>1 DEF IInv, Shaped, OnAreas
  <2> QED
    BY <1>5, <2>1, <2>3, <2>4 DEF IInv, JobOK, BuilderOK
<1> QED
  BY <1>1, <1>7, <1>8

(* A crash: each area comes back as one of what it may hold.               *)
LEMMA CrashStep ==
    ASSUME IInv, NEW power \in BOOLEAN, Crash(power)
    PROVE  IInv'
<1>1. builder' = None /\ job' = None /\ UNCHANGED <<acked, offered, broken>>
  BY DEF Crash
<1> PICK c : c = Call'
  OBVIOUS
<1>2. c.acked = Call.acked /\ c.offered = Call.offered
  BY <1>1 DEF Call
<1>3. GoodNow(c)
  BY <1>2, SameCall DEF IInv
<1>4. CASE power
  <2>1. PICK r \in settled.root, g \in settled.gens, y \in settled.ready, o \in settled.owner :
            disk' = [root |-> r, gens |-> g, ready |-> y, owner |-> o]
    BY <1>4 DEF Crash
  <2>2. settled' = [a \in Areas |-> {disk'[a]}]
    BY <1>4 DEF Crash
  <2>3. /\ disk'["root"] = r /\ disk'["gens"] = g /\ disk'["ready"] = y /\ disk'["owner"] = o
        /\ OnAreas(disk')
    BY <2>1 DEF OnAreas, Areas
  <2>4. OnAreas(settled') /\ \A a \in Areas : settled'[a] = {disk'[a]}
    BY <2>2 DEF OnAreas
  <2>5. /\ settled'["root"] = {r} /\ settled'["gens"] = {g}
        /\ settled'["ready"] = {y} /\ settled'["owner"] = {o}
    BY <2>3, <2>4 DEF Areas
  <2>6. Shaped'
    BY <1>1, <2>3, <2>4 DEF IInv, Shaped
  <2>7. Good(c, {r}, {g}, {y}, {o})
    <3>1. Good(c, settled.root, settled.gens, settled.ready, settled.owner)
      BY <1>3 DEF GoodNow
    <3> QED
      BY <3>1, GoodLess
  <2>8. GoodNow(Call)'
    BY <2>3, <2>5, <2>7 DEF GoodNow
  <2> QED
    BY <1>1, <2>6, <2>8 DEF IInv, JobOK, BuilderOK
<1>5. CASE ~ power
  <2>1. UNCHANGED <<disk, settled>>
    BY <1>5 DEF Crash
  <2>2. Shaped'
    BY <1>1, <2>1 DEF IInv, Shaped, OnAreas
  <2>3. GoodNow(Call)'
    BY <1>3, <2>1 DEF GoodNow
  <2> QED
    BY <1>1, <2>2, <2>3 DEF IInv, JobOK, BuilderOK
<1> QED
  BY <1>4, <1>5

(* Every step keeps the invariant.                                         *)
LEMMA IInvKept ==
    ASSUME IInv, [Next]_vars
    PROVE  IInv'
<1>1. CASE Install
  BY <1>1, InstallStep
<1>2. CASE OpenBuilder
  BY <1>2, OpenStep
<1>3. CASE Finish
  BY <1>3, FinishStep
<1>4. CASE Forget
  BY <1>4, ForgetStep
<1>5. CASE Use
  BY <1>5, UseStep
<1>6. CASE \E chunk \in Chunks : Apply(chunk)
  BY <1>6, ApplyStep
<1>7. CASE Step
  BY <1>7, NextStep
<1>8. CASE StepFails
  BY <1>8, FailStep
<1>9. CASE Return
  BY <1>9, ReturnStep
<1>10. CASE \E flag \in BOOLEAN : Import(flag)
  BY <1>10, ImportStep
<1>11. CASE \E flag \in BOOLEAN : Crash(flag)
  BY <1>11, CrashStep
<1>12. CASE UNCHANGED vars
  <2>1. /\ UNCHANGED <<disk, settled, builder, job, acked, offered, broken>>
    BY <1>12 DEF vars
  <2>2. Shaped'
    BY <2>1 DEF IInv, Shaped, OnAreas
  <2>3. Call' = Call
    BY <2>1 DEF Call
  <2>4. GoodNow(Call)'
    BY <2>1, <2>3 DEF IInv, GoodNow
  <2>5. \A p : At(p) => At(p)'
    BY <2>1 DEF At
  <2>6. JobOK'
    BY <2>1, <2>3, <2>5 DEF IInv, JobOK, Going
  <2>7. Knowing(builder) => Knowing(builder)'
    BY <2>1 DEF Knowing
  <2>8. BuilderOK'
    BY <2>1, <2>7 DEF IInv, BuilderOK
  <2> QED
    BY <2>2, <2>4, <2>6, <2>8 DEF IInv
<1> QED
  BY <1>1, <1>2, <1>3, <1>4, <1>5, <1>6, <1>7, <1>8, <1>9, <1>10, <1>11, <1>12 DEF Next

(* The invariant holds always.                                             *)
LEMMA Invariance == Spec => []IInv
<1>1. Init => IInv
  BY GoodAtFirst
<1>2. IInv /\ [Next]_vars => IInv'
  BY IInvKept
<1> QED
  BY <1>1, <1>2, PTL DEF Spec

-----------------------------------------------------------------------------
(***************************************************************************)
(* The theorems.                                                           *)
(***************************************************************************)
(* What FINISHED stands for, with all its records.                         *)
LEMMA FinishedReady ==
    ASSUME NEW c, GoodNow(c), Done(disk.root)
    PROVE  /\ disk.ready # None /\ disk.ready.whole
           /\ disk.ready.rows = Records(0, disk.root.finished.cursor)
           /\ disk.ready.rows # NoManifest
<1>1. HasCurrent(disk.root) /\ ReadyOK(disk.root, disk.ready)
  BY HereFine DEF Done, HasCurrent, RootOK
<1>2. disk.root.finished = disk.root.current /\ StateOK(disk.root.current) /\ disk.ready # None
  BY <1>1, NowVerified
<1> DEFINE s == disk.root.finished
<1>3. s = State(s.generation, s.cursor, s.previous, Records(0, s.cursor)) /\ s.cursor \in Nat
  BY <1>2 DEF StateOK
<1>4. s.manifest = Records(0, s.cursor) /\ s.manifest # NoManifest
  <2>1. s.manifest = Records(0, s.cursor)
    BY <1>3 DEF State
  <2> QED
    BY <1>3, <2>1, RecordsAre
<1>5. disk.ready.rows = s.manifest /\ disk.ready.whole = TRUE
  BY <1>1 DEF ReadyOK
<1> QED
  BY <1>2, <1>4, <1>5

(* A restore can be taken up again whatever crashed or failed, at any      *)
(* operation of any call: RestoreBuilder::open verifies what it finds, and *)
(* no call refuses to go on because of what an earlier one left behind.    *)
THEOREM RestoreResumes == Spec => []Resumable
<1>1. IInv => Resumable
  <2> SUFFICES ASSUME IInv
               PROVE  Resumable
    OBVIOUS
  <2>1. ~ broken /\ GoodNow(Call)
    BY DEF IInv, Shaped
  <2>2. ASSUME disk.root # None, disk.root.current # None
        PROVE  Verified
    BY <2>1, <2>2, NowVerified DEF HasCurrent
  <2> QED
    BY <2>1, <2>2 DEF Resumable
<1> QED
  BY <1>1, Invariance, PTL

(* What install and apply_archive acknowledged is never lost: the root     *)
(* names a state at least as far, after any crash.                         *)
THEOREM ProgressIsKept == Spec => []AcknowledgedKept
<1>1. IInv => AcknowledgedKept
  <2> SUFFICES ASSUME IInv, acked > 0
               PROVE  /\ disk.root # None /\ disk.root.marker /\ Recovered # None
                      /\ Recovered.cursor >= acked
    BY DEF AcknowledgedKept
  <2>1. GoodNow(Call) /\ Call.acked = acked
    BY DEF IInv, Call
  <2>2. RootOK(Call, disk.root)
    BY <2>1, HereFine
  <2>3. HasCurrent(disk.root) /\ disk.root.current.cursor >= acked
    BY <2>1, <2>2 DEF RootOK
  <2>4. Recovered = disk.root.current /\ disk.root.marker
    BY <2>1, <2>3, NowVerified
  <2> QED
    BY <2>3, <2>4 DEF HasCurrent
<1> QED
  BY <1>1, Invariance, PTL

(* What a restore has built is the source's history: an open builder has   *)
(* every record up to its cursor, once, and so has the product that        *)
(* FINISHED stands for.                                                    *)
THEOREM RestoreIsExact == Spec => []RestoredExact
<1>1. IInv => RestoredExact
  <2> SUFFICES ASSUME IInv
               PROVE  RestoredExact
    OBVIOUS
  <2>1. GoodNow(Call)
    BY DEF IInv
  <2>2. ASSUME job = None, builder # None, ~ builder.poisoned, ~ builder.finished
        PROVE  /\ builder.state = Recovered
               /\ disk.gens[builder.state.generation] =
                      Generation(builder.state, Records(0, builder.state.cursor), TRUE)
    <3>1. HasCurrent(disk.root) /\ ~ Done(disk.root) /\ builder.state = disk.root.current
      BY <2>2 DEF IInv, BuilderOK, Knowing
    <3>2. Recovered = disk.root.current /\ StateOK(disk.root.current)
      BY <2>1, <3>1, NowVerified
    <3> PICK s : s = builder.state
      OBVIOUS
    <3>3. disk.gens[s.generation] = Generation(s, s.manifest, TRUE)
      BY <2>1, <3>1, HereFine DEF GensOK
    <3>4. s = State(s.generation, s.cursor, s.previous, Records(0, s.cursor))
      BY <3>1, <3>2 DEF StateOK
    <3>5. s.manifest = Records(0, s.cursor)
      BY <3>4 DEF State
    <3>6. disk.gens[s.generation] = Generation(s, Records(0, s.cursor), TRUE)
      BY <3>3, <3>5
    <3> QED
      BY <3>1, <3>2, <3>6
  <2>3. ASSUME disk.root # None, disk.root.finished # None
        PROVE  /\ disk.ready # None /\ disk.ready.whole
               /\ disk.ready.rows = Records(0, disk.root.finished.cursor)
    BY <2>1, <2>3, FinishedReady DEF Done
  <2> QED
    BY <2>2, <2>3 DEF RestoredExact
<1> QED
  BY <1>1, Invariance, PTL

(* The chunk a caller offered last can be offered again, after any crash:  *)
(* apply_archive recognises it or continues with it.                       *)
THEOREM RetriesAreAccepted == Spec => []RetriesAccepted
<1>1. IInv => RetriesAccepted
  BY DEF IInv, BuilderOK, Fits, RetriesAccepted, Recognised
<1> QED
  BY <1>1, Invariance, PTL

(* Wherever an import stops, the owner opens: its registry finds the       *)
(* binding or a SEALED that verifies, and what is finished can be          *)
(* imported.                                                               *)
THEOREM OwnersOpen == Spec => []OwnerOpens
<1>1. IInv => OwnerOpens
  <2> SUFFICES ASSUME IInv
               PROVE  OwnerOpens
    OBVIOUS
  <2>1. GoodNow(Call)
    BY DEF IInv
  <2>2. OwnerOK(disk.root, disk.ready, disk.owner)
    BY <2>1, HereFine
  <2>3. disk.owner => Done(disk.root)
    BY <2>2 DEF OwnerOK
  <2>4. Done(disk.root) => /\ disk.ready # None /\ disk.ready.rows # NoManifest
                           /\ (disk.ready.bound => disk.owner)
                           /\ (disk.ready.bound \/ Sealed(disk.ready))
    BY <2>1, <2>2, FinishedReady DEF OwnerOK
  <2>5. disk.root # None /\ disk.root.finished # None => Done(disk.root)
    BY DEF Done
  <2> QED
    BY <2>3, <2>4, <2>5 DEF OwnerOpens
<1> QED
  BY <1>1, Invariance, PTL
=============================================================================
