-------------------------- MODULE PromptTurnsPlaces --------------------------
(***************************************************************************)
(* Where the store of PromptTurns keeps a prompt: on a queue, with a turn   *)
(* that is under way, in the stash of steers or among the retained ones.    *)
(* Until the store takes a live submission for dead, a prompt is in one     *)
(* place at most, and one the server has answered is in none from which it  *)
(* could go out again. Until it is misled at all, one the server has not    *)
(* answered is in one of them: no prompt is lost.                           *)
(***************************************************************************)
EXTENDS PromptTurnsProofs

-----------------------------------------------------------------------------
(* What a queue, or a list of steers, holds of the prompt p. *)

Holds(q, p) == \E i \in DOMAIN q : q[i] = p
Once(q, p) == \A i, j \in DOMAIN q : q[i] = p /\ q[j] = p => i = j
OnceIn(seq, p) == \A i, j \in DOMAIN seq : seq[i].prompt = p /\ seq[j].prompt = p => i = j

LEMMA HoldsConcat ==
    ASSUME NEW S, NEW q \in Seq(S), NEW r \in Seq(S), NEW p
    PROVE  /\ Holds(q \o r, p) => Holds(q, p) \/ Holds(r, p)
           /\ Once(q, p) /\ Once(r, p) /\ ~(Holds(q, p) /\ Holds(r, p)) => Once(q \o r, p)
  <1> DEFINE m == q \o r
             n == Len(q)
  <1>1. n \in Nat /\ Len(r) \in Nat /\ DOMAIN q = 1..n /\ DOMAIN r = 1..Len(r)
    OBVIOUS
  <1>2. m \in Seq(S) /\ Len(m) = n + Len(r)
    BY ConcatProperties
  <1>3. /\ DOMAIN m = 1..(n + Len(r))
        /\ \A i \in 1..(n + Len(r)) : m[i] = IF i <= n THEN q[i] ELSE r[i - n]
    BY <1>2, ConcatProperties
  <1> HIDE DEF m, n
  <1>4. \A i \in DOMAIN m : \/ i \in DOMAIN q /\ m[i] = q[i]
                            \/ i \notin DOMAIN q /\ i - n \in DOMAIN r /\ m[i] = r[i - n]
    BY <1>1, <1>3
  <1>5. Holds(m, p) => Holds(q, p) \/ Holds(r, p)
    BY <1>4 DEF Holds
  <1>6. ASSUME Once(q, p), Once(r, p), ~(Holds(q, p) /\ Holds(r, p)) PROVE Once(m, p)
    <2> SUFFICES ASSUME NEW i \in DOMAIN m, NEW j \in DOMAIN m, m[i] = p, m[j] = p
                 PROVE  i = j
      BY DEF Once
    <2>1. i \in Int /\ j \in Int /\ n \in Int
      BY <1>1, <1>3
    <2>2. CASE i \in DOMAIN q
      <3>1. j \in DOMAIN q
        BY <1>4, <1>6, <2>2 DEF Holds
      <3> QED BY <1>4, <1>6, <2>2, <3>1 DEF Once
    <2>3. CASE i \notin DOMAIN q
      <3>1. i - n \in DOMAIN r /\ r[i - n] = p
        BY <1>4, <2>3
      <3>2. j \notin DOMAIN q
        BY <1>4, <1>6, <3>1 DEF Holds
      <3>3. j - n \in DOMAIN r /\ r[j - n] = p
        BY <1>4, <3>2
      <3>4. i - n = j - n
        BY <1>6, <3>1, <3>3 DEF Once
      <3> QED BY <2>1, <3>4
    <2> QED BY <2>2, <2>3
  <1> QED BY <1>5, <1>6 DEF m

LEMMA HoldsSingle ==
    ASSUME NEW g, NEW p
    PROVE  (Holds(<<g>>, p) => g = p) /\ Once(<<g>>, p)
  BY DEF Holds, Once

LEMMA HoldsAppend ==
    ASSUME NEW S, NEW q \in Seq(S), NEW e \in S, NEW p
    PROVE  /\ Holds(Append(q, e), p) => Holds(q, p) \/ e = p
           /\ Once(q, p) /\ ~(Holds(q, p) /\ e = p) => Once(Append(q, e), p)
  <1>1. /\ DOMAIN Append(q, e) = DOMAIN q \cup {Len(q) + 1} /\ Len(q) + 1 \notin DOMAIN q
        /\ Append(q, e)[Len(q) + 1] = e
        /\ \A i \in DOMAIN q : Append(q, e)[i] = q[i]
    BY AppendProperties
  <1> QED BY <1>1 DEF Holds, Once

LEMMA HoldsTail ==
    ASSUME NEW S, NEW q \in Seq(S), q # <<>>, NEW p
    PROVE  /\ Holds(q, Head(q))
           /\ Holds(Tail(q), p) => Holds(q, p)
           /\ Once(q, p) => Once(Tail(q), p) /\ ~(Head(q) = p /\ Holds(Tail(q), p))
  <1>1. /\ Head(q) = q[1] /\ 1 \in DOMAIN q
        /\ \A i \in DOMAIN Tail(q) : i \in Nat \ {0} /\ i + 1 \in DOMAIN q /\ Tail(q)[i] = q[i + 1]
    BY HeadTailProperties
  <1> DEFINE t == Tail(q)
  <1> HIDE DEF t
  <1>2. \A i \in DOMAIN t : i \in Nat \ {0} /\ i + 1 \in DOMAIN q /\ t[i] = q[i + 1]
    BY <1>1 DEF t
  <1>3. Holds(t, p) => Holds(q, p)
    BY <1>2 DEF Holds
  <1>4. ASSUME Once(q, p) PROVE Once(t, p)
    <2> SUFFICES ASSUME NEW i \in DOMAIN t, NEW j \in DOMAIN t, t[i] = p, t[j] = p
                 PROVE  i = j
      BY DEF Once
    <2>1. i + 1 = j + 1
      BY <1>2, <1>4 DEF Once
    <2> QED BY <1>2, <2>1
  <1>5. ASSUME Once(q, p), Head(q) = p, NEW i \in DOMAIN t, t[i] = p PROVE FALSE
    <2>1. i + 1 = 1
      BY <1>1, <1>2, <1>5 DEF Once
    <2> QED BY <1>2, <2>1
  <1> QED BY <1>1, <1>3, <1>4, <1>5 DEF t, Holds

LEMMA HasAppend ==
    ASSUME NEW st \in Stashes, NEW e \in SteerType, NEW p
    PROVE  /\ Has(Append(st, e), p) => Has(st, p) \/ e.prompt = p
           /\ OnceIn(st, p) /\ ~(Has(st, p) /\ e.prompt = p) => OnceIn(Append(st, e), p)
           /\ \A i \in DOMAIN st : i \in DOMAIN Append(st, e) /\ Append(st, e)[i] = st[i]
           /\ \E i \in DOMAIN Append(st, e) : Append(st, e)[i] = e
           /\ \A i \in DOMAIN Append(st, e) :
                 Append(st, e)[i] = e \/ (i \in DOMAIN st /\ Append(st, e)[i] = st[i])
  <1>1. st \in Seq(SteerType)
    BY DEF Stashes
  <1>2. /\ DOMAIN Append(st, e) = DOMAIN st \cup {Len(st) + 1} /\ Len(st) + 1 \notin DOMAIN st
        /\ Append(st, e)[Len(st) + 1] = e
        /\ \A i \in DOMAIN st : Append(st, e)[i] = st[i]
    BY <1>1, AppendProperties
  <1> QED BY <1>2 DEF Has, OnceIn

LEMMA HasTail ==
    ASSUME NEW st \in Stashes, st # <<>>, NEW p
    PROVE  /\ 1 \in DOMAIN st /\ st[1] = Head(st)
           /\ Has(Tail(st), p) => Has(st, p)
           /\ OnceIn(st, p) => OnceIn(Tail(st), p) /\ ~(Head(st).prompt = p /\ Has(Tail(st), p))
           /\ \A i \in DOMAIN Tail(st) : i + 1 \in DOMAIN st /\ Tail(st)[i] = st[i + 1]
  <1>0. st \in Seq(SteerType)
    BY DEF Stashes
  <1>1. /\ Head(st) = st[1] /\ 1 \in DOMAIN st
        /\ \A i \in DOMAIN Tail(st) :
              i \in Nat \ {0} /\ i + 1 \in DOMAIN st /\ Tail(st)[i] = st[i + 1]
    BY <1>0, HeadTailProperties
  <1> DEFINE t == Tail(st)
  <1> HIDE DEF t
  <1>2. \A i \in DOMAIN t : i \in Nat \ {0} /\ i + 1 \in DOMAIN st /\ t[i] = st[i + 1]
    BY <1>1 DEF t
  <1>3. Has(t, p) => Has(st, p)
    BY <1>2 DEF Has
  <1>4. ASSUME OnceIn(st, p) PROVE OnceIn(t, p)
    <2> SUFFICES ASSUME NEW i \in DOMAIN t, NEW j \in DOMAIN t, t[i].prompt = p, t[j].prompt = p
                 PROVE  i = j
      BY DEF OnceIn
    <2>1. i + 1 = j + 1
      BY <1>2, <1>4 DEF OnceIn
    <2> QED BY <1>2, <2>1
  <1>5. ASSUME OnceIn(st, p), Head(st).prompt = p, NEW i \in DOMAIN t, t[i].prompt = p PROVE FALSE
    <2>1. i + 1 = 1
      BY <1>1, <1>2, <1>5 DEF OnceIn
    <2> QED BY <1>2, <2>1
  <1> QED BY <1>1, <1>3, <1>4, <1>5 DEF t, Has

(* The entries kept of a list hold the prompts of the places kept. *)
LEMMA HasEntries ==
    ASSUME NEW st \in Stashes, NEW kept \in SUBSET DOMAIN st, NEW p
    PROVE  LET e == Entries(st, kept)
           IN  /\ e \in Stashes /\ PromptsOf(e) \in Seq(PromptNo)
               /\ \A i \in kept : \E k \in DOMAIN e : e[k] = st[i]
               /\ \A k \in DOMAIN e : \E i \in kept : e[k] = st[i]
               /\ OnceIn(st, p) => OnceIn(e, p) /\ Once(PromptsOf(e), p)
               /\ Holds(PromptsOf(e), p) => \E i \in kept : st[i].prompt = p
  <1> DEFINE e == Entries(st, kept)
             m == Cardinality(kept)
  <1>1. st \in Seq(SteerType) /\ Len(st) \in Nat /\ DOMAIN st = 1..Len(st)
    BY DEF Stashes
  <1>2. e \in Stashes /\ PromptsOf(e) \in Seq(PromptNo)
    BY StashEntries
  <1>3. /\ \A i \in kept : \E k \in DOMAIN e : e[k] = st[i]
        /\ \A k \in DOMAIN e : \E i \in kept : e[k] = st[i]
    BY <1>1, EntriesData
  <1>4. m \in Nat /\ \E g : Lists(g, m, kept)
    BY <1>1, Listed
  <1> HIDE DEF m
  <1> PICK g : Lists(g, m, kept)
    BY <1>4
  <1>5. e = [k \in 1..m |-> st[g[k]]]
    <2>1. kept \in SUBSET (1..Len(st))
      BY <1>1
    <2>2. ListsEntries(g, m, st, kept)
      BY <1>1, <1>4, <2>1, EntriesListed
    <2> QED BY <2>2 DEF ListsEntries
  <1> HIDE DEF e
  <1>6. /\ g \in [1..m -> kept]
        /\ \A i, k \in 1..m : i < k => g[i] < g[k]
    BY DEF Lists
  <1>7. \A i, k \in 1..m : g[i] = g[k] => i = k
    <2> SUFFICES ASSUME NEW i \in 1..m, NEW k \in 1..m, g[i] = g[k] PROVE i = k
      OBVIOUS
    <2>1. g[i] \in Nat /\ g[k] \in Nat
      BY <1>1, <1>6
    <2>2. ~(i < k) /\ ~(k < i)
      BY <1>6, <2>1
    <2> QED BY <1>4, <2>2
  <1>8. OnceIn(st, p) => OnceIn(e, p)
    BY <1>5, <1>6, <1>7 DEF OnceIn
  <1>9. DOMAIN PromptsOf(e) = DOMAIN e /\ \A k \in DOMAIN e : PromptsOf(e)[k] = e[k].prompt
    BY DEF PromptsOf
  <1>10. OnceIn(e, p) => Once(PromptsOf(e), p)
    BY <1>9 DEF OnceIn, Once
  <1>11. Holds(PromptsOf(e), p) => \E i \in kept : st[i].prompt = p
    BY <1>3, <1>9 DEF Holds
  <1> QED BY <1>2, <1>3, <1>8, <1>10, <1>11 DEF e

-----------------------------------------------------------------------------
(* The places of a prompt. *)

(* The prompt p is at x among the places of kind k, when the turns X are     *)
(* under way or run. A gate in flight and its turn are one place.           *)
At(a, X, p, k, x) ==
    \/ k = "queue" /\ x \in Sessions /\ Holds(a.queue[x], p)
    \/ k = "turn" /\ x \in X \cup Starts(a.out) /\ a.turns[x].prompt = p
    \/ k = "turn" /\ \E s \in Sessions : a.gate[s].turn = x /\ a.gate[s].prompt = p
    \/ k = "stash" /\ x = None /\ Has(a.stash, p)
    \/ k = "retained" /\ x = None /\ Has(a.retained, p)

OneCopy(a, p) ==
    /\ \A s \in Sessions : Once(a.queue[s], p)
    /\ OnceIn(a.stash, p) /\ OnceIn(a.retained, p)

OnePlace(a, X, p) ==
    \A k, x, l, y : At(a, X, p, k, x) /\ At(a, X, p, l, y) => k = l /\ x = y

Unique(a, X, p) == OneCopy(a, p) /\ OnePlace(a, X, p)

(* p is in a place of another kind than k0. *)
Loose(a, X, p, k0) == \E k, x : k # k0 /\ At(a, X, p, k, x)

(* What a server that settles its steers has taken stays among the retained *)
(* ones until their turn ends, and never goes out again.                    *)
Shield(a) == IF a.steering = "settles" THEN "retained" ELSE "none"

(* A gate in flight holds the prompt of a turn of its session, which does    *)
(* not run (R), and is not under way once the gate is old.                  *)
Clean(a, X, R) ==
    /\ X \cup Starts(a.out) \cup R \subseteq DOMAIN a.turns
    /\ \A s \in Sessions : a.gate[s].turn # None =>
          /\ a.gate[s].turn \in DOMAIN a.turns
          /\ a.turns[a.gate[s].turn].sess = s
          /\ a.turns[a.gate[s].turn].prompt = a.gate[s].prompt
          /\ a.gate[s].turn \notin R
          /\ a.gate[s].old => a.gate[s].turn \notin X \cup Starts(a.out)

(* A handler that takes no prompt moves those it has, and loses some. *)
Shifts(a, b, X, R) ==
    Clean(a, X, R) =>
        /\ Clean(b, X, R) /\ b.steering = a.steering
        /\ \A p \in PromptNo : Unique(a, X, p) =>
              /\ Unique(b, X, p)
              /\ \A k0 \in {"none", Shield(a)} : Loose(b, X, p, k0) => Loose(a, X, p, k0)

LEMMA ShiftsThen ==
    ASSUME NEW a, NEW b, NEW c, NEW X, NEW R, Shifts(a, b, X, R), Shifts(b, c, X, R)
    PROVE  Shifts(a, c, X, R)
  <1> SUFFICES ASSUME Clean(a, X, R)
               PROVE  /\ Clean(c, X, R) /\ c.steering = a.steering
                      /\ \A p \in PromptNo : Unique(a, X, p) =>
                            /\ Unique(c, X, p)
                            /\ \A k0 \in {"none", Shield(a)} :
                                  Loose(c, X, p, k0) => Loose(a, X, p, k0)
    BY DEF Shifts
  <1>1. Clean(b, X, R) /\ Clean(c, X, R) /\ c.steering = a.steering /\ Shield(b) = Shield(a)
    BY DEF Shifts, Shield
  <1> QED BY <1>1 DEF Shifts

(* The queues, the stash and the turns stay; gates and steers may go. *)
Fewer(a, b) ==
    /\ b.queue = a.queue /\ b.stash = a.stash /\ b.steering = a.steering
    /\ b.turns = a.turns /\ Starts(b.out) = Starts(a.out)
    /\ \A s \in Sessions : b.gate[s] = a.gate[s] \/ b.gate[s].turn = None
    /\ \/ b.retained = a.retained
       \/ \E kept \in SUBSET DOMAIN a.retained : b.retained = Entries(a.retained, kept)

LEMMA FewerShifts ==
    ASSUME NEW a \in AppType, NEW b \in AppType, Fewer(a, b), NEW X, NEW R
    PROVE  /\ Shifts(a, b, X, R)
           /\ \A p \in PromptNo : \A k, x : At(b, X, p, k, x) => At(a, X, p, k, x)
  <1>1. \A s \in Sessions : b.gate[s].turn = None => b.gate[s].prompt = None
    BY Fields DEF Gates, GateType
  <1>2. ASSUME NEW p \in PromptNo
        PROVE  /\ Has(b.retained, p) => Has(a.retained, p)
               /\ OnceIn(a.retained, p) => OnceIn(b.retained, p)
    <2>1. ASSUME NEW kept \in SUBSET DOMAIN a.retained, b.retained = Entries(a.retained, kept)
          PROVE  /\ Has(b.retained, p) => Has(a.retained, p)
                 /\ OnceIn(a.retained, p) => OnceIn(b.retained, p)
      BY <2>1, HasEntries, Fields DEF Has
    <2> QED BY <2>1 DEF Fewer
  <1>3. ASSUME NEW p \in PromptNo, NEW k, NEW x, At(b, X, p, k, x)
        PROVE  At(a, X, p, k, x)
    <2>1. p # None
      BY DEF PromptNo
    <2>2. CASE k = "turn" /\ \E s \in Sessions : b.gate[s].turn = x /\ b.gate[s].prompt = p
      BY <1>1, <2>1, <2>2 DEF Fewer, At
    <2>3. CASE k = "retained" /\ x = None /\ Has(b.retained, p)
      BY <1>2, <2>3 DEF At
    <2> QED BY <1>3, <2>2, <2>3 DEF Fewer, At
  <1>4. ASSUME NEW p \in PromptNo, Unique(a, X, p)
        PROVE  Unique(b, X, p)
    BY <1>2, <1>3, <1>4 DEF Fewer, Unique, OneCopy, OnePlace
  <1>5. Clean(a, X, R) => Clean(b, X, R)
    BY DEF Clean, Fewer
  <1> QED BY <1>3, <1>4, <1>5 DEF Shifts, Loose, Fewer

LEMMA ShiftsSelf ==
    ASSUME NEW a \in AppType, NEW X, NEW R
    PROVE  Shifts(a, a, X, R)
  BY FewerShifts DEF Fewer

(* The gates of the sessions gated give their prompts back to the queues:    *)
(* none of them is under way.                                               *)
LEMMA RegatedShifts ==
    ASSUME NEW a \in AppType, NEW b \in AppType, NEW gated \in SUBSET Sessions,
           NEW g, g.turn = None, g.prompt = None,
           Apart(a, b), Restaged(a, b, gated, g), NEW X, NEW R,
           \A s \in gated : a.gate[s].turn # None =>
               a.gate[s].turn \notin X \cup Starts(a.out)
    PROVE  Shifts(a, b, X, R)
  <1> SUFFICES ASSUME Clean(a, X, R) PROVE Shifts(a, b, X, R)
    BY DEF Shifts
  <1>1. /\ b.turns = a.turns /\ b.out = a.out /\ b.stash = a.stash
        /\ b.retained = a.retained /\ b.steering = a.steering
        /\ \A s \in Sessions : b.gate[s] = IF s \in gated THEN g ELSE a.gate[s]
        /\ \A s \in Sessions :
              b.queue[s] = IF s \in gated /\ a.gate[s].turn # None
                             THEN <<a.gate[s].prompt>> \o a.queue[s] ELSE a.queue[s]
    BY DEF Apart, SameSteers, Restaged
  <1>2. /\ \A s \in Sessions : a.gate[s].turn = None => a.gate[s].prompt = None
        /\ \A s \in Sessions : a.queue[s] \in Seq(PromptNo)
        /\ \A s \in Sessions : a.gate[s].turn # None => a.gate[s].prompt \in PromptNo
    BY Fields DEF Gates, GateType, Queues, PromptNo
  <1>3. Clean(b, X, R)
    BY <1>1 DEF Clean
  <1> DEFINE Gave(p, s) == s \in gated /\ a.gate[s].turn # None /\ a.gate[s].prompt = p
  <1>4. ASSUME NEW p \in PromptNo, Unique(a, X, p)
        PROVE  /\ Unique(b, X, p)
               /\ \A k0 \in {"none", Shield(a)} : Loose(b, X, p, k0) => Loose(a, X, p, k0)
    <2>0. p # None
      BY DEF PromptNo
    <2>1. \A s : Gave(p, s) => /\ At(a, X, p, "turn", a.gate[s].turn)
                               /\ ~At(b, X, p, "turn", a.gate[s].turn)
      <3> SUFFICES ASSUME NEW s, Gave(p, s)
                   PROVE  /\ At(a, X, p, "turn", a.gate[s].turn)
                          /\ ~At(b, X, p, "turn", a.gate[s].turn)
        OBVIOUS
      <3>1. s \in Sessions /\ At(a, X, p, "turn", a.gate[s].turn)
        BY DEF At
      <3>2. \A y \in Sessions : b.gate[y].turn = a.gate[s].turn /\ b.gate[y].prompt = p => FALSE
        BY <1>1, <2>0, <3>1 DEF Clean
      <3> QED BY <1>1, <3>1, <3>2 DEF At
    <2>2. \A s, y : Gave(p, s) /\ Gave(p, y) => s = y
      <3> SUFFICES ASSUME NEW s, NEW y, Gave(p, s), Gave(p, y) PROVE s = y
        OBVIOUS
      <3>1. a.gate[s].turn = a.gate[y].turn
        BY <1>4, <2>1 DEF Unique, OnePlace
      <3> QED BY <3>1 DEF Clean
    <2>3. \A s \in Sessions : /\ Holds(b.queue[s], p) => Holds(a.queue[s], p) \/ Gave(p, s)
                              /\ Once(b.queue[s], p)
      <3> SUFFICES ASSUME NEW s \in Sessions
                   PROVE  /\ Holds(b.queue[s], p) => Holds(a.queue[s], p) \/ Gave(p, s)
                          /\ Once(b.queue[s], p)
        OBVIOUS
      <3>1. Once(a.queue[s], p)
        BY <1>4 DEF Unique, OneCopy
      <3>2. CASE s \in gated /\ a.gate[s].turn # None
        <4>1. <<a.gate[s].prompt>> \in Seq(PromptNo) /\ a.queue[s] \in Seq(PromptNo)
          BY <1>2, <3>2
        <4>2. Gave(p, s) => ~Holds(a.queue[s], p)
          <5>1. Holds(a.queue[s], p) => At(a, X, p, "queue", s)
            BY DEF At
          <5> QED BY <1>4, <2>1, <5>1 DEF Unique, OnePlace
        <4>3. b.queue[s] = <<a.gate[s].prompt>> \o a.queue[s]
          BY <1>1, <3>2
        <4> DEFINE one == <<a.gate[s].prompt>>
        <4>4. (Holds(one, p) => Gave(p, s)) /\ Once(one, p)
          BY <3>2, HoldsSingle
        <4>5. one \in Seq(PromptNo) /\ b.queue[s] = one \o a.queue[s]
          BY <4>1, <4>3
        <4> HIDE DEF one, Gave
        <4> QED BY <3>1, <4>1, <4>2, <4>4, <4>5, HoldsConcat
      <3>3. CASE ~(s \in gated /\ a.gate[s].turn # None)
        BY <1>1, <3>1, <3>3
      <3> QED BY <3>2, <3>3
    <2>4. ASSUME NEW k, NEW x, At(b, X, p, k, x)
          PROVE  At(a, X, p, k, x) \/ (k = "queue" /\ x \in Sessions /\ Gave(p, x))
      <3>1. CASE k = "queue" /\ x \in Sessions /\ Holds(b.queue[x], p)
        BY <2>3, <3>1 DEF At
      <3>2. CASE k = "turn" /\ \E s \in Sessions : b.gate[s].turn = x /\ b.gate[s].prompt = p
        BY <1>1, <2>0, <3>2 DEF At
      <3> QED BY <1>1, <2>4, <3>1, <3>2 DEF At
    <2> HIDE DEF Gave
    <2>5. OnePlace(b, X, p)
      <3> SUFFICES ASSUME NEW k, NEW x, NEW l, NEW y, At(b, X, p, k, x), At(b, X, p, l, y)
                   PROVE  k = l /\ x = y
        BY DEF OnePlace
      <3>1. CASE At(a, X, p, k, x) /\ At(a, X, p, l, y)
        BY <1>4, <3>1 DEF Unique, OnePlace
      <3>2. ASSUME NEW s, Gave(p, s), NEW m, NEW z, At(a, X, p, m, z), At(b, X, p, m, z)
            PROVE  FALSE
        BY <1>4, <2>1, <3>2 DEF Unique, OnePlace
      <3> QED BY <2>2, <2>4, <3>1, <3>2
    <2>6. Unique(b, X, p)
      BY <1>1, <1>4, <2>3, <2>5 DEF Unique, OneCopy
    <2>7. \A k0 \in {"none", Shield(a)} : Loose(b, X, p, k0) => Loose(a, X, p, k0)
      <3>1. \A k0 \in {"none", Shield(a)} : k0 # "turn"
        BY DEF Shield
      <3> QED BY <2>1, <2>4, <3>1 DEF Loose
    <2> QED BY <2>6, <2>7
  <1> QED BY <1>1, <1>3, <1>4 DEF Shifts

(* The head of the queue on screen goes out as a new turn. *)
LEMMA HeadSentShifts ==
    ASSUME NEW a \in AppType, NEW b \in AppType, HeadSent(a, b), NEW X, NEW R
    PROVE  Shifts(a, b, X, R)
  <1> DEFINE h == Head(a.queue[a.sel])
             t == Len(a.turns) + 1
             S == Starts(a.out)
  <1> SUFFICES ASSUME Clean(a, X, R) PROVE Shifts(a, b, X, R)
    BY DEF Shifts
  <1>1. /\ a.sel \in Sessions /\ a.queue[a.sel] \in Seq(PromptNo) /\ a.queue[a.sel] # <<>>
        /\ h \in PromptNo /\ b.steering = a.steering /\ b.stash = a.stash
        /\ b.retained = a.retained /\ b.gate[a.sel] = InFlight(t, h)
        /\ b.queue[a.sel] = Tail(a.queue[a.sel])
        /\ \A s \in Sessions \ {a.sel} : b.gate[s] = a.gate[s] /\ b.queue[s] = a.queue[s]
    <2>1. a.sel \in Sessions /\ a.queue[a.sel] \in Seq(PromptNo)
      BY Fields DEF Queues
    <2> QED BY <2>1 DEF HeadSent, Submitted, Elsewhere, Apart, SameSteers
  <1>2. /\ \A x \in DOMAIN a.turns : b.turns[x] = a.turns[x] /\ x # t /\ x # None
        /\ DOMAIN b.turns = DOMAIN a.turns \cup {t} /\ t # None
        /\ b.turns[t] = [sess |-> a.sel, prompt |-> h]
    <2>1. Submitted(a, b, h)
      BY DEF HeadSent
    <2>2. /\ Len(b.turns) = Len(a.turns) + 1 /\ b.turns[t] = [sess |-> a.sel, prompt |-> h]
          /\ \A x \in DOMAIN a.turns : b.turns[x] = a.turns[x]
      BY <2>1, SubmittedGrows
    <2>3. a.turns \in TurnTables /\ b.turns \in TurnTables
      BY Fields
    <2>4. /\ Len(a.turns) \in Nat /\ DOMAIN a.turns = 1..Len(a.turns)
          /\ DOMAIN b.turns = 1..Len(b.turns)
      BY <2>3, TableFacts
    <2> QED BY <2>2, <2>4 DEF None
  <1>3. Starts(b.out) = S \cup {t}
    <2> DEFINE c == Cmd("start", a.sel, t, h)
    <2>1. a.out \in Seq(CmdType) /\ t \in Nat
      <3>1. a.turns \in TurnTables
        BY Fields
      <3> QED BY <3>1, TableFacts, Fields DEF Outputs
    <2>2. c \in CmdType /\ c.kind = "start" /\ c.turn = t
      BY <1>1, <2>1 DEF Cmd, CmdType, PromptNo
    <2>3. b.out = Append(a.out, c)
      BY DEF HeadSent, Submitted
    <2> HIDE DEF c, t
    <2> QED BY <2>1, <2>2, <2>3, StartsAppend
  <1>4. \A s \in Sessions : a.gate[s].turn = None => a.gate[s].prompt = None
    BY Fields DEF Gates, GateType
  <1> HIDE DEF h, t, S
  <1>5. Clean(b, X, R)
    <2>1. X \cup Starts(b.out) \cup R \subseteq DOMAIN b.turns
      BY <1>2, <1>3 DEF Clean, S
    <2>2. t \notin R /\ t \notin X
      BY <1>2 DEF Clean
    <2>3. ASSUME NEW s \in Sessions, b.gate[s].turn # None
          PROVE  /\ b.gate[s].turn \in DOMAIN b.turns
                 /\ b.turns[b.gate[s].turn].sess = s
                 /\ b.turns[b.gate[s].turn].prompt = b.gate[s].prompt
                 /\ b.gate[s].turn \notin R
                 /\ b.gate[s].old => b.gate[s].turn \notin X \cup Starts(b.out)
      <3>1. CASE s = a.sel
        BY <1>1, <1>2, <2>2, <3>1 DEF InFlight
      <3>2. CASE s # a.sel
        BY <1>1, <1>2, <1>3, <2>3, <3>2 DEF Clean, S
      <3> QED BY <3>1, <3>2
    <2> QED BY <2>1, <2>3 DEF Clean
  <1>6. ASSUME NEW p \in PromptNo, Unique(a, X, p)
        PROVE  /\ Unique(b, X, p)
               /\ \A k0 \in {"none", Shield(a)} : Loose(b, X, p, k0) => Loose(a, X, p, k0)
    <2>0. p # None
      BY DEF PromptNo
    <2>1. /\ Holds(b.queue[a.sel], p) => Holds(a.queue[a.sel], p)
          /\ Once(b.queue[a.sel], p)
          /\ p = h => Holds(a.queue[a.sel], p) /\ ~Holds(b.queue[a.sel], p)
      BY <1>1, <1>6, HoldsTail DEF Unique, OneCopy, h
    <2>2. p = h => At(a, X, p, "queue", a.sel) /\ ~At(b, X, p, "queue", a.sel)
      BY <1>1, <2>1 DEF At
    <2>3. ASSUME NEW k, NEW x, At(b, X, p, k, x)
          PROVE  At(a, X, p, k, x) \/ (k = "turn" /\ x = t /\ p = h)
      <3>1. CASE k = "queue" /\ x \in Sessions /\ Holds(b.queue[x], p)
        BY <1>1, <2>1, <3>1 DEF At
      <3>2. CASE k = "turn" /\ x \in X \cup Starts(b.out) /\ b.turns[x].prompt = p
        <4>1. x = t \/ (x \in X \cup S /\ x \in DOMAIN a.turns)
          BY <1>3, <3>2 DEF Clean, S
        <4>2. CASE x = t
          BY <1>2, <3>2, <4>2
        <4>3. CASE x \in X \cup S /\ x \in DOMAIN a.turns
          BY <1>2, <3>2, <4>3 DEF At, S
        <4> QED BY <4>1, <4>2, <4>3
      <3>3. CASE k = "turn" /\ \E s \in Sessions : b.gate[s].turn = x /\ b.gate[s].prompt = p
        BY <1>1, <3>3 DEF At, InFlight
      <3> QED BY <1>1, <2>3, <3>1, <3>2, <3>3 DEF At
    <2>4. OnePlace(b, X, p)
      <3> SUFFICES ASSUME NEW k, NEW x, NEW l, NEW y, At(b, X, p, k, x), At(b, X, p, l, y)
                   PROVE  k = l /\ x = y
        BY DEF OnePlace
      <3>1. CASE At(a, X, p, k, x) /\ At(a, X, p, l, y)
        BY <1>6, <3>1 DEF Unique, OnePlace
      <3>2. ASSUME p = h, NEW m, NEW z, At(a, X, p, m, z), At(b, X, p, m, z)
            PROVE  FALSE
        BY <1>6, <2>2, <3>2 DEF Unique, OnePlace
      <3> QED BY <2>3, <3>1, <3>2
    <2>5. Unique(b, X, p)
      <3>1. \A s \in Sessions : Once(b.queue[s], p)
        BY <1>1, <1>6, <2>1 DEF Unique, OneCopy
      <3> QED BY <1>1, <1>6, <2>4, <3>1 DEF Unique, OneCopy
    <2>6. \A k0 \in {"none", Shield(a)} : Loose(b, X, p, k0) => Loose(a, X, p, k0)
      <3>1. \A k0 \in {"none", Shield(a)} : k0 # "queue"
        BY DEF Shield
      <3> QED BY <2>2, <2>3, <3>1 DEF Loose
    <2> QED BY <2>5, <2>6
  <1> QED BY <1>1, <1>5, <1>6 DEF Shifts

(* A drain finds the gate on screen empty or old: its turn is not under way. *)
LEMMA DrainedShifts ==
    ASSUME NEW a \in AppType, NEW b \in AppType, Drained(a, b), NEW X, NEW R
    PROVE  Shifts(a, b, X, R)
  <1> SUFFICES ASSUME Clean(a, X, R) PROVE Shifts(a, b, X, R)
    BY DEF Shifts
  <1>1. CASE b = a
    BY <1>1, ShiftsSelf
  <1>2. ASSUME ~DrainBlocked(a), NEW c \in AppType, Apart(a, c),
               Restaged(a, c, Gated(a, {a.sel}), NoGate), b = c \/ HeadSent(c, b)
        PROVE  Shifts(a, b, X, R)
    <2>1. Gated(a, {a.sel}) \in SUBSET Sessions
      BY Fields DEF Gated
    <2>2. \A s \in Gated(a, {a.sel}) : a.gate[s].turn # None =>
              a.gate[s].turn \notin X \cup Starts(a.out)
      BY <1>2, <2>1 DEF Gated, DrainBlocked, Clean
    <2>3. Shifts(a, c, X, R)
      <3>1. NoGate.turn = None /\ NoGate.prompt = None
        BY DEF NoGate
      <3> QED BY <1>2, <2>1, <2>2, <3>1, RegatedShifts
    <2>4. Shifts(c, b, X, R)
      BY <1>2, HeadSentShifts, ShiftsSelf
    <2> QED BY <2>3, <2>4, ShiftsThen
  <1> QED BY <1>1, <1>2 DEF Drained, Refilled

(* Retained steers return to the queues: those at the places leave[s] to     *)
(* that of session s, while those at the places stay remain.                *)
GivenBack(a, b, stay, leave) ==
    /\ stay \in SUBSET DOMAIN a.retained
    /\ leave \in [Sessions -> SUBSET DOMAIN a.retained]
    /\ \A s \in Sessions : stay \cap leave[s] = {}
    /\ \A s, y \in Sessions : s # y => leave[s] \cap leave[y] = {}
    /\ b.retained = Entries(a.retained, stay)
    /\ \A s \in Sessions :
          \/ b.queue[s] = a.queue[s]
          \/ b.queue[s] = PromptsOf(Entries(a.retained, leave[s])) \o a.queue[s]

Gave(a, leave, p, s) == s \in Sessions /\ \E i \in leave[s] : a.retained[i].prompt = p

LEMMA GivenBackPlaces ==
    ASSUME NEW a \in AppType, NEW b \in AppType, NEW stay, NEW leave,
           GivenBack(a, b, stay, leave), b.stash = a.stash, b.gate = a.gate,
           b.turns = a.turns, b.out = a.out, NEW X, NEW p \in PromptNo, Unique(a, X, p)
    PROVE  /\ Unique(b, X, p) /\ (Loose(b, X, p, "none") => Loose(a, X, p, "none"))
           /\ (\A s : ~Gave(a, leave, p, s)) =>
                 \A k, x : At(b, X, p, k, x) => At(a, X, p, k, x)
  <1>0. /\ a.retained \in Stashes /\ stay \in SUBSET DOMAIN a.retained
        /\ \A s \in Sessions : /\ leave[s] \in SUBSET DOMAIN a.retained
                               /\ stay \cap leave[s] = {}
                               /\ a.queue[s] \in Seq(PromptNo)
        /\ \A s, y \in Sessions : s # y => leave[s] \cap leave[y] = {}
    BY Fields DEF GivenBack, Queues
  <1>1. \A s : Gave(a, leave, p, s) => At(a, X, p, "retained", None)
    BY <1>0 DEF At, Has, Gave
  <1>2. /\ Has(b.retained, p) => \E i \in stay : a.retained[i].prompt = p
        /\ OnceIn(b.retained, p) /\ OnceIn(a.retained, p)
    <2>1. OnceIn(a.retained, p) /\ b.retained = Entries(a.retained, stay)
      BY DEF Unique, OneCopy, GivenBack
    <2> QED BY <1>0, <2>1, HasEntries DEF Has
  <1>3. \A s : Gave(a, leave, p, s) => ~Has(b.retained, p)
    BY <1>0, <1>2 DEF OnceIn, Gave
  <1>4. \A s, y : Gave(a, leave, p, s) /\ Gave(a, leave, p, y) => s = y
    BY <1>0, <1>2 DEF OnceIn, Gave
  <1>5. ASSUME NEW s \in Sessions
        PROVE  /\ Holds(b.queue[s], p) => Holds(a.queue[s], p) \/ Gave(a, leave, p, s)
               /\ Once(b.queue[s], p)
    <2> DEFINE r == PromptsOf(Entries(a.retained, leave[s]))
    <2>1. /\ r \in Seq(PromptNo) /\ Once(r, p) /\ (Holds(r, p) => Gave(a, leave, p, s))
          /\ a.queue[s] \in Seq(PromptNo) /\ Once(a.queue[s], p)
      BY <1>0, <1>2, HasEntries DEF Unique, OneCopy, Gave
    <2>2. Gave(a, leave, p, s) => ~Holds(a.queue[s], p)
      <3>1. Holds(a.queue[s], p) => At(a, X, p, "queue", s)
        BY DEF At
      <3> QED BY <1>1, <3>1 DEF Unique, OnePlace
    <2>3. b.queue[s] = r \o a.queue[s] \/ b.queue[s] = a.queue[s]
      BY DEF GivenBack
    <2> HIDE DEF r
    <2>4. CASE b.queue[s] = a.queue[s]
      BY <2>1, <2>4
    <2>5. CASE b.queue[s] = r \o a.queue[s]
      <3>1. /\ Holds(r \o a.queue[s], p) => Holds(r, p) \/ Holds(a.queue[s], p)
            /\ Once(r \o a.queue[s], p)
        BY <2>1, <2>2, HoldsConcat
      <3> QED BY <2>1, <2>5, <3>1
    <2> QED BY <2>3, <2>4, <2>5
  <1>6. ASSUME NEW k, NEW x, At(b, X, p, k, x)
        PROVE  At(a, X, p, k, x) \/ (k = "queue" /\ Gave(a, leave, p, x))
    <2>1. CASE k = "queue" /\ x \in Sessions /\ Holds(b.queue[x], p)
      BY <1>5, <2>1 DEF At
    <2>2. CASE k = "retained" /\ x = None /\ Has(b.retained, p)
      BY <1>0, <1>2, <2>2 DEF At, Has
    <2> QED BY <1>6, <2>1, <2>2 DEF At
  <1>7. OnePlace(b, X, p)
    <2> SUFFICES ASSUME NEW k, NEW x, NEW l, NEW y, At(b, X, p, k, x), At(b, X, p, l, y)
                 PROVE  k = l /\ x = y
      BY DEF OnePlace
    <2>1. CASE At(a, X, p, k, x) /\ At(a, X, p, l, y)
      BY <2>1 DEF Unique, OnePlace
    <2>2. ASSUME NEW s, Gave(a, leave, p, s), NEW m, NEW z,
                 At(a, X, p, m, z), At(b, X, p, m, z)
          PROVE  FALSE
      <3>1. m = "retained" /\ z = None
        BY <1>1, <2>2 DEF Unique, OnePlace
      <3> QED BY <1>3, <2>2, <3>1 DEF At
    <2> QED BY <1>4, <1>6, <2>1, <2>2
  <1>8. Unique(b, X, p)
    BY <1>2, <1>5, <1>7 DEF Unique, OneCopy
  <1> QED BY <1>1, <1>6, <1>8 DEF Loose

(* The retained steers of the turns ts end with them: they return to the     *)
(* queues, unless the server settles them.                                  *)
LEMMA RestockedShifts ==
    ASSUME NEW a \in AppType, NEW b \in AppType, NEW ts, Restocked(a, b, ts),
           b.stash = a.stash, b.steering = a.steering, b.gate = a.gate,
           b.turns = a.turns, b.out = a.out, NEW X, NEW R
    PROVE  Shifts(a, b, X, R)
  <1>0. Staying(a, ts) \in SUBSET DOMAIN a.retained
    BY DEF Staying
  <1>1. CASE a.steering = "settles"
    <2>1. \A s \in Sessions : b.queue[s] = a.queue[s]
      BY <1>1 DEF Restocked
    <2>2. b.queue = a.queue
      BY <2>1, Fields DEF Queues
    <2>3. Fewer(a, b)
      BY <1>0, <2>2 DEF Fewer, Restocked
    <2> QED BY <2>3, FewerShifts
  <1>2. CASE a.steering # "settles"
    <2> DEFINE leave == [s \in Sessions |-> Leaving(a, ts, s)]
    <2>1. GivenBack(a, b, Staying(a, ts), leave)
      <3>1. \A s \in Sessions : leave[s] = Leaving(a, ts, s)
        OBVIOUS
      <3>2. \A s \in Sessions : /\ Leaving(a, ts, s) \in SUBSET DOMAIN a.retained
                               /\ Staying(a, ts) \cap Leaving(a, ts, s) = {}
        BY DEF Leaving, Staying
      <3>3. \A s, y \in Sessions : s # y => Leaving(a, ts, s) \cap Leaving(a, ts, y) = {}
        BY DEF Leaving
      <3>4. leave \in [Sessions -> SUBSET DOMAIN a.retained]
        BY <3>2
      <3> HIDE DEF leave
      <3> QED BY <1>0, <1>2, <3>1, <3>2, <3>3, <3>4 DEF GivenBack, Restocked
    <2>2. Shield(a) = "none"
      BY <1>2 DEF Shield
    <2>3. Clean(a, X, R) => Clean(b, X, R)
      BY DEF Clean
    <2> HIDE DEF leave
    <2>4. ASSUME NEW p \in PromptNo, Unique(a, X, p)
          PROVE  Unique(b, X, p) /\ (Loose(b, X, p, "none") => Loose(a, X, p, "none"))
      BY <2>1, <2>4, GivenBackPlaces
    <2> QED BY <2>2, <2>3, <2>4 DEF Shifts
  <1> QED BY <1>1, <1>2


-----------------------------------------------------------------------------
(* The handlers that take no prompt. *)

LEMMA AskedFewer ==
    ASSUME NEW a \in AppType, NEW b \in AppType, SameSteers(a, b),
           b.queue = a.queue, b.gate = a.gate, b.turns = a.turns,
           NEW k \in {"hydrate", "interrupt"}, NEW s \in Sessions, NEW t \in Nat,
           b.out \in {a.out, Append(a.out, Cmd(k, s, t, None))}
    PROVE  Fewer(a, b)
  <1>1. Starts(b.out) = Starts(a.out)
    <2>1. CASE b.out = a.out
      BY <2>1
    <2>2. CASE b.out = Append(a.out, Cmd(k, s, t, None))
      <3> DEFINE c == Cmd(k, s, t, None)
      <3>1. c \in CmdType /\ c.kind # "start"
        BY DEF Cmd, CmdType, None
      <3>2. a.out \in Seq(CmdType)
        BY Fields DEF Outputs
      <3> HIDE DEF c
      <3> QED BY <2>2, <3>1, <3>2, StartsAppend DEF c
    <2> QED BY <2>1, <2>2
  <1> QED BY <1>1 DEF Fewer, SameSteers

LEMMA ProbedShifts ==
    ASSUME NEW a \in AppType, NEW b \in AppType, Probed(a, b), NEW X, NEW R
    PROVE  Shifts(a, b, X, R) /\ b.retained = a.retained
  <1>1. a.sel \in Sessions /\ None \in Nat
    BY Fields DEF None
  <1>2. Fewer(a, b)
    BY <1>1, AskedFewer DEF Probed, Apart
  <1> QED BY <1>2, FewerShifts DEF Probed, Apart, SameSteers

LEMMA ResetShifts ==
    ASSUME NEW a \in AppType, NEW b \in AppType, Reset(a, b), NEW X, NEW R
    PROVE  Shifts(a, b, X, R) /\ b.retained = a.retained
  <1>1. PICK c \in AppType : Cleared(a, c) /\ Drained(c, b)
    BY DEF Reset
  <1>2. Fewer(a, c)
    BY <1>1 DEF Cleared, Apart, SameSteers, Unsubmitted, Fewer
  <1>3. Shifts(a, c, X, R) /\ Shifts(c, b, X, R)
    BY <1>1, <1>2, FewerShifts, DrainedShifts
  <1> QED BY <1>1, <1>3, ShiftsThen DEF Cleared, Drained, Apart, SameSteers

LEMMA InterruptShifts ==
    ASSUME NEW a \in AppType, NEW X, NEW R
    PROVE  LET b == Interrupt(a) IN Shifts(a, b, X, R) /\ b.retained = a.retained
  <1> DEFINE b == Interrupt(a)
  <1> SUFFICES Shifts(a, b, X, R) /\ b.retained = a.retained
    OBVIOUS
  <1>1. b \in AppType /\ (Stopped(a, b) \/ b = a \/ Probed(a, b) \/ Reset(a, b))
    BY InterruptData
  <1> HIDE DEF b
  <1>2. CASE Stopped(a, b)
    <2>1. a.sel \in Sessions /\ Live(a) \in Nat
      BY Fields DEF Live, Marks
    <2>2. Fewer(a, b)
      BY <1>1, <1>2, <2>1, AskedFewer DEF Stopped
    <2> QED BY <1>1, <1>2, <2>2, FewerShifts DEF Stopped, SameSteers
  <1>3. CASE b = a
    BY <1>3, ShiftsSelf
  <1>4. CASE Probed(a, b) \/ Reset(a, b)
    BY <1>1, <1>4, ProbedShifts, ResetShifts
  <1> QED BY <1>1, <1>2, <1>3, <1>4

LEMMA SwitchShifts ==
    ASSUME NEW a \in AppType, NEW s \in Sessions, NEW X, NEW R
    PROVE  LET b == Switch(a, s) IN Shifts(a, b, X, R) /\ b.retained = a.retained
  <1> DEFINE b == Switch(a, s)
  <1>1. b \in AppType /\ \E c \in AppType : Moved(a, c, s) /\ Drained(c, b)
    BY SwitchData
  <1> HIDE DEF b
  <1> PICK c \in AppType : Moved(a, c, s) /\ Drained(c, b)
    BY <1>1
  <1>2. Fewer(a, c)
    BY DEF Moved, SameSteers, Unsubmitted, Fewer
  <1>3. Shifts(a, c, X, R) /\ Shifts(c, b, X, R)
    BY <1>1, <1>2, FewerShifts, DrainedShifts
  <1>4. Shifts(a, b, X, R) /\ b.retained = a.retained
    BY <1>1, <1>3, ShiftsThen DEF Moved, Drained, Apart, SameSteers
  <1> QED BY <1>4 DEF b

LEMMA TickShifts ==
    ASSUME NEW a \in AppType, NEW due, NEW X, NEW R
    PROVE  LET b == TickOf(a, due) IN Shifts(a, b, X, R) /\ b.retained = a.retained
  <1> DEFINE d == Drain(a)
             b == Watchdog(d, due)
  <1>1. d \in AppType /\ Drained(a, d)
    BY DrainData
  <1>2. TickOf(a, due) = b
    BY DEF TickOf
  <1> HIDE DEF d
  <1>3. b \in AppType /\ (Quiet(d, b) \/ Probed(d, b) \/ Reset(d, b))
    BY <1>1, WatchdogData
  <1> HIDE DEF b
  <1>4. CASE Quiet(d, b)
    <2>1. Fewer(d, b) /\ b.retained = d.retained
      BY <1>4 DEF Quiet, Apart, SameSteers, Unsubmitted, Fewer
    <2>2. Shifts(d, b, X, R) /\ b.retained = d.retained
      BY <1>1, <1>3, <2>1, FewerShifts
    <2> QED BY <1>1, <1>2, <1>3, <2>2, DrainedShifts, ShiftsThen DEF Drained, Apart, SameSteers
  <1>5. CASE Probed(d, b) \/ Reset(d, b)
    <2>1. Shifts(d, b, X, R) /\ b.retained = d.retained
      BY <1>1, <1>3, <1>5, ProbedShifts, ResetShifts
    <2> QED BY <1>1, <1>2, <1>3, <2>1, DrainedShifts, ShiftsThen DEF Drained, Apart, SameSteers
  <1> QED BY <1>3, <1>4, <1>5

(* What the events of a turn under way leave of the places. *)
LEMMA EventFewer ==
    ASSUME NEW a \in AppType, NEW t \in Nat \ {None}, TurnSession(a, t) \in Sessions
    PROVE  /\ Fewer(a, Started(a, t)) /\ Started(a, t).retained = a.retained
           /\ Fewer(a, Delta(a, t)) /\ Delta(a, t).retained = a.retained
           /\ Fewer(a, Tool(a, t)) /\ Tool(a, t).retained = a.retained
           /\ t \notin a.done =>
                 Started(a, t).gate = [a.gate EXCEPT ![TurnSession(a, t)] =
                                          IF @.turn = t THEN NoGate ELSE @]
  <1>0. /\ NoGate.turn = None /\ a.gate \in [Sessions -> GateType]
        /\ Fewer(a, a)
    BY Fields DEF NoGate, Gates, Fewer
  <1>1. ASSUME NEW b, Bound(a, b, t), b.gate = a.gate PROVE Fewer(a, b) /\ b.retained = a.retained
    BY <1>1 DEF Bound, SameSteers, Unsubmitted, Fewer
  <1>2. ASSUME NEW b, Opened(a, b, t) PROVE Fewer(a, b) /\ b.retained = a.retained
    <2>1. \A s \in Sessions : b.gate[s] = a.gate[s] \/ b.gate[s].turn = None
      BY <1>0, <1>2 DEF Opened
    <2> QED BY <1>2, <2>1 DEF Opened, Bound, SameSteers, Unsubmitted, Fewer
  <1>3. ASSUME NEW b, Withheld(a, b) PROVE Fewer(a, b) /\ b.retained = a.retained
    BY <1>3 DEF Withheld, SameSteers, Unsubmitted, Fewer
  <1>4. Fewer(a, Started(a, t)) /\ Started(a, t).retained = a.retained
    <2> DEFINE b == Started(a, t)
    <2>1. b = a \/ Opened(a, b, t)
      BY StartedData
    <2> HIDE DEF b
    <2>2. Fewer(a, b) /\ b.retained = a.retained
      BY <1>0, <1>2, <2>1
    <2> QED BY <2>2 DEF b
  <1>5. Fewer(a, Delta(a, t)) /\ Delta(a, t).retained = a.retained
    <2> DEFINE b == Delta(a, t)
    <2>1. b = a \/ Withheld(a, b) \/ (Bound(a, b, t) /\ b.gate = a.gate)
      BY DeltaData
    <2> HIDE DEF b
    <2>2. Fewer(a, b) /\ b.retained = a.retained
      BY <1>0, <1>1, <1>3, <2>1
    <2> QED BY <2>2 DEF b
  <1>6. Fewer(a, Tool(a, t)) /\ Tool(a, t).retained = a.retained
    <2> DEFINE b == Tool(a, t)
    <2>1. Apart(a, b) /\ Unsubmitted(a, b) /\ b.gate = a.gate /\ b.queue = a.queue
      BY ToolData
    <2> HIDE DEF b
    <2>2. Fewer(a, b) /\ b.retained = a.retained
      BY <2>1 DEF Apart, SameSteers, Unsubmitted, Fewer
    <2> QED BY <2>2 DEF b
  <1>7. t \notin a.done => Opened(a, Started(a, t), t)
    BY StartedData
  <1> QED BY <1>4, <1>5, <1>6, <1>7 DEF Opened

(* A terminal releases the gate of its turn, moves the steers the turn       *)
(* retained and drains the queue.                                           *)
LEMMA ConcludedPlaces ==
    ASSUME NEW a \in AppType, NEW b \in AppType, NEW t \in Nat, Concluded(a, b, t)
    PROVE  /\ \E c \in AppType :
                 /\ Fewer(a, c) /\ c.gate = [a.gate EXCEPT ![TurnSession(a, t)] =
                                                IF @.turn = t THEN NoGate ELSE @]
                 /\ \A X, R : Shifts(c, b, X, R)
           /\ b.retained = Entries(a.retained, Staying(a, {t}))
           /\ \A X, R : Shifts(a, b, X, R)
  <1>1. PICK d \in AppType : Finished(a, d, t) /\ (b = d \/ Drained(d, b))
    BY DEF Concluded
  <1> DEFINE g == [a.gate EXCEPT ![TurnSession(a, t)] = IF @.turn = t THEN NoGate ELSE @]
             c == [a EXCEPT !.gate = g]
  <1>2. d.gate = g
    BY <1>1 DEF Finished
  <1>3. g \in Gates /\ \A s \in Sessions : g[s] = a.gate[s] \/ g[s].turn = None
    <2>1. NoGate.turn = None
      BY DEF NoGate
    <2>2. a.gate \in [Sessions -> GateType]
      BY Fields DEF Gates
    <2>3. \A s \in Sessions : g[s] = a.gate[s] \/ g[s].turn = None
      BY <2>1, <2>2
    <2>4. g \in Gates
      BY <1>2, Fields
    <2> QED BY <2>3, <2>4
  <1> HIDE DEF g
  <1>4. /\ c \in AppType /\ c.gate = g /\ c.queue = a.queue /\ SameSteers(a, c)
        /\ c.turns = a.turns /\ c.out = a.out
    BY <1>3 DEF AppType, SameSteers
  <1> HIDE DEF c
  <1>5. Fewer(a, c)
    BY <1>3, <1>4 DEF Fewer, SameSteers
  <1>6. Restocked(c, d, {t})
    BY <1>1, <1>4, RestockedSame DEF Finished, SameSteers
  <1>7. ASSUME NEW X, NEW R PROVE Shifts(c, b, X, R)
    <2>1. Shifts(c, d, X, R)
      <3>1. /\ d.stash = c.stash /\ d.steering = c.steering /\ d.gate = c.gate
            /\ d.turns = c.turns /\ d.out = c.out
        BY <1>1, <1>2, <1>4 DEF Finished, SameSteers, Unsubmitted
      <3> QED BY <1>4, <1>6, <3>1, RestockedShifts
    <2>2. Shifts(d, b, X, R)
      BY <1>1, DrainedShifts, ShiftsSelf
    <2> QED BY <2>1, <2>2, ShiftsThen
  <1>8. b.retained = Entries(a.retained, Staying(a, {t}))
    BY <1>1 DEF Finished, Restocked, Drained, Apart, SameSteers
  <1>9. ASSUME NEW X, NEW R PROVE Shifts(a, b, X, R)
    <2>1. Shifts(a, c, X, R)
      BY <1>4, <1>5, FewerShifts
    <2> QED BY <1>7, <2>1, ShiftsThen
  <1> QED BY <1>4, <1>5, <1>7, <1>8, <1>9 DEF g

LEMMA FailedFewer ==
    ASSUME NEW a \in AppType
    PROVE  Fewer(a, Failed(a)) /\ Failed(a).retained = a.retained
  <1> DEFINE b == Failed(a)
  <1>1. Apart(a, b) /\ Unsubmitted(a, b) /\ b.queue = a.queue /\ b.gate = a.gate
    BY FailedData
  <1> HIDE DEF b
  <1>2. Fewer(a, b) /\ b.retained = a.retained
    BY <1>1 DEF Apart, SameSteers, Unsubmitted, Fewer
  <1> QED BY <1>2 DEF b

LEMMA RefreshFewer ==
    ASSUME NEW a \in AppType, NEW s \in Sessions, NEW t \in Nat
    PROVE  LET b == Refresh(a, s, t) IN Fewer(a, b) /\ b.retained = a.retained
  <1> DEFINE b == Refresh(a, s, t)
  <1>1. b \in AppType /\ Refreshed(a, b, s)
    BY RefreshData
  <1> HIDE DEF b
  <1>2. Fewer(a, b) /\ b.retained = a.retained
    <2>1. None \in Nat
      BY DEF None
    <2> QED BY <1>1, <2>1, AskedFewer DEF Refreshed, Apart, SameSteers
  <1> QED BY <1>2 DEF b

(* A snapshot takes retained steers that landed, and not the unlanded. *)
Unlanded(a, s, landed) ==
    {i \in DOMAIN a.retained : ~(/\ TurnSession(a, a.retained[i].turn) = s
                                 /\ a.retained[i].prompt \in landed)}

LEMMA HydratedShifts ==
    ASSUME NEW a \in AppType, NEW s \in Sessions, NEW ended, NEW active, NEW landed,
           NEW X, NEW R
    PROVE  LET b == Hydrated(a, s, ended, active, landed)
           IN  /\ Shifts(a, b, X, R)
               /\ b.retained = Entries(a.retained, Unlanded(a, s, landed))
  <1> DEFINE hy == a.hydrating \ {s}
             kept == Unlanded(a, s, landed)
             re == Entries(a.retained, kept)
             c == [a EXCEPT !.hydrating = hy, !.retained = re]
             d == FinalizeStale(c, s, ended)
             b == Hydrated(a, s, ended, active, landed)
  <1>0. b \in AppType
    BY HydratedData
  <1>1. b = IF active = {} /\ s = a.sel /\ Phantom(d) THEN ResetPhantom(d) ELSE d
    BY DEF Hydrated, Select, Unlanded
  <1>2. kept \in SUBSET DOMAIN a.retained /\ hy \in SUBSET Sessions
    BY Fields DEF Unlanded
  <1> HIDE DEF hy, b
  <1> SUFFICES Shifts(a, b, X, R) /\ b.retained = re
    BY DEF b
  <1> HIDE DEF kept
  <1>3. re \in Stashes
    BY <1>2, Fields, StashEntries
  <1> HIDE DEF re
  <1>4. /\ c \in AppType /\ c.stash = a.stash /\ c.steering = a.steering /\ c.gate = a.gate
        /\ c.queue = a.queue /\ c.retained = re /\ Unsubmitted(a, c)
    BY <1>2, <1>3 DEF AppType, Unsubmitted
  <1> HIDE DEF c
  <1>5. Fewer(a, c)
    BY <1>2, <1>4 DEF Fewer, Unsubmitted, re
  <1>6. Shifts(a, c, X, R)
    BY <1>4, <1>5, FewerShifts
  <1>7. d \in AppType /\ Stale(c, d, s, ended)
    BY <1>4, FinalizeStaleData
  <1> HIDE DEF d
  <1>8. Shifts(c, d, X, R) /\ d.retained = c.retained
    <2>1. CASE d = c
      BY <1>4, <2>1, ShiftsSelf
    <2>2. ASSUME NEW e \in AppType, Finalized(c, e, s), Drained(e, d)
          PROVE  Shifts(c, d, X, R) /\ d.retained = c.retained
      <3>1. \A x \in Sessions : e.gate[x] = c.gate[x] \/ e.gate[x].turn = None
        BY <1>4, <2>2, Fields DEF Finalized, Gates, NoGate
      <3>2. Fewer(c, e)
        BY <2>2, <3>1 DEF Finalized, SameSteers, Unsubmitted, Fewer
      <3>3. Shifts(c, e, X, R) /\ Shifts(e, d, X, R)
        BY <1>4, <1>7, <2>2, <3>2, FewerShifts, DrainedShifts
      <3> QED BY <1>4, <1>7, <2>2, <3>3, ShiftsThen DEF Finalized, Drained, Apart, SameSteers
    <2> QED BY <1>7, <2>1, <2>2 DEF Stale
  <1>9. Shifts(d, b, X, R) /\ b.retained = d.retained
    <2>1. CASE b = d
      BY <1>7, <2>1, ShiftsSelf
    <2>2. CASE b = ResetPhantom(d)
      BY <1>7, <2>2, ResetData, ResetShifts
    <2> QED BY <1>1, <2>1, <2>2
  <1> QED BY <1>0, <1>4, <1>6, <1>7, <1>8, <1>9, ShiftsThen

(* Once the child is dead no turn is under way: every gate may give back.   *)
LEMMA BackedOffShifts ==
    ASSUME NEW a \in AppType, a.out = <<>>, NEW ss \in SUBSET Sessions
    PROVE  LET b == Failed(RestageGates(a, ss, Backoff))
           IN  Shifts(a, b, {}, {}) /\ b.retained = a.retained
  <1> DEFINE c == RestageGates(a, ss, Backoff)
             b == Failed(c)
  <1> SUFFICES Shifts(a, b, {}, {}) /\ b.retained = a.retained
    OBVIOUS
  <1>1. Backoff \in GateType /\ Backoff.turn = None /\ Backoff.prompt = None
    BY DEF Backoff, GateType, None
  <1>2. c \in AppType /\ Apart(a, c) /\ Restaged(a, c, Gated(a, ss), Backoff)
    BY <1>1, RestageGatesData
  <1> HIDE DEF c
  <1>3. b \in AppType /\ Fewer(c, b) /\ b.retained = c.retained
    BY <1>2, FailedFewer, FailedData
  <1> HIDE DEF b
  <1>4. Starts(a.out) = {}
    BY DEF Starts, StartPlaces
  <1>5. Gated(a, ss) \in SUBSET Sessions
    BY DEF Gated
  <1>6. Shifts(a, c, {}, {})
    BY <1>1, <1>2, <1>4, <1>5, RegatedShifts
  <1>7. Shifts(c, b, {}, {})
    BY <1>2, <1>3, FewerShifts
  <1> QED BY <1>2, <1>3, <1>6, <1>7, ShiftsThen DEF Apart, SameSteers

LEMMA RelaunchedShifts ==
    ASSUME NEW a \in AppType, a.out = <<>>
    PROVE  Shifts(a, Relaunched(a), {}, {})
  <1> DEFINE it == [s \in Sessions |-> None]
             x == [a EXCEPT !.hydrating = {}, !.withheld = {}, !.interrupted = it]
             y == RestageGates(x, Sessions, NoGate)
             ts == {y.live[s] : s \in Latched(y)}
             r == RestageSteers(y, ts)
             c == FailLatched(y)
             d == IF Latched(x) = {} THEN c ELSE Drain(c)
             e == [d EXCEPT !.run = IF @ = "working" /\ Live(d) = None THEN "idle" ELSE @]
  <1>1. Relaunched(a) = IF d.out # a.out THEN d ELSE Drain(e)
    BY DEF Relaunched
  <1>2. it \in Marks
    BY DEF Marks, None
  <1> HIDE DEF it
  <1>3. /\ x \in AppType /\ SameSteers(a, x) /\ Unsubmitted(a, x)
        /\ x.gate = a.gate /\ x.queue = a.queue
    BY <1>2 DEF AppType, SameSteers, Unsubmitted
  <1> HIDE DEF x
  <1>4. Shifts(a, x, {}, {})
    <2>1. Fewer(a, x)
      BY <1>3 DEF Fewer, SameSteers, Unsubmitted
    <2> QED BY <1>3, <2>1, FewerShifts
  <1>5. NoGate \in GateType /\ NoGate.turn = None /\ NoGate.prompt = None
    BY DEF NoGate, GateType, None
  <1>6. y \in AppType /\ Apart(x, y) /\ Restaged(x, y, Gated(x, Sessions), NoGate)
    BY <1>3, <1>5, RestageGatesData
  <1> HIDE DEF y
  <1>7. Shifts(x, y, {}, {})
    <2>1. Starts(x.out) = {}
      BY <1>3 DEF Starts, StartPlaces, Unsubmitted
    <2>2. Gated(x, Sessions) \in SUBSET Sessions
      BY DEF Gated
    <2> QED BY <1>3, <1>5, <1>6, <2>1, <2>2, RegatedShifts
  <1>8. r \in AppType /\ Returned(y, r) /\ Restocked(y, r, ts)
    BY <1>6, RestageSteersData
  <1>9. Shifts(y, r, {}, {})
    <2> HIDE DEF ts, r
    <2> QED BY <1>6, <1>8, RestockedShifts DEF Returned, Unsubmitted
  <1>10. /\ c \in AppType /\ c.queue = r.queue /\ SameSteers(r, c) /\ c.gate = r.gate
         /\ Unsubmitted(r, c)
    <2>1. c \in AppType
      BY <1>6, FailLatchedData
    <2> DEFINE ss == {s \in Latched(y) : y.live[s] \notin y.done}
               us == {y.live[s] : s \in ss}
    <2>2. c = [r EXCEPT !.pre = [s \in Sessions |-> IF s \in Latched(y) THEN "none" ELSE r.pre[s]],
                        !.done = r.done \cup us,
                        !.switched = r.switched \ us,
                        !.live = [s \in Sessions |-> IF s \in ss THEN None ELSE r.live[s]],
                        !.run = IF y.sel \in ss THEN "error" ELSE r.run]
      BY DEF FailLatched
    <2> HIDE DEF r, c, ss, us
    <2> QED BY <1>8, <2>1, <2>2 DEF AppType, SameSteers, Unsubmitted
  <1> HIDE DEF r, c
  <1>11. Shifts(r, c, {}, {})
    <2>1. Fewer(r, c)
      BY <1>10 DEF Fewer, SameSteers, Unsubmitted
    <2> QED BY <1>8, <1>10, <2>1, FewerShifts
  <1>12. Shifts(a, c, {}, {})
    <2> HIDE DEF ts
    <2>1. Shifts(a, y, {}, {})
      BY <1>4, <1>7, ShiftsThen
    <2>2. Shifts(a, r, {}, {})
      BY <1>9, <2>1, ShiftsThen
    <2> QED BY <1>11, <2>2, ShiftsThen
  <1>13. d \in AppType /\ (d = c \/ Drained(c, d))
    BY <1>10, DrainData
  <1> HIDE DEF d
  <1>14. Shifts(a, d, {}, {})
    BY <1>10, <1>12, <1>13, DrainedShifts, ShiftsThen
  <1>15. /\ e \in AppType /\ SameSteers(d, e) /\ Unsubmitted(d, e) /\ e.gate = d.gate
         /\ e.queue = d.queue
    BY <1>13 DEF AppType, SameSteers, Unsubmitted, RunStates
  <1> HIDE DEF e
  <1>16. Shifts(a, Drain(e), {}, {})
    <2>1. Fewer(d, e)
      BY <1>15 DEF Fewer, SameSteers, Unsubmitted
    <2>2. Shifts(d, e, {}, {})
      BY <1>13, <1>15, <2>1, FewerShifts
    <2>3. Shifts(e, Drain(e), {}, {})
      BY <1>15, DrainData, DrainedShifts
    <2>4. Shifts(a, e, {}, {})
      BY <1>14, <2>2, ShiftsThen
    <2> QED BY <2>3, <2>4, ShiftsThen
  <1> QED BY <1>1, <1>14, <1>16

-----------------------------------------------------------------------------
(* What the store keeps of the prompts 1..n that were typed, when the turns  *)
(* T are under way, the turns R run and the prompts Z are answered.         *)

Stored(a, T, R, n, Z) ==
    /\ Z \subseteq Nat /\ n \in Nat /\ Clean(a, T \cup R, R)
    /\ \A p \in PromptNo : Unique(a, T \cup R, p) /\ (Loose(a, T \cup R, p, "none") => p <= n)
    /\ \A p \in Z \ {None} : p <= n /\ ~Loose(a, T, p, Shield(a))

LEMMA PlacesLess ==
    ASSUME NEW a, NEW X, NEW Y \in SUBSET X, NEW R, NEW Q \in SUBSET R
    PROVE  /\ Clean(a, X, R) => Clean(a, Y, Q)
           /\ \A p, k, x : At(a, Y, p, k, x) => At(a, X, p, k, x)
           /\ \A p : Unique(a, X, p) => Unique(a, Y, p)
           /\ \A p, k0 : Loose(a, Y, p, k0) => Loose(a, X, p, k0)
  <1>1. \A p, k, x : At(a, Y, p, k, x) => At(a, X, p, k, x)
    BY DEF At
  <1>2. Clean(a, X, R) => Clean(a, Y, Q)
    BY DEF Clean
  <1>3. \A p : Unique(a, X, p) => Unique(a, Y, p)
    BY <1>1 DEF Unique, OnePlace
  <1>4. \A p, k0 : Loose(a, Y, p, k0) => Loose(a, X, p, k0)
    BY <1>1 DEF Loose
  <1> QED BY <1>1, <1>2, <1>3, <1>4

LEMMA StoredLess ==
    ASSUME NEW a, NEW T, NEW R, NEW n, NEW Z, Stored(a, T, R, n, Z),
           NEW U \in SUBSET T, NEW Q \in SUBSET R
    PROVE  Stored(a, U, Q, n, Z)
  <1>1. U \cup Q \in SUBSET (T \cup R)
    OBVIOUS
  <1>2. Clean(a, U \cup Q, Q)
    BY <1>1, PlacesLess DEF Stored
  <1>3. \A p \in PromptNo : Unique(a, U \cup Q, p) /\ (Loose(a, U \cup Q, p, "none") => p <= n)
    BY <1>1, PlacesLess DEF Stored
  <1>4. \A p \in Z \ {None} : ~Loose(a, U, p, Shield(a))
    BY PlacesLess DEF Stored
  <1> QED BY <1>2, <1>3, <1>4 DEF Stored

LEMMA StoredShifts ==
    ASSUME NEW a, NEW b, NEW T, NEW R, NEW n, NEW Z, Stored(a, T, R, n, Z),
           Shifts(a, b, T \cup R, R), Shifts(a, b, T, R)
    PROVE  Stored(b, T, R, n, Z)
  <1>1. /\ Clean(a, T \cup R, R) /\ Clean(a, T, R)
        /\ \A p \in PromptNo : Unique(a, T \cup R, p) /\ Unique(a, T, p)
    BY PlacesLess DEF Stored
  <1>2. Shield(b) = Shield(a)
    BY <1>1 DEF Shifts, Shield
  <1>3. \A p \in Z \ {None} : p \in PromptNo
    BY DEF Stored, PromptNo
  <1>4. \A p \in Z \ {None} : ~Loose(b, T, p, Shield(b))
    BY <1>1, <1>2, <1>3 DEF Shifts, Stored
  <1>5. \A p \in PromptNo : /\ Unique(b, T \cup R, p)
                            /\ Loose(b, T \cup R, p, "none") => p <= n
    BY <1>1 DEF Shifts, Stored
  <1> QED BY <1>1, <1>4, <1>5 DEF Shifts, Stored

LEMMA StoredFewer ==
    ASSUME NEW a \in AppType, NEW b \in AppType, Fewer(a, b),
           NEW T, NEW R, NEW n, NEW Z, Stored(a, T, R, n, Z)
    PROVE  Stored(b, T, R, n, Z)
  BY FewerShifts, StoredShifts

(* The turn t starts, or is rejected: its gate is released with it, and its  *)
(* prompt is nowhere else.                                                  *)
LEMMA StoredReleased ==
    ASSUME NEW a \in AppType, NEW b \in AppType, Fewer(a, b), a.out = <<>>,
           NEW T, NEW R, NEW n, NEW Z, Stored(a, T, R, n, Z), NEW t \in T, t # None,
           b.gate = [a.gate EXCEPT ![TurnSession(a, t)] = IF @.turn = t THEN NoGate ELSE @],
           NEW Q \in {R, R \cup {t}}
    PROVE  Stored(b, T \ {t}, Q, n, Z \cup {a.turns[t].prompt})
  <1> DEFINE p0 == a.turns[t].prompt
             X == T \cup R
             U == T \ {t}
  <1>1. t \in DOMAIN a.turns /\ p0 \in Nat /\ Starts(a.out) = {} /\ Starts(b.out) = {}
    <2>1. t \in DOMAIN a.turns
      BY DEF Stored, Clean
    <2>2. a.turns \in TurnTables
      BY Fields
    <2>3. Starts(a.out) = {}
      BY DEF Starts, StartPlaces
    <2> QED BY <2>1, <2>2, <2>3, TableFacts DEF Fewer
  <1>2. \A s \in Sessions : b.gate[s].turn # t
    <2> SUFFICES ASSUME NEW s \in Sessions, b.gate[s].turn = t PROVE FALSE
      OBVIOUS
    <2>1. NoGate.turn = None /\ a.gate \in [Sessions -> GateType]
      BY Fields DEF NoGate, Gates
    <2>2. a.gate[s].turn = t
      BY <2>1
    <2>3. TurnSession(a, t) = s
      BY <2>2 DEF Stored, Clean, TurnSession
    <2> QED BY <2>1, <2>3
  <1>3. Stored(b, T, R, n, Z) /\ Clean(b, X, R)
    <2>1. Stored(b, T, R, n, Z)
      BY StoredFewer
    <2> QED BY <2>1 DEF Stored
  <1>4. U \cup Q \subseteq X
    OBVIOUS
  <1>5. Clean(b, U \cup Q, Q)
    <2>1. \A s \in Sessions : b.gate[s].turn # None => b.gate[s].turn \notin Q
      BY <1>2, <1>3 DEF Clean
    <2> QED BY <1>1, <1>3, <1>4, <2>1 DEF Clean
  <1>6. ASSUME NEW p \in PromptNo
        PROVE  Unique(b, U \cup Q, p) /\ (Loose(b, U \cup Q, p, "none") => p <= n)
    <2>1. Unique(b, X, p) /\ (Loose(b, X, p, "none") => p <= n)
      BY <1>3 DEF Stored
    <2>2. Unique(b, U \cup Q, p) /\ (Loose(b, U \cup Q, p, "none") => Loose(b, X, p, "none"))
      BY <1>4, <2>1, PlacesLess
    <2> QED BY <2>1, <2>2
  <1>7. ASSUME NEW p \in Z \ {None} PROVE p <= n /\ ~Loose(b, U, p, Shield(b))
    <2>1. p <= n /\ ~Loose(b, T, p, Shield(b))
      BY <1>3 DEF Stored
    <2>2. Loose(b, U, p, Shield(b)) => Loose(b, T, p, Shield(b))
      BY PlacesLess
    <2> QED BY <2>1, <2>2
  <1>8. ASSUME p0 # None PROVE p0 <= n /\ ~Loose(b, U, p0, Shield(b))
    <2>1. p0 \in PromptNo
      BY <1>1, <1>8 DEF PromptNo
    <2>2. At(a, X, p0, "turn", t)
      BY DEF At
    <2>3. p0 <= n
      BY <2>1, <2>2 DEF Stored, Loose
    <2>4. ASSUME NEW k, NEW x, At(b, U, p0, k, x) PROVE FALSE
      <3>1. At(a, X, p0, k, x)
        <4>1. At(b, X, p0, k, x)
          BY <2>4, PlacesLess
        <4> QED BY <2>1, <4>1, FewerShifts
      <3>2. k = "turn" /\ x = t
        BY <2>1, <2>2, <3>1 DEF Stored, Unique, OnePlace
      <3> QED BY <1>1, <1>2, <2>4, <3>2 DEF At
    <2> QED BY <2>3, <2>4 DEF Loose
  <1>9. Z \cup {p0} \subseteq Nat /\ n \in Nat
    BY <1>1 DEF Stored
  <1> HIDE DEF p0, X, U
  <1>10. \A p \in (Z \cup {p0}) \ {None} : p <= n /\ ~Loose(b, U, p, Shield(b))
    BY <1>7, <1>8
  <1>11. Stored(b, U, Q, n, Z \cup {p0})
    BY <1>5, <1>6, <1>9, <1>10 DEF Stored
  <1> QED BY <1>11 DEF p0, U

(* The prompt h is new to b, where it is at x1 among the places of kind k1. *)
Arrives(a, b, X, h, k1, x1) ==
    /\ \A p \in PromptNo : \A Y, k, x :
          At(b, Y, p, k, x) => At(a, Y, p, k, x) \/ (p = h /\ k = k1 /\ x = x1)
    /\ \A p \in PromptNo :
          OneCopy(a, p) /\ (p = h => \A k, x : ~At(a, X, p, k, x)) => OneCopy(b, p)

(* The prompt n + 1 is typed, and kept in one place. *)
LEMMA StoredArrives ==
    ASSUME NEW a, NEW b, NEW T, NEW R, NEW n, NEW Z, Stored(a, T, R, n, Z), NEW k1, NEW x1,
           b.steering = a.steering, Clean(b, T \cup R, R),
           Arrives(a, b, T \cup R, n + 1, k1, x1)
    PROVE  Stored(b, T, R, n + 1, Z)
  <1>1. n \in Nat /\ n + 1 \in Nat /\ Z \subseteq Nat /\ ~(n + 1 <= n)
    BY DEF Stored
  <1>2. \A p \in PromptNo : p = n + 1 => \A k, x : ~At(a, T \cup R, p, k, x)
    <2>1. \A p, k, x : At(a, T \cup R, p, k, x) => k # "none"
      BY DEF At
    <2> QED BY <1>1, <2>1 DEF Stored, Loose
  <1>3. ASSUME NEW p \in PromptNo
        PROVE  Unique(b, T \cup R, p) /\ (Loose(b, T \cup R, p, "none") => p <= n + 1)
    <2>1. Unique(a, T \cup R, p) /\ (Loose(a, T \cup R, p, "none") => p <= n)
      BY DEF Stored
    <2>2. Unique(b, T \cup R, p)
      BY <1>2, <2>1 DEF Unique, OnePlace, Arrives
    <2>3. Loose(b, T \cup R, p, "none") => Loose(a, T \cup R, p, "none") \/ p = n + 1
      BY DEF Loose, Arrives
    <2>4. p <= n => p <= n + 1
      BY <1>1 DEF PromptNo
    <2> QED BY <1>1, <2>1, <2>2, <2>3, <2>4
  <1>4. ASSUME NEW p \in Z \ {None} PROVE p <= n + 1 /\ ~Loose(b, T, p, Shield(b))
    <2>1. p \in PromptNo /\ p <= n /\ ~Loose(a, T, p, Shield(a)) /\ Shield(b) = Shield(a)
      BY <1>1 DEF Stored, PromptNo, Shield
    <2>2. p # n + 1
      BY <1>1, <2>1
    <2>3. p <= n + 1
      BY <1>1, <2>1 DEF PromptNo
    <2> QED BY <2>1, <2>2, <2>3 DEF Loose, Arrives
  <1> QED BY <1>1, <1>3, <1>4 DEF Stored

LEMMA EnqueuedStored ==
    ASSUME NEW a \in AppType, NEW b \in AppType, NEW s \in Sessions, NEW n, n + 1 \in PromptNo,
           NEW T, NEW R, NEW Z, Stored(a, T, R, n, Z), SameSteers(a, b), Unsubmitted(a, b),
           b.gate = a.gate, \A x \in Sessions \ {s} : b.queue[x] = a.queue[x],
           b.queue[s] \in {Append(a.queue[s], n + 1), <<n + 1>> \o a.queue[s]}
    PROVE  Stored(b, T, R, n + 1, Z)
  <1> DEFINE h == n + 1
  <1>1. a.queue[s] \in Seq(PromptNo) /\ <<h>> \in Seq(PromptNo)
    BY Fields DEF Queues
  <1> HIDE DEF h
  <1>2. ASSUME NEW p \in PromptNo
        PROVE  /\ Holds(b.queue[s], p) => Holds(a.queue[s], p) \/ p = h
               /\ Once(a.queue[s], p) /\ ~(Holds(a.queue[s], p) /\ p = h) => Once(b.queue[s], p)
    <2>1. CASE b.queue[s] = Append(a.queue[s], h)
      BY <1>1, <2>1, HoldsAppend DEF h
    <2>2. CASE b.queue[s] = <<h>> \o a.queue[s]
      <3> DEFINE one == <<h>>
      <3>1. (Holds(one, p) => h = p) /\ Once(one, p) /\ one \in Seq(PromptNo)
        BY <1>1, HoldsSingle
      <3> HIDE DEF one
      <3>2. /\ Holds(one \o a.queue[s], p) => Holds(one, p) \/ Holds(a.queue[s], p)
            /\ Once(one, p) /\ Once(a.queue[s], p) /\ ~(Holds(one, p) /\ Holds(a.queue[s], p))
                  => Once(one \o a.queue[s], p)
        BY <1>1, <3>1, HoldsConcat
      <3> QED BY <2>2, <3>1, <3>2 DEF one
    <2> QED BY <2>1, <2>2 DEF h
  <1>3. Clean(b, T \cup R, R)
    BY DEF Stored, Clean, Unsubmitted
  <1>4. ASSUME NEW p \in PromptNo, NEW X, NEW k, NEW x, At(b, X, p, k, x)
        PROVE  At(a, X, p, k, x) \/ (p = h /\ k = "queue" /\ x = s)
    BY <1>2, <1>4 DEF At, Unsubmitted, SameSteers
  <1>5. ASSUME NEW p \in PromptNo, OneCopy(a, p),
               p = h => \A k, x : ~At(a, T \cup R, p, k, x)
        PROVE  OneCopy(b, p)
    <2>1. Holds(a.queue[s], p) => At(a, T \cup R, p, "queue", s)
      BY DEF At
    <2> QED BY <1>2, <1>5, <2>1 DEF OneCopy, SameSteers
  <1>6. Arrives(a, b, T \cup R, h, "queue", s)
    BY <1>4, <1>5 DEF Arrives
  <1>7. b.steering = a.steering
    BY DEF SameSteers
  <1> QED BY <1>3, <1>6, <1>7, StoredArrives DEF h

LEMMA FrontOf ==
    ASSUME NEW S, NEW q \in Seq(S), NEW h \in S
    PROVE  Head(<<h>> \o q) = h /\ Tail(<<h>> \o q) = q
  <1>1. <<h>> \in Seq(S) /\ Len(<<h>>) = 1 /\ Head(<<h>>) = h /\ Tail(<<h>>) = <<>>
    OBVIOUS
  <1> QED BY <1>1

LEMMA PromptStored ==
    ASSUME NEW a \in AppType, NEW T, NEW R, NEW n, NEW Z, Stored(a, T, R, n, Z)
    PROVE  LET b == Prompt(a, n + 1) IN Stored(b, T, R, n + 1, Z) /\ b.retained = a.retained
  <1> DEFINE h == n + 1
             b == Prompt(a, h)
  <1> SUFFICES Stored(b, T, R, n + 1, Z) /\ b.retained = a.retained
    OBVIOUS
  <1>0. n \in Nat /\ h \in PromptNo
    BY DEF Stored, PromptNo, None
  <1>1. b \in AppType /\ (Steered(a, b, h) \/ Staged(a, b, h) \/ Sends(a, b, h))
    BY <1>0, PromptData
  <1> HIDE DEF b, h
  <1>2. a.sel \in Sessions /\ a.queue \in [Sessions -> Seq(PromptNo)]
    BY Fields DEF Queues
  <1>3. CASE Steered(a, b, h)
    <2> DEFINE e == [turn |-> Live(a), prompt |-> h]
               c == Cmd("steer", a.sel, Live(a), h)
    <2>1. /\ b.stash = Append(a.stash, e) /\ b.out = Append(a.out, c)
          /\ b.queue = a.queue /\ b.gate = a.gate /\ b.turns = a.turns
          /\ b.retained = a.retained /\ b.steering = a.steering
      BY <1>3 DEF Steered
    <2>2. Live(a) \in Nat /\ a.stash \in Stashes /\ a.out \in Seq(CmdType)
      BY Fields DEF Live, Marks, Outputs
    <2>3. /\ e \in SteerType /\ e.prompt = h
          /\ c \in CmdType /\ c.kind # "start"
      BY <1>0, <1>2, <2>2 DEF SteerType, CmdType, Cmd, PromptNo
    <2> HIDE DEF e, c
    <2>4. Starts(b.out) = Starts(a.out)
      BY <2>1, <2>2, <2>3, StartsAppend
    <2>5. Clean(b, T \cup R, R)
      BY <2>1, <2>4 DEF Stored, Clean
    <2>6. ASSUME NEW p \in PromptNo
          PROVE  /\ Has(b.stash, p) => Has(a.stash, p) \/ p = h
                 /\ OnceIn(a.stash, p) /\ ~(Has(a.stash, p) /\ p = h) => OnceIn(b.stash, p)
      BY <2>1, <2>2, <2>3, HasAppend
    <2>7. ASSUME NEW p \in PromptNo, NEW X, NEW k, NEW x, At(b, X, p, k, x)
          PROVE  At(a, X, p, k, x) \/ (p = h /\ k = "stash" /\ x = None)
      BY <2>1, <2>4, <2>6, <2>7 DEF At
    <2>8. ASSUME NEW p \in PromptNo, OneCopy(a, p),
                 p = h => \A k, x : ~At(a, T \cup R, p, k, x)
          PROVE  OneCopy(b, p)
      <3>1. Has(a.stash, p) => At(a, T \cup R, p, "stash", None)
        BY DEF At
      <3> QED BY <2>1, <2>6, <2>8, <3>1 DEF OneCopy
    <2>9. Arrives(a, b, T \cup R, h, "stash", None)
      BY <2>7, <2>8 DEF Arrives
    <2> QED BY <2>1, <2>5, <2>9, StoredArrives DEF h
  <1>4. CASE Staged(a, b, h)
    <2>1. /\ b.queue[a.sel] = Append(a.queue[a.sel], h)
          /\ \A x \in Sessions \ {a.sel} : b.queue[x] = a.queue[x]
          /\ SameSteers(a, b) /\ Unsubmitted(a, b) /\ b.gate = a.gate
      BY <1>2, <1>4 DEF Staged, Apart
    <2> QED BY <1>0, <1>1, <1>2, <2>1, EnqueuedStored DEF h, SameSteers
  <1>5. CASE Sends(a, b, h)
    <2> DEFINE q == [a.queue EXCEPT ![a.sel] = <<h>> \o @]
               c == [a EXCEPT !.queue = q]
    <2>1. /\ q \in Queues /\ q[a.sel] = <<h>> \o a.queue[a.sel] /\ q[a.sel] # <<>>
          /\ \A x \in Sessions \ {a.sel} : q[x] = a.queue[x]
      BY <1>0, <1>2, PutFront DEF Queues
    <2>2. Head(q[a.sel]) = h /\ Tail(q[a.sel]) = a.queue[a.sel]
      <3>1. a.queue[a.sel] \in Seq(PromptNo)
        BY <1>2
      <3> HIDE DEF q
      <3> QED BY <1>0, <2>1, <3>1, FrontOf
    <2> HIDE DEF q
    <2>3. /\ c \in AppType /\ c.queue = q /\ Apart(a, c) /\ SameSteers(a, c)
          /\ Unsubmitted(a, c) /\ c.gate = a.gate /\ c.pre = a.pre /\ c.sel = a.sel
      BY <2>1 DEF AppType, Apart, SameLatch, SameSteers, SameStop, Unsubmitted
    <2> HIDE DEF c
    <2>4. Stored(c, T, R, n + 1, Z)
      BY <1>0, <1>2, <2>1, <2>3, EnqueuedStored DEF h
    <2>5. HeadSent(c, b)
      <3>1. Apart(c, b) /\ Submitted(c, b, h)
        BY <1>5, <2>3 DEF Sends, Apart, SameLatch, SameSteers, SameStop, Submitted, Unsubmitted
      <3>2. Elsewhere(c, b) /\ b.queue[c.sel] = Tail(c.queue[c.sel])
        BY <1>5, <2>1, <2>2, <2>3 DEF Sends, Elsewhere
      <3> QED BY <2>1, <2>2, <2>3, <3>1, <3>2 DEF HeadSent
    <2>6. Stored(b, T, R, n + 1, Z)
      BY <1>1, <2>3, <2>4, <2>5, HeadSentShifts, StoredShifts
    <2> QED BY <1>5, <2>6 DEF Sends, Apart, SameSteers
  <1> QED BY <1>1, <1>3, <1>4, <1>5

(* The prompt h leaves the stash for x1 among the places of kind k1.        *)
Leaves(a, b, X, Y, h, k1, x1) ==
    \A p \in PromptNo : \A k, x :
        At(b, Y, p, k, x) => \/ At(a, X, p, k, x) /\ ~(p = h /\ k = "stash")
                             \/ p = h /\ k = k1 /\ x = x1

CopiesLeave(a, b, X, h) ==
    \A p \in PromptNo :
        OneCopy(a, p) /\ (p = h => \A k, x : At(a, X, p, k, x) => k = "stash") => OneCopy(b, p)

LEMMA StoredLeaves ==
    ASSUME NEW a, NEW b, NEW T, NEW R, NEW n, NEW Z, Stored(a, T, R, n, Z),
           NEW h \in PromptNo, Has(a.stash, h), NEW k1, NEW x1, NEW U,
           b.steering = a.steering, Clean(b, U \cup R, R),
           Leaves(a, b, T \cup R, U \cup R, h, k1, x1), Leaves(a, b, T, U, h, k1, x1),
           CopiesLeave(a, b, T \cup R, h)
    PROVE  Stored(b, U, R, n, Z)
  <1>1. \A X : At(a, X, h, "stash", None)
    BY DEF At
  <1>2. \A m, z : At(a, T \cup R, h, m, z) => m = "stash"
    BY <1>1 DEF Stored, Unique, OnePlace
  <1>3. h <= n
    BY <1>1 DEF Stored, Loose
  <1>4. ASSUME NEW p \in PromptNo
        PROVE  Unique(b, U \cup R, p) /\ (Loose(b, U \cup R, p, "none") => p <= n)
    <2>1. Unique(a, T \cup R, p) /\ (Loose(a, T \cup R, p, "none") => p <= n)
      BY DEF Stored
    <2>2. OneCopy(b, p)
      BY <1>2, <2>1 DEF Unique, CopiesLeave
    <2>3. OnePlace(b, U \cup R, p)
      <3> SUFFICES ASSUME NEW k, NEW x, NEW l, NEW y,
                          At(b, U \cup R, p, k, x), At(b, U \cup R, p, l, y)
                   PROVE  k = l /\ x = y
        BY DEF OnePlace
      <3>1. CASE p = h
        <4>1. \A m, z : At(b, U \cup R, h, m, z) => m = k1 /\ z = x1
          <5> SUFFICES ASSUME NEW m, NEW z, At(b, U \cup R, h, m, z) PROVE m = k1 /\ z = x1
            OBVIOUS
          <5>1. \/ At(a, T \cup R, h, m, z) /\ ~(h = h /\ m = "stash")
                \/ h = h /\ m = k1 /\ z = x1
            BY DEF Leaves
          <5> QED BY <1>2, <5>1
        <4> QED BY <3>1, <4>1
      <3>2. CASE p # h
        BY <2>1, <3>2 DEF Leaves, Unique, OnePlace
      <3> QED BY <3>1, <3>2
    <2>4. Loose(b, U \cup R, p, "none") => Loose(a, T \cup R, p, "none") \/ p = h
      BY DEF Loose, Leaves
    <2> QED BY <1>3, <2>1, <2>2, <2>3, <2>4 DEF Unique
  <1>5. ASSUME NEW p \in Z \ {None} PROVE p <= n /\ ~Loose(b, U, p, Shield(b))
    <2>1. p \in PromptNo /\ p <= n /\ ~Loose(a, T, p, Shield(a)) /\ Shield(b) = Shield(a)
      BY DEF Stored, PromptNo, Shield
    <2>2. p # h
      <3>1. Shield(a) # "stash"
        BY DEF Shield
      <3> QED BY <1>1, <2>1, <3>1 DEF Loose
    <2> QED BY <2>1, <2>2 DEF Loose, Leaves
  <1> QED BY <1>4, <1>5 DEF Stored

(* An answer takes the oldest steer from the stash. *)
StashPopped(a, b) ==
    /\ a.stash # <<>> /\ b.stash = Tail(a.stash) /\ b.steering = a.steering
    /\ b.gate = a.gate /\ b.out = a.out

LEMMA PoppedPlaces ==
    ASSUME NEW a \in AppType, NEW b, StashPopped(a, b)
    PROVE  LET h == Head(a.stash).prompt
           IN  /\ h \in PromptNo /\ Has(a.stash, h) /\ Head(a.stash) \in SteerType
               /\ \A p : /\ Has(b.stash, p) => Has(a.stash, p)
                         /\ OnceIn(a.stash, p) => OnceIn(b.stash, p) /\ ~(h = p /\ Has(b.stash, p))
  <1>1. a.stash \in Stashes
    BY Fields
  <1>2. 1 \in DOMAIN a.stash /\ a.stash[1] = Head(a.stash) /\ Head(a.stash) \in SteerType
    BY <1>1, HasTail DEF StashPopped, Stashes
  <1> QED BY <1>1, <1>2, HasTail DEF StashPopped, Has, SteerType

(* It was steered into a turn, which may consume it. *)
LEMMA SteeredIntoStored ==
    ASSUME NEW a \in AppType, a.stash # <<>>, NEW T, NEW R, NEW n, NEW Z, Stored(a, T, R, n, Z)
    PROVE  Stored(SteeredInto(a), T, R, n, Z)
  <1> DEFINE b == SteeredInto(a)
             e == Head(a.stash)
             h == e.prompt
  <1>1. b \in AppType /\ Popped(a, b) /\ b.retained = Append(a.retained, e)
    BY SteeredIntoData
  <1>2. b.queue = a.queue
    BY DEF SteeredInto, AppType
  <1> HIDE DEF b
  <1>3. StashPopped(a, b) /\ b.turns = a.turns
    BY <1>1 DEF Popped, Unsubmitted, StashPopped
  <1>4. /\ h \in PromptNo /\ Has(a.stash, h) /\ e \in SteerType
        /\ \A p : /\ Has(b.stash, p) => Has(a.stash, p)
                  /\ OnceIn(a.stash, p) => OnceIn(b.stash, p) /\ ~(h = p /\ Has(b.stash, p))
    BY <1>3, PoppedPlaces
  <1>5. \A p : /\ Has(b.retained, p) => Has(a.retained, p) \/ h = p
               /\ OnceIn(a.retained, p) /\ ~(Has(a.retained, p) /\ h = p) => OnceIn(b.retained, p)
    BY <1>1, <1>4, HasAppend, Fields
  <1> HIDE DEF h, e
  <1>6. OnceIn(a.stash, h)
    BY <1>4 DEF Stored, Unique, OneCopy
  <1>7. ASSUME NEW X PROVE Leaves(a, b, X, X, h, "retained", None)
    <2> SUFFICES ASSUME NEW p \in PromptNo, NEW k, NEW x, At(b, X, p, k, x)
                 PROVE  \/ At(a, X, p, k, x) /\ ~(p = h /\ k = "stash")
                        \/ p = h /\ k = "retained" /\ x = None
      BY DEF Leaves
    <2> QED BY <1>2, <1>3, <1>4, <1>5, <1>6 DEF At, StashPopped
  <1>8. CopiesLeave(a, b, T \cup R, h)
    <2> SUFFICES ASSUME NEW p \in PromptNo, OneCopy(a, p),
                        p = h => \A k, x : At(a, T \cup R, p, k, x) => k = "stash"
                 PROVE  OneCopy(b, p)
      BY DEF CopiesLeave
    <2>1. Has(a.retained, p) => At(a, T \cup R, p, "retained", None)
      BY DEF At
    <2> QED BY <1>2, <1>4, <1>5, <2>1 DEF OneCopy
  <1>9. Clean(b, T \cup R, R)
    BY <1>3 DEF Stored, Clean, StashPopped
  <1>10. b.steering = a.steering
    BY <1>3 DEF StashPopped
  <1>11. Stored(b, T, R, n, Z)
    BY <1>4, <1>7, <1>8, <1>9, <1>10, StoredLeaves
  <1> QED BY <1>11 DEF b

(* It was refused, or cancelled: it goes to the end of its queue. *)
LEMMA SteerFailedStored ==
    ASSUME NEW a \in AppType, a.stash # <<>>, TurnSession(a, Head(a.stash).turn) \in Sessions,
           NEW T, NEW R, NEW n, NEW Z, Stored(a, T, R, n, Z)
    PROVE  Stored(SteerFailed(a), T, R, n, Z)
  <1> DEFINE b == SteerFailed(a)
             h == Head(a.stash).prompt
             s == TurnSession(a, Head(a.stash).turn)
  <1>1. b \in AppType /\ Popped(a, b) /\ b.retained = a.retained
    BY SteerFailedData
  <1>2. a.queue \in [Sessions -> Seq(PromptNo)]
    BY Fields DEF Queues
  <1>3. b.queue = [a.queue EXCEPT ![s] = Append(@, h)]
    BY DEF SteerFailed, AppType
  <1> HIDE DEF b
  <1>4. StashPopped(a, b) /\ b.turns = a.turns
    BY <1>1 DEF Popped, Unsubmitted, StashPopped
  <1>5. /\ h \in PromptNo /\ Has(a.stash, h)
        /\ \A p : /\ Has(b.stash, p) => Has(a.stash, p)
                  /\ OnceIn(a.stash, p) => OnceIn(b.stash, p) /\ ~(h = p /\ Has(b.stash, p))
    BY <1>4, PoppedPlaces
  <1> HIDE DEF h
  <1>6. s \in Sessions
    OBVIOUS
  <1> HIDE DEF s
  <1>7. /\ b.queue[s] = Append(a.queue[s], h) /\ a.queue[s] \in Seq(PromptNo)
        /\ \A x \in Sessions : x # s => b.queue[x] = a.queue[x]
    BY <1>2, <1>3, <1>6
  <1>8. \A p : /\ Holds(b.queue[s], p) => Holds(a.queue[s], p) \/ h = p
               /\ Once(a.queue[s], p) /\ ~(Holds(a.queue[s], p) /\ h = p) => Once(b.queue[s], p)
    BY <1>5, <1>7, HoldsAppend
  <1>9. OnceIn(a.stash, h)
    BY <1>5 DEF Stored, Unique, OneCopy
  <1>10. ASSUME NEW X PROVE Leaves(a, b, X, X, h, "queue", s)
    <2> SUFFICES ASSUME NEW p \in PromptNo, NEW k, NEW x, At(b, X, p, k, x)
                 PROVE  \/ At(a, X, p, k, x) /\ ~(p = h /\ k = "stash")
                        \/ p = h /\ k = "queue" /\ x = s
      BY DEF Leaves
    <2> QED BY <1>1, <1>4, <1>5, <1>7, <1>8, <1>9 DEF At, StashPopped
  <1>11. CopiesLeave(a, b, T \cup R, h)
    <2> SUFFICES ASSUME NEW p \in PromptNo, OneCopy(a, p),
                        p = h => \A k, x : At(a, T \cup R, p, k, x) => k = "stash"
                 PROVE  OneCopy(b, p)
      BY DEF CopiesLeave
    <2>1. Holds(a.queue[s], p) => At(a, T \cup R, p, "queue", s)
      BY <1>6 DEF At
    <2> QED BY <1>1, <1>5, <1>7, <1>8, <2>1 DEF OneCopy
  <1>12. Clean(b, T \cup R, R) /\ b.steering = a.steering
    BY <1>4 DEF Stored, Clean, StashPopped
  <1>13. Stored(b, T, R, n, Z)
    BY <1>5, <1>10, <1>11, <1>12, StoredLeaves
  <1> QED BY <1>13 DEF b

(* The server starts a turn for it instead. *)
LEMMA SteerMintedStored ==
    ASSUME NEW a \in AppType, a.stash # <<>>, a.out = <<>>,
           NEW e \in TurnType, e.prompt = Head(a.stash).prompt,
           NEW T, NEW R, NEW n, NEW Z, Stored(a, T, R, n, Z)
    PROVE  Stored(SteerStartedTurn([a EXCEPT !.turns = Append(@, e)]),
                  T \cup {Len(a.turns) + 1}, R, n, Z)
  <1> DEFINE t == Len(a.turns) + 1
             c == [a EXCEPT !.turns = Append(@, e)]
             b == SteerStartedTurn(c)
             h == Head(a.stash).prompt
  <1>1. /\ c.turns \in TurnTables /\ c.turns[t] = e
        /\ DOMAIN c.turns = DOMAIN a.turns \cup {t} /\ t \notin DOMAIN a.turns
        /\ \A x \in DOMAIN a.turns : c.turns[x] = a.turns[x]
    <2>0. a.turns \in TurnTables
      BY Fields
    <2>1. c.turns = Append(a.turns, e)
      BY DEF AppType
    <2> DEFINE U == Append(a.turns, e)
    <2>2. /\ U \in TurnTables /\ U[t] = e /\ Len(U) = t
          /\ \A x \in DOMAIN a.turns : U[x] = a.turns[x]
          /\ Len(a.turns) \in Nat /\ DOMAIN a.turns = 1..Len(a.turns)
      BY <2>0, TableFacts
    <2> HIDE DEF U
    <2>3. DOMAIN U = 1..t
      BY <2>2, TableFacts
    <2> QED BY <2>1, <2>2, <2>3 DEF U
  <1>2. /\ c \in AppType /\ c.stash = a.stash /\ c.steering = a.steering /\ c.gate = a.gate
        /\ c.out = a.out /\ c.queue = a.queue /\ c.retained = a.retained
    BY <1>1 DEF AppType
  <1>3. b \in AppType /\ Popped(c, b) /\ b.retained = c.retained
    BY <1>2, SteerStartedTurnData
  <1>4. b.queue = c.queue
    BY <1>2 DEF SteerStartedTurn, Work, AppType
  <1> HIDE DEF b, c, t
  <1>5. StashPopped(a, b) /\ b.turns = c.turns
    BY <1>2, <1>3 DEF Popped, Unsubmitted, StashPopped
  <1>6. /\ h \in PromptNo /\ Has(a.stash, h)
        /\ \A p : /\ Has(b.stash, p) => Has(a.stash, p)
                  /\ OnceIn(a.stash, p) => OnceIn(b.stash, p) /\ ~(h = p /\ Has(b.stash, p))
    BY <1>5, PoppedPlaces
  <1>7. e.prompt = h
    OBVIOUS
  <1> HIDE DEF h
  <1>8. OnceIn(a.stash, h)
    BY <1>6 DEF Stored, Unique, OneCopy
  <1>9. Starts(a.out) = {} /\ Starts(b.out) = {}
    BY <1>5 DEF StashPopped, Starts, StartPlaces
  <1>10. T \cup R \subseteq DOMAIN a.turns
    BY DEF Stored, Clean
  <1>11. ASSUME NEW X \in SUBSET DOMAIN a.turns, NEW Y \in SUBSET (X \cup {t})
         PROVE  Leaves(a, b, X, Y, h, "turn", t)
    <2> SUFFICES ASSUME NEW p \in PromptNo, NEW k, NEW x, At(b, Y, p, k, x)
                 PROVE  \/ At(a, X, p, k, x) /\ ~(p = h /\ k = "stash")
                        \/ p = h /\ k = "turn" /\ x = t
      BY DEF Leaves
    <2>1. CASE k = "turn" /\ x \in Y \cup Starts(b.out) /\ b.turns[x].prompt = p
      <3>1. CASE x = t
        BY <1>1, <1>5, <1>7, <2>1, <3>1
      <3>2. CASE x # t
        BY <1>1, <1>5, <1>9, <2>1, <3>2 DEF At
      <3> QED BY <3>1, <3>2
    <2> QED BY <1>2, <1>3, <1>4, <1>5, <1>6, <1>8, <2>1 DEF At, StashPopped
  <1>12. CopiesLeave(a, b, T \cup R, h)
    BY <1>2, <1>3, <1>4, <1>6 DEF CopiesLeave, OneCopy
  <1>13. Clean(b, (T \cup {t}) \cup R, R) /\ b.steering = a.steering
    BY <1>1, <1>5, <1>9 DEF Stored, Clean, StashPopped
  <1>14. /\ Leaves(a, b, T \cup R, (T \cup {t}) \cup R, h, "turn", t)
         /\ Leaves(a, b, T, T \cup {t}, h, "turn", t)
    BY <1>10, <1>11
  <1>15. Stored(b, T \cup {t}, R, n, Z)
    BY <1>6, <1>12, <1>13, <1>14, StoredLeaves
  <1> QED BY <1>15 DEF b, c, t

(* The server returns steers it has not consumed: all but the undropped. *)
Undropped(a, t, ps) ==
    {i \in DOMAIN a.retained : ~(a.retained[i].turn = t /\ a.retained[i].prompt \in ps)}

LEMMA DroppedStored ==
    ASSUME NEW a \in AppType, NEW t, TurnSession(a, t) \in Sessions, NEW ps,
           NEW T, NEW R, NEW n, NEW Z, Stored(a, T, R, n, Z), ps \cap Z = {}
    PROVE  LET b == SteersDropped(a, t, ps)
           IN  Stored(b, T, R, n, Z) /\ b.retained = Entries(a.retained, Undropped(a, t, ps))
  <1> DEFINE b == SteersDropped(a, t, ps)
             s == TurnSession(a, t)
             back == {i \in DOMAIN a.retained :
                         a.retained[i].turn = t /\ a.retained[i].prompt \in ps}
             stay == Undropped(a, t, ps)
             leave == [x \in Sessions |-> IF x = s THEN back ELSE {}]
  <1> SUFFICES Stored(b, T, R, n, Z) /\ b.retained = Entries(a.retained, stay)
    OBVIOUS
  <1>1. b \in AppType /\ Returned(a, b)
    BY SteersDroppedData
  <1>2. /\ b.retained = Entries(a.retained, stay)
        /\ b.queue = [a.queue EXCEPT ![s] = PromptsOf(Entries(a.retained, back)) \o @]
    BY DEF SteersDropped, Select, AppType, Undropped
  <1> HIDE DEF b
  <1>3. \A i \in back : a.retained[i].prompt \in ps
    OBVIOUS
  <1>4. GivenBack(a, b, stay, leave)
    <2>1. stay \in SUBSET DOMAIN a.retained /\ back \in SUBSET DOMAIN a.retained
          /\ stay \cap back = {}
      BY DEF Undropped
    <2>2. \A x \in Sessions : leave[x] = IF x = s THEN back ELSE {}
      OBVIOUS
    <2>3. a.queue \in [Sessions -> Seq(PromptNo)] /\ s \in Sessions
      BY Fields DEF Queues
    <2> HIDE DEF stay, back, s
    <2>4. leave \in [Sessions -> SUBSET DOMAIN a.retained]
      BY <2>1
    <2> HIDE DEF leave
    <2>5. \A x \in Sessions :
              \/ b.queue[x] = a.queue[x]
              \/ b.queue[x] = PromptsOf(Entries(a.retained, leave[x])) \o a.queue[x]
      BY <1>2, <2>2, <2>3
    <2> QED BY <1>2, <2>1, <2>2, <2>4, <2>5 DEF GivenBack
  <1>5. \A p, x : Gave(a, leave, p, x) => p \in ps
    BY <1>3 DEF Gave
  <1> HIDE DEF leave, stay, back, s
  <1>6. /\ b.stash = a.stash /\ b.gate = a.gate /\ b.turns = a.turns /\ b.out = a.out
        /\ b.steering = a.steering
    BY <1>1 DEF Returned, Unsubmitted
  <1>7. Clean(b, T \cup R, R)
    BY <1>6 DEF Stored, Clean
  <1>8. ASSUME NEW p \in PromptNo
        PROVE  Unique(b, T \cup R, p) /\ (Loose(b, T \cup R, p, "none") => p <= n)
    <2>1. Unique(a, T \cup R, p) /\ (Loose(a, T \cup R, p, "none") => p <= n)
      BY DEF Stored
    <2>2. Unique(b, T \cup R, p) /\ (Loose(b, T \cup R, p, "none") => Loose(a, T \cup R, p, "none"))
      BY <1>1, <1>4, <1>6, <2>1, GivenBackPlaces
    <2> QED BY <2>1, <2>2
  <1>9. ASSUME NEW p \in Z \ {None} PROVE p <= n /\ ~Loose(b, T, p, Shield(b))
    <2>1. p \in PromptNo /\ p <= n /\ ~Loose(a, T, p, Shield(a)) /\ Shield(b) = Shield(a)
      BY <1>6 DEF Stored, PromptNo, Shield
    <2>2. Unique(a, T, p)
      BY <2>1, PlacesLess DEF Stored
    <2>3. \A x : ~Gave(a, leave, p, x)
      BY <1>5
    <2>4. \A k, x : At(b, T, p, k, x) => At(a, T, p, k, x)
      BY <1>1, <1>4, <1>6, <2>1, <2>2, <2>3, GivenBackPlaces
    <2> QED BY <2>1, <2>4 DEF Loose
  <1>10. Stored(b, T, R, n, Z)
    BY <1>7, <1>8, <1>9 DEF Stored
  <1> QED BY <1>2, <1>10 DEF stay

-----------------------------------------------------------------------------
(* What the event loop makes of a handler's result: its turn/start, if any,   *)
(* is under way once it is handed to the transport; or, while there is no    *)
(* child, the transport refuses it and its prompt is staged again.          *)

LEMMA HandedStored ==
    ASSUME NEW a \in AppType, NEW b \in AppType, b.out = <<>>, b.turns = a.turns,
           b.gate = a.gate, b.queue = a.queue, SameSteers(a, b),
           NEW T, NEW R, NEW n, NEW Z, Stored(a, T, R, n, Z)
    PROVE  Stored(b, T \cup Starts(a.out), R, n, Z)
  <1> DEFINE S == Starts(a.out)
  <1>1. Starts(b.out) = {}
    BY DEF Starts, StartPlaces
  <1> HIDE DEF S
  <1>2. Clean(b, (T \cup S) \cup R, R)
    BY <1>1 DEF Stored, Clean, S
  <1>3. ASSUME NEW X, NEW p, NEW k, NEW x, At(b, X \cup S, p, k, x) PROVE At(a, X, p, k, x)
    BY <1>1, <1>3 DEF At, S, SameSteers
  <1>4. (T \cup S) \cup R = (T \cup R) \cup S
    OBVIOUS
  <1>5. ASSUME NEW p \in PromptNo
        PROVE  /\ Unique(b, (T \cup S) \cup R, p)
               /\ Loose(b, (T \cup S) \cup R, p, "none") => p <= n
    <2>1. Unique(a, T \cup R, p) /\ (Loose(a, T \cup R, p, "none") => p <= n)
      BY DEF Stored
    <2>2. \A k, x : At(b, (T \cup S) \cup R, p, k, x) => At(a, T \cup R, p, k, x)
      BY <1>3, <1>4
    <2>3. OneCopy(b, p) /\ OnePlace(b, (T \cup S) \cup R, p)
      BY <2>1, <2>2 DEF Unique, OneCopy, OnePlace, SameSteers
    <2> QED BY <2>1, <2>2, <2>3 DEF Unique, Loose
  <1>6. ASSUME NEW p \in Z \ {None} PROVE p <= n /\ ~Loose(b, T \cup S, p, Shield(b))
    <2>1. p <= n /\ ~Loose(a, T, p, Shield(a)) /\ Shield(b) = Shield(a)
      BY DEF Stored, Shield, SameSteers
    <2> QED BY <1>3, <2>1 DEF Loose
  <1>7. Stored(b, T \cup S, R, n, Z)
    BY <1>2, <1>5, <1>6 DEF Stored
  <1> QED BY <1>7 DEF S

(* The refusal: only the gate on screen can be that of the new turn, and it  *)
(* has given its prompt back.                                               *)
LEMMA RefusedStored ==
    ASSUME app \in AppType, NEW a \in AppType, Tame(a), app.out = <<>>, a.out # <<>>,
           NEW n, NEW Z, Stored(a, {}, {}, n, Z)
    PROVE  LET b == [a EXCEPT !.out = <<>>]
               c == [SendRefused(b) EXCEPT !.turns = app.turns]
           IN  Stored(c, {}, {}, n, Z) /\ c.retained = a.retained
  <1> DEFINE b == [a EXCEPT !.out = <<>>]
             d == SendRefused(b)
             c == [d EXCEPT !.turns = app.turns]
  <1> SUFFICES Stored(c, {}, {}, n, Z) /\ c.retained = a.retained
    OBVIOUS
  <1>0. /\ a.turns \in TurnTables /\ app.turns \in TurnTables
        /\ Len(app.turns) \in Nat /\ DOMAIN app.turns = 1..Len(app.turns)
    BY Fields, TableFacts
  <1>1. /\ b \in AppType /\ b.out = <<>> /\ b.turns = a.turns /\ Apart(a, b)
        /\ b.gate = a.gate /\ b.queue = a.queue /\ b.sel = a.sel
    BY HandedOver DEF Apart
  <1> HIDE DEF b
  <1>2. Stored(b, {}, {}, n, Z)
    <2>1. Stored(b, {} \cup Starts(a.out), {}, n, Z)
      BY <1>1, HandedStored DEF Apart
    <2>2. {} \in SUBSET ({} \cup Starts(a.out)) /\ {} \in SUBSET {}
      OBVIOUS
    <2> QED BY <2>1, <2>2, StoredLess
  <1>3. Stored(d, {}, {}, n, Z) /\ d.retained = b.retained
    <2>1. {b.sel} \in SUBSET Sessions
      BY <1>1, Fields
    <2>2. d = Failed(RestageGates(b, {b.sel}, Backoff))
      BY DEF SendRefused
    <2>3. Shifts(b, d, {}, {}) /\ d.retained = b.retained
      BY <1>1, <2>1, <2>2, BackedOffShifts
    <2>4. {} \cup {} = {}
      OBVIOUS
    <2> QED BY <1>2, <2>3, <2>4, StoredShifts
  <1>4. d \in AppType /\ BackedOff(b, d, {b.sel})
    BY <1>1, SendRefusedData
  <1> HIDE DEF d
  <1>5. /\ c.turns = app.turns /\ c.gate = d.gate /\ c.queue = d.queue /\ c.out = <<>>
        /\ c.stash = d.stash /\ c.retained = d.retained /\ c.steering = d.steering
    BY <1>1, <1>4 DEF AppType, BackedOff, Unsubmitted
  <1> HIDE DEF c
  <1>6. Starts(c.out) = {} /\ Starts(d.out) = {}
    BY <1>1, <1>4, <1>5 DEF Starts, StartPlaces, BackedOff, Unsubmitted
  <1>7. ASSUME NEW s \in Sessions, c.gate[s].turn # None
        PROVE  /\ c.gate[s].turn \in DOMAIN app.turns
               /\ app.turns[c.gate[s].turn] = d.turns[c.gate[s].turn]
    <2> DEFINE t == d.gate[s].turn
    <2>1. /\ t \in DOMAIN a.turns /\ a.turns[t].sess = s /\ d.turns = a.turns
      <3>1. d.turns = a.turns
        BY <1>1, <1>4 DEF BackedOff, Unsubmitted
      <3>2. d.gate[s].turn # None
        BY <1>5, <1>7
      <3>3. Clean(d, {} \cup {}, {})
        BY <1>3 DEF Stored
      <3> QED BY <3>1, <3>2, <3>3 DEF Clean
    <2>2. s # a.sel
      <3>1. CASE a.gate[a.sel].set
        BY <1>1, <1>4, <1>5, <1>7, <3>1 DEF BackedOff, Gated, Backoff
      <3>2. CASE ~a.gate[a.sel].set
        <4>1. a.sel \in Sessions /\ a.gate[a.sel] \in GateType
          BY Fields DEF Gates
        <4>2. a.gate[a.sel].turn = None
          BY <3>2, <4>1 DEF GateType, NoGate
        <4> QED BY <1>1, <1>4, <1>5, <1>7, <3>2, <4>2 DEF BackedOff, Gated
      <3> QED BY <3>1, <3>2
    <2> HIDE DEF t
    <2>3. CASE a.turns = app.turns
      BY <1>5, <2>1, <2>3 DEF t
    <2>4. ASSUME NEW p, Submits(app, a, p)
          PROVE  t \in DOMAIN app.turns /\ app.turns[t] = a.turns[t]
      <3> DEFINE e == [sess |-> a.sel, prompt |-> p]
      <3>1. e \in TurnType /\ e.sess = a.sel /\ a.turns = Append(app.turns, e)
        BY <2>4, Fields DEF Submits, TurnType, PromptNo
      <3> HIDE DEF e
      <3>2. /\ Len(a.turns) = Len(app.turns) + 1 /\ a.turns[Len(app.turns) + 1] = e
            /\ \A x \in DOMAIN app.turns : a.turns[x] = app.turns[x]
        BY <1>0, <3>1, TableFacts
      <3>3. DOMAIN a.turns = 1..(Len(app.turns) + 1)
        BY <1>0, <3>2, TableFacts
      <3>4. t # Len(app.turns) + 1
        BY <2>1, <2>2, <3>1, <3>2
      <3>5. t \in DOMAIN app.turns
        BY <1>0, <2>1, <3>3, <3>4
      <3> QED BY <3>2, <3>5
    <2>5. a.turns = app.turns \/ \E p : Submits(app, a, p)
      BY DEF Tame, Plain, Unsubmitted, Steered
    <2> QED BY <1>5, <2>1, <2>3, <2>4, <2>5 DEF t
  <1>8. Clean(c, {}, {})
    BY <1>3, <1>5, <1>6, <1>7 DEF Stored, Clean
  <1>9. \A p, k, x : At(c, {}, p, k, x) => At(d, {}, p, k, x)
    BY <1>5, <1>6 DEF At
  <1>10. Shifts(d, c, {}, {})
    <2>1. \A p : Unique(d, {}, p) => Unique(c, {}, p)
      BY <1>5, <1>9 DEF Unique, OneCopy, OnePlace
    <2> QED BY <1>5, <1>8, <1>9, <2>1 DEF Shifts, Loose
  <1>11. {} \cup {} = {}
    OBVIOUS
  <1> QED BY <1>1, <1>3, <1>5, <1>10, <1>11, StoredShifts DEF Apart, SameSteers

LEMMA StartsConcat ==
    ASSUME NEW w \in Seq(CmdType), NEW o \in Seq(CmdType)
    PROVE  Starts(w \o o) = Starts(w) \cup Starts(o)
  <1> DEFINE m == w \o o
             n == Len(w)
  <1>1. /\ n \in Nat /\ Len(o) \in Nat /\ DOMAIN w = 1..n /\ DOMAIN o = 1..Len(o)
        /\ DOMAIN m = 1..(n + Len(o))
        /\ \A i \in 1..(n + Len(o)) : m[i] = IF i <= n THEN w[i] ELSE o[i - n]
    BY ConcatProperties
  <1> HIDE DEF m, n
  <1>2. \A i \in DOMAIN m : \/ i \in DOMAIN w /\ m[i] = w[i]
                            \/ i - n \in DOMAIN o /\ m[i] = o[i - n]
    BY <1>1
  <1>3. \A i \in DOMAIN w : i \in DOMAIN m /\ m[i] = w[i]
    BY <1>1
  <1>4. \A i \in DOMAIN o : i + n \in DOMAIN m /\ m[i + n] = o[i]
    BY <1>1
  <1>5. Starts(m) \subseteq Starts(w) \cup Starts(o)
    BY <1>2 DEF Starts, StartPlaces
  <1>6. Starts(w) \subseteq Starts(m)
    BY <1>3 DEF Starts, StartPlaces
  <1>7. Starts(o) \subseteq Starts(m)
    BY <1>4 DEF Starts, StartPlaces
  <1> QED BY <1>5, <1>6, <1>7 DEF m

(* What the event loop leaves of a handler's result, with the turns that are *)
(* under way then.                                                          *)
LEMMA RunStored ==
    ASSUME Sound, NEW T, NEW R, link = "down" => T = {} /\ R = {},
           NEW a \in AppType, Tame(a), NEW w \in Seq(CmdType), Run(a, w),
           NEW n, NEW Z, Stored(a, T, R, n, Z)
    PROVE  LET N == IF link = "down" THEN {} ELSE Starts(a.out)
           IN  /\ SameSteers(a, app') /\ Starts(wire') = Starts(w) \cup N
               /\ Stored(app', T \cup N, R, n, Z)
  <1> DEFINE N == IF link = "down" THEN {} ELSE Starts(a.out)
             b == [a EXCEPT !.out = <<>>]
             c == [SendRefused(b) EXCEPT !.turns = app.turns]
  <1> SUFFICES /\ SameSteers(a, app') /\ Starts(wire') = Starts(w) \cup N
               /\ Stored(app', T \cup N, R, n, Z)
    OBVIOUS
  <1>1. /\ b \in AppType /\ b.out = <<>> /\ b.turns = a.turns /\ SameSteers(a, b)
        /\ b.gate = a.gate /\ b.queue = a.queue
    BY HandedOver DEF Apart
  <1>2. /\ app' = IF link = "down" /\ a.out # <<>> THEN c ELSE b
        /\ wire' = IF link = "down" THEN w ELSE w \o a.out
    BY DEF Run
  <1>3. /\ app \in AppType /\ app.out = <<>> /\ a.out \in Seq(CmdType)
        /\ app.turns \in TurnTables
    BY TurnsKnown, Fields DEF Outputs
  <1>4. CASE link = "down" /\ a.out # <<>>
    <2>1. Stored(a, {}, {}, n, Z) /\ T \cup N = {} /\ R = {}
      BY <1>4
    <2>2. Stored(c, {}, {}, n, Z)
      BY <1>3, <1>4, <2>1, RefusedStored
    <2>3. SameSteers(a, c)
      <3>1. SendRefused(b) \in AppType /\ SameSteers(b, SendRefused(b))
        BY <1>1, SendRefusedData DEF BackedOff, Apart
      <3>2. SameSteers(SendRefused(b), c)
        BY <1>3, <3>1, Unsent DEF Apart
      <3> HIDE DEF b, c
      <3> QED BY <1>1, <3>1, <3>2 DEF SameSteers
    <2> HIDE DEF c, b
    <2> QED BY <1>2, <1>4, <2>1, <2>2, <2>3
  <1> HIDE DEF b, c
  <1>5. CASE ~(link = "down" /\ a.out # <<>>)
    <2>1. app' = b
      BY <1>2, <1>5
    <2>2. Starts(a.out) = N
      BY <1>5 DEF Starts, StartPlaces
    <2>3. Stored(b, T \cup N, R, n, Z)
      <3>1. Stored(b, T \cup Starts(a.out), R, n, Z)
        BY <1>1, HandedStored
      <3> QED BY <2>2, <3>1
    <2>4. Starts(wire') = Starts(w) \cup N
      <3>1. Starts(w \o a.out) = Starts(w) \cup Starts(a.out)
        BY <1>3, StartsConcat
      <3> HIDE DEF N
      <3>2. CASE link = "down"
        BY <1>2, <3>2 DEF N
      <3>3. CASE link # "down"
        BY <1>2, <2>2, <3>1, <3>3
      <3> QED BY <3>2, <3>3
    <2> QED BY <1>1, <2>1, <2>3, <2>4
  <1> QED BY <1>4, <1>5

-----------------------------------------------------------------------------
(* What the server and the wire hold of the prompts. *)

(* An accepted steer belongs to a running turn, and is retained for it.     *)
Fed(a, q, R, Z) ==
    /\ \A i, j \in DOMAIN q : q[i].prompt = q[j].prompt => i = j
    /\ \A i \in DOMAIN q :
          /\ q[i].turn \in R /\ q[i].prompt \notin Z
          /\ \E j \in DOMAIN a.retained : /\ a.retained[j].turn = q[i].turn
                                          /\ a.retained[j].prompt = q[i].prompt

(* A turn/start names its turn's prompt, a turn/steer that of its entry.    *)
Told(w, a, n) ==
    \A i \in DOMAIN w :
        /\ w[i].kind = "start" => a.turns[w[i].turn].prompt = w[i].prompt
        /\ w[i].kind = "steer" => /\ w[i].prompt <= n
                                  /\ \A j \in DOMAIN a.stash :
                                        a.stash[j].prompt = w[i].prompt =>
                                            a.stash[j].turn = w[i].turn

(* The list r holds the entries of q at some of the places I, each once.    *)
Picked(q, r, I) ==
    \E f : /\ f \in [DOMAIN r -> I] /\ \A i \in DOMAIN r : r[i] = q[f[i]]
           /\ \A i, j \in DOMAIN r : f[i] = f[j] => i = j

LEMMA PickedEntries ==
    ASSUME NEW S, NEW q \in Seq(S), NEW kept \in SUBSET DOMAIN q
    PROVE  Picked(q, Entries(q, kept), kept)
  <1> DEFINE m == Cardinality(kept)
  <1>1. Len(q) \in Nat /\ kept \in SUBSET (1..Len(q))
    OBVIOUS
  <1>2. m \in Nat /\ \E g : Lists(g, m, kept)
    BY <1>1, Listed
  <1> HIDE DEF m
  <1> PICK g : Lists(g, m, kept)
    BY <1>2
  <1>3. Entries(q, kept) = [k \in 1..m |-> q[g[k]]]
    <2>1. ListsEntries(g, m, q, kept)
      BY <1>1, <1>2, EntriesListed
    <2> QED BY <2>1 DEF ListsEntries
  <1>4. g \in [1..m -> kept] /\ \A i, k \in 1..m : i < k => g[i] < g[k]
    BY DEF Lists
  <1>5. ASSUME NEW i \in 1..m, NEW j \in 1..m, g[i] = g[j] PROVE i = j
    <2>1. g[i] \in Int /\ g[j] \in Int
      BY <1>1, <1>4
    <2>2. ~(i < j) /\ ~(j < i)
      BY <1>4, <1>5, <2>1
    <2> QED BY <1>2, <2>2
  <1> DEFINE e == Entries(q, kept)
  <1>6. DOMAIN e = 1..m /\ \A i \in 1..m : e[i] = q[g[i]]
    BY <1>3
  <1> HIDE DEF e
  <1>7. g \in [DOMAIN e -> kept] /\ \A i \in DOMAIN e : e[i] = q[g[i]]
    BY <1>4, <1>6
  <1>8. \A i, j \in DOMAIN e : g[i] = g[j] => i = j
    BY <1>5, <1>6
  <1>9. Picked(q, e, kept)
    BY <1>7, <1>8 DEF Picked
  <1> QED BY <1>9 DEF e

LEMMA PickedTail ==
    ASSUME NEW S, NEW q \in Seq(S), q # <<>>
    PROVE  Picked(q, Tail(q), DOMAIN q \ {1}) /\ q[1] = Head(q) /\ 1 \in DOMAIN q
  <1> DEFINE r == Tail(q)
             f == [i \in DOMAIN r |-> i + 1]
  <1>1. /\ Head(q) = q[1] /\ 1 \in DOMAIN q
        /\ \A i \in DOMAIN r : i \in Nat \ {0} /\ i + 1 \in DOMAIN q /\ r[i] = q[i + 1]
    BY HeadTailProperties
  <1> HIDE DEF r
  <1>2. \A i \in DOMAIN r : i + 1 # 1 /\ \A j \in DOMAIN r : i + 1 = j + 1 => i = j
    BY <1>1
  <1>3. /\ f \in [DOMAIN r -> DOMAIN q \ {1}] /\ \A i \in DOMAIN r : r[i] = q[f[i]]
        /\ \A i, j \in DOMAIN r : f[i] = f[j] => i = j
    BY <1>1, <1>2
  <1> HIDE DEF f
  <1>4. Picked(q, r, DOMAIN q \ {1})
    BY <1>3 DEF Picked
  <1> QED BY <1>1, <1>4 DEF r

LEMMA PickedSelf ==
    ASSUME NEW q
    PROVE  Picked(q, q, DOMAIN q)
  <1> DEFINE f == [i \in DOMAIN q |-> i]
  <1>1. /\ f \in [DOMAIN q -> DOMAIN q] /\ \A i \in DOMAIN q : q[i] = q[f[i]]
        /\ \A i, j \in DOMAIN q : f[i] = f[j] => i = j
    OBVIOUS
  <1> HIDE DEF f
  <1> QED BY <1>1 DEF Picked

(* The retained steers at the places kept stay. *)
Stays(a, b, kept) ==
    \A j \in kept : j \in DOMAIN a.retained
                    /\ \E k \in DOMAIN b.retained : b.retained[k] = a.retained[j]

LEMMA StaysEntries ==
    ASSUME NEW a \in AppType, NEW b, NEW kept \in SUBSET DOMAIN a.retained,
           b.retained = Entries(a.retained, kept)
    PROVE  Stays(a, b, kept)
  <1>1. a.retained \in Seq(SteerType)
    BY Fields DEF Stashes
  <1>2. \A i \in kept : \E k \in DOMAIN b.retained : b.retained[k] = a.retained[i]
    BY <1>1, EntriesData
  <1> QED BY <1>2 DEF Stays

LEMMA FedPicked ==
    ASSUME NEW a, NEW b, NEW kept, Stays(a, b, kept), NEW q, NEW I \in SUBSET DOMAIN q,
           NEW r, Picked(q, r, I), NEW R, NEW Z, Fed(a, q, R, Z), NEW Q, NEW Y,
           \A i \in I : q[i].turn \in Q /\ q[i].prompt \notin Y,
           \A i \in I : \A j \in DOMAIN a.retained :
               a.retained[j].turn = q[i].turn /\ a.retained[j].prompt = q[i].prompt => j \in kept
    PROVE  Fed(b, r, Q, Y)
  <1> PICK f : /\ f \in [DOMAIN r -> I] /\ \A i \in DOMAIN r : r[i] = q[f[i]]
               /\ \A i, j \in DOMAIN r : f[i] = f[j] => i = j
    BY DEF Picked
  <1>1. \A i \in DOMAIN r : f[i] \in I /\ f[i] \in DOMAIN q /\ r[i] = q[f[i]]
    OBVIOUS
  <1>2. ASSUME NEW i \in DOMAIN r, NEW j \in DOMAIN r, r[i].prompt = r[j].prompt PROVE i = j
    <2>1. f[i] = f[j]
      BY <1>1, <1>2 DEF Fed
    <2> QED BY <2>1
  <1>3. ASSUME NEW i \in DOMAIN r
        PROVE  /\ r[i].turn \in Q /\ r[i].prompt \notin Y
               /\ \E k \in DOMAIN b.retained : /\ b.retained[k].turn = r[i].turn
                                               /\ b.retained[k].prompt = r[i].prompt
    <2> DEFINE x == f[i]
    <2>1. x \in I /\ x \in DOMAIN q /\ r[i] = q[x]
      BY <1>1
    <2> HIDE DEF x
    <2>2. PICK j \in DOMAIN a.retained : /\ a.retained[j].turn = q[x].turn
                                         /\ a.retained[j].prompt = q[x].prompt
      BY <2>1 DEF Fed
    <2>3. j \in kept
      BY <2>1, <2>2
    <2>4. PICK k \in DOMAIN b.retained : b.retained[k] = a.retained[j]
      BY <2>3 DEF Stays
    <2> QED BY <2>1, <2>2, <2>4
  <1> QED BY <1>2, <1>3 DEF Fed

LEMMA FedSame ==
    ASSUME NEW a, NEW b, b.retained = a.retained, NEW q, NEW R, NEW Z, Fed(a, q, R, Z),
           NEW Q, R \subseteq Q
    PROVE  Fed(b, q, Q, Z)
  BY DEF Fed

LEMMA ToldLater ==
    ASSUME NEW w \in Seq(CmdType), NEW a \in AppType, NEW b, Extends(a.turns, b.turns),
           Starts(w) \subseteq DOMAIN a.turns, NEW n \in Nat, NEW m \in Nat, n <= m,
           b.stash = a.stash \/ (a.stash # <<>> /\ b.stash = Tail(a.stash)), Told(w, a, n)
    PROVE  Told(w, b, m)
  <1>1. \A t \in DOMAIN a.turns : b.turns[t] = a.turns[t]
    BY DEF Extends
  <1>2. \A j \in DOMAIN b.stash : \E i \in DOMAIN a.stash : b.stash[j] = a.stash[i]
    <2>1. a.stash # <<>> => \A j \in DOMAIN Tail(a.stash) :
             j + 1 \in DOMAIN a.stash /\ Tail(a.stash)[j] = a.stash[j + 1]
      BY HasTail, Fields
    <2> QED BY <2>1
  <1>3. \A i \in DOMAIN w : w[i].kind = "start" => w[i].turn \in DOMAIN a.turns
    BY DEF Starts, StartPlaces
  <1>4. \A i \in DOMAIN w : w[i].prompt \in Nat
    <2>1. \A i \in DOMAIN w : w[i] \in CmdType
      OBVIOUS
    <2> QED BY <2>1 DEF CmdType
  <1> QED BY <1>1, <1>2, <1>3, <1>4 DEF Told

LEMMA ToldSame ==
    ASSUME NEW w, NEW a, NEW b, b.turns = a.turns, b.stash = a.stash, NEW n, Told(w, a, n)
    PROVE  Told(w, b, n)
  BY DEF Told

LEMMA ToldTail ==
    ASSUME NEW w \in Seq(CmdType), w # <<>>, NEW a, NEW n, Told(w, a, n)
    PROVE  Told(Tail(w), a, n) /\ Tail(w) \in Seq(CmdType)
  <1>1. \A i \in DOMAIN Tail(w) : i + 1 \in DOMAIN w /\ Tail(w)[i] = w[i + 1]
    OBVIOUS
  <1> QED BY <1>1 DEF Told

LEMMA ToldAppend ==
    ASSUME NEW w \in Seq(CmdType), NEW a, NEW n, Told(w, a, n), NEW c \in CmdType,
           c.kind = "start" => a.turns[c.turn].prompt = c.prompt,
           c.kind = "steer" => /\ c.prompt <= n
                               /\ \A j \in DOMAIN a.stash :
                                     a.stash[j].prompt = c.prompt => a.stash[j].turn = c.turn
    PROVE  Told(w \o <<c>>, a, n)
  <1> DEFINE v == w \o <<c>>
  <1>1. v = Append(w, c)
    BY AppendIsConcat
  <1>2. \A i \in DOMAIN v : (i \in DOMAIN w /\ v[i] = w[i]) \/ v[i] = c
    BY <1>1
  <1> HIDE DEF v
  <1>3. Told(v, a, n)
    BY <1>2 DEF Told
  <1> QED BY <1>3 DEF v

LEMMA PlainTold ==
    ASSUME Sound, NEW a \in AppType, a.out = <<>> \/ Plain(app, a),
           NEW w \in Seq(CmdType), NEW n, Told(w, a, n)
    PROVE  Told(w \o a.out, a, n)
  <1>1. app.out = <<>> /\ app.turns \in TurnTables /\ a.out \in Seq(CmdType)
    BY TurnsKnown, Fields DEF Outputs
  <1>2. CASE a.out = <<>>
    BY <1>2, ConcatEmptySeq
  <1>3. ASSUME NEW c, a.out = <<c>>, c.kind # "steer",
               c.kind = "start" => a.turns[c.turn].prompt = c.prompt
        PROVE  Told(w \o a.out, a, n)
    <2>1. c \in CmdType
      <3>1. a.out[1] = c /\ 1 \in DOMAIN a.out
        BY <1>3
      <3> QED BY <1>1, <3>1
    <2> QED BY <1>3, <2>1, ToldAppend
  <1>4. ASSUME NEW k \in {"hydrate", "interrupt"}, NEW s, NEW t, NEW p,
               a.out = Append(app.out, Cmd(k, s, t, p))
        PROVE  Told(w \o a.out, a, n)
    <2>1. Cmd(k, s, t, p).kind \notin {"start", "steer"} /\ a.out = <<Cmd(k, s, t, p)>>
      BY <1>1, <1>4 DEF Cmd
    <2> QED BY <1>3, <2>1
  <1>5. ASSUME NEW p, Submits(app, a, p)
        PROVE  Told(w \o a.out, a, n)
    <2> DEFINE c == Cmd("start", a.sel, Len(app.turns) + 1, p)
    <2>1. a.out = <<c>> /\ c.kind = "start" /\ c.turn = Len(app.turns) + 1 /\ c.prompt = p
      BY <1>1, <1>5 DEF Submits, Cmd
    <2>2. [sess |-> a.sel, prompt |-> p] \in TurnType
      BY <1>5, Fields DEF Submits, TurnType, PromptNo
    <2>3. a.turns[Len(app.turns) + 1].prompt = p
      BY <1>1, <1>5, <2>2, TableFacts DEF Submits
    <2> HIDE DEF c
    <2> QED BY <1>3, <2>1, <2>3
  <1> QED BY <1>1, <1>2, <1>4, <1>5 DEF Plain, Unsubmitted, Asks

LEMMA SteeredTold ==
    ASSUME Sound, NEW a \in AppType, NEW n \in Nat, Steered(app, a, n + 1),
           NEW T, NEW R, NEW Z, Stored(app, T, R, n, Z), Told(wire, app, n)
    PROVE  Told(wire \o a.out, a, n + 1)
  <1> DEFINE e == [turn |-> Live(app), prompt |-> n + 1]
             c == Cmd("steer", app.sel, Live(app), n + 1)
  <1>1. /\ app.out = <<>> /\ app \in AppType /\ app.stash \in Stashes
        /\ a.out \in Seq(CmdType) /\ wire \in Seq(CmdType) /\ Live(app) \in Nat
    BY TurnsKnown, Fields DEF Outputs, Marks, Live
  <1>2. /\ a.out = <<c>> /\ c.kind = "steer" /\ c.turn = e.turn /\ c.prompt = n + 1
        /\ e.prompt = n + 1 /\ a.stash = Append(app.stash, e) /\ a.turns = app.turns
    BY <1>1 DEF Steered, Cmd
  <1>3. e \in SteerType /\ n + 1 \in PromptNo
    BY <1>1 DEF SteerType, PromptNo, None
  <1>4. c \in CmdType
    <2>1. a.out[1] = c /\ 1 \in DOMAIN a.out
      BY <1>2
    <2> QED BY <1>1, <2>1
  <1> HIDE DEF c, e
  <1>5. ~Has(app.stash, n + 1)
    <2>1. Has(app.stash, n + 1) => Loose(app, T \cup R, n + 1, "none")
      BY DEF Loose, At
    <2>2. ~(n + 1 <= n)
      OBVIOUS
    <2> QED BY <1>3, <2>1, <2>2 DEF Stored
  <1>6. \A j \in DOMAIN a.stash : a.stash[j] = e \/ (j \in DOMAIN app.stash /\ a.stash[j] = app.stash[j])
    BY <1>1, <1>2, <1>3, HasAppend
  <1>7. Told(wire, a, n + 1)
    <2>1. \A i \in DOMAIN wire : wire[i].prompt \in Nat
      <3>1. \A i \in DOMAIN wire : wire[i] \in CmdType
        BY <1>1
      <3> QED BY <3>1 DEF CmdType
    <2>2. \A i \in DOMAIN wire : wire[i].kind = "steer" =>
             wire[i].prompt <= n + 1 /\ wire[i].prompt # n + 1
      BY <2>1 DEF Told
    <2> QED BY <1>2, <1>6, <2>2 DEF Told
  <1>8. \A j \in DOMAIN a.stash : a.stash[j].prompt = c.prompt => a.stash[j].turn = c.turn
    BY <1>2, <1>5, <1>6 DEF Has
  <1>9. Told(wire \o <<c>>, a, n + 1)
    <2>1. c.kind # "start" /\ c.prompt <= n + 1
      BY <1>2
    <2> QED BY <1>1, <1>4, <1>7, <1>8, <2>1, ToldAppend
  <1> QED BY <1>2, <1>9

-----------------------------------------------------------------------------
(* The invariant, until the store takes a submission that is alive for dead. *)

Clear == misled \cap {"own", "cap"} = {}

Placed ==
    Clear =>
        /\ Stored(app, Starts(wire) \cup accepted, running, Len(typed), answered)
        /\ Fed(app, inputs, running, answered)
        /\ Told(wire, app, Len(typed))
        /\ Starts(wire) \cup accepted \cup running # {} => link = "up" /\ inbox = <<>>

(* The event loop takes a handler's result over. *)
LEMMA StepPlaced ==
    ASSUME Sound, Phase', link' = link, NEW a \in AppType, Tame(a),
           NEW w \in Seq(CmdType), Run(a, w),
           Stored(a, Starts(w) \cup accepted', running', Len(typed'), answered'),
           Fed(a, inputs', running', answered'), Told(w \o a.out, a, Len(typed')),
           Starts(w) \cup accepted' \cup running' # {} => link = "up" /\ inbox' = <<>>,
           Starts(a.out) # {} /\ link # "down" => link = "up" /\ inbox' = <<>>
    PROVE  Placed'
  <1> DEFINE T == Starts(w) \cup accepted'
             N == IF link = "down" THEN {} ELSE Starts(a.out)
  <1>1. link = "down" => T = {} /\ running' = {}
    OBVIOUS
  <1>2. Stored(a, T, running', Len(typed'), answered')
    OBVIOUS
  <1> HIDE DEF T
  <1>3. /\ SameSteers(a, app') /\ Starts(wire') = Starts(w) \cup N
        /\ Stored(app', T \cup N, running', Len(typed'), answered')
    BY <1>1, <1>2, RunStored
  <1>4. Starts(wire') \cup accepted' = T \cup N
    BY <1>3 DEF T
  <1>5. Fed(app', inputs', running', answered')
    BY <1>3, FedSame DEF SameSteers
  <1>6. Told(wire', app', Len(typed'))
    <2>1. CASE link = "down"
      <3>1. wire' = <<>>
        BY <2>1 DEF Phase
      <3> QED BY <3>1 DEF Told
    <2>2. CASE link # "down"
      <3>1. wire' = w \o a.out /\ app'.turns = a.turns
        BY <2>2, TurnsKnown, RunLatch
      <3>2. app'.stash = a.stash
        BY <1>3 DEF SameSteers
      <3>3. Told(wire', a, Len(typed'))
        BY <3>1
      <3> QED BY <3>1, <3>2, <3>3, ToldSame
    <2> QED BY <2>1, <2>2
  <1>7. Starts(wire') \cup accepted' \cup running' # {} => link' = "up" /\ inbox' = <<>>
    BY <1>4 DEF T
  <1>8. Stored(app', Starts(wire') \cup accepted', running', Len(typed'), answered')
    BY <1>3, <1>4
  <1> QED BY <1>5, <1>6, <1>7, <1>8 DEF Placed

(* Nothing changes, or the server takes a request. *)
LEMMA StillPlaced ==
    ASSUME Sound, Placed, Clear, app' = app, UNCHANGED <<inputs, running, typed, answered>>,
           wire' = wire \/ (wire # <<>> /\ wire' = Tail(wire)),
           Starts(wire') \cup accepted' \subseteq Starts(wire) \cup accepted,
           UNCHANGED <<link, inbox>> \/ Starts(wire) \cup accepted \cup running = {}
    PROVE  Placed'
  <1>1. Stored(app, Starts(wire') \cup accepted', running, Len(typed), answered)
    BY StoredLess DEF Placed
  <1>2. Told(wire', app, Len(typed))
    BY TurnsKnown, ToldTail DEF Placed
  <1>3. Starts(wire') \cup accepted' \cup running' # {} => link' = "up" /\ inbox' = <<>>
    BY DEF Placed
  <1> QED BY <1>1, <1>2, <1>3 DEF Placed

(* The user, or the clock, acts on the store.                               *)
LEMMA ActsPlaced ==
    ASSUME ~BusyBoots, Firm, Firm', Placed, Clear,
           NEW a \in AppType, Tame(a), Acts(a), a.retained = app.retained,
           Stored(a, Starts(wire) \cup accepted, running, Len(typed'), answered),
           Told(wire \o a.out, a, Len(typed'))
    PROVE  Placed'
  <1>1. /\ Run(a, wire) /\ inbox = <<>>
        /\ UNCHANGED <<accepted, running, inputs, link, inbox, answered>>
    BY DEF Acts, Keeps, serverVars
  <1>2. Sound /\ Phase' /\ wire \in Seq(CmdType)
    BY TurnsKnown DEF Firm
  <1>3. Starts(a.out) # {} /\ link # "down" => link = "up" /\ inbox' = <<>>
    <2>1. CASE \A i \in DOMAIN a.out : a.out[i].kind \notin {"start", "steer"}
      BY <2>1 DEF Starts, StartPlaces
    <2> QED BY <1>1, <2>1 DEF Acts
  <1>4. Fed(a, inputs', running', answered')
    <2>1. Fed(a, inputs, running, answered)
      BY FedSame DEF Placed
    <2> QED BY <1>1, <2>1
  <1>5. Starts(wire) \cup accepted' \cup running' # {} => link = "up" /\ inbox' = <<>>
    BY <1>1 DEF Placed
  <1>6. Stored(a, Starts(wire) \cup accepted', running', Len(typed'), answered')
    BY <1>1
  <1> QED BY <1>1, <1>2, <1>3, <1>4, <1>5, <1>6, StepPlaced

(* What a handler that takes no prompt leaves. *)
LEMMA PlainPlaced ==
    ASSUME Firm, Placed, Clear, NEW a, Fit(a, app.turns), Plain(app, a),
           \A X, R : Shifts(app, a, X, R)
    PROVE  /\ a \in AppType /\ Tame(a)
           /\ Stored(a, Starts(wire) \cup accepted, running, Len(typed), answered)
           /\ Told(wire \o a.out, a, Len(typed))
  <1>1. a \in AppType /\ Tame(a)
    BY DEF Fit, Tame
  <1>2. Stored(a, Starts(wire) \cup accepted, running, Len(typed), answered)
    BY StoredShifts DEF Placed
  <1>3. Told(wire \o a.out, a, Len(typed))
    <2>1. /\ wire \in Seq(CmdType) /\ app \in AppType /\ Starts(wire) \subseteq DOMAIN app.turns
          /\ Sound
      BY TurnsKnown DEF Firm
    <2>2. Len(typed) \in Nat
      BY DEF Firm, Sound, BudgetSound
    <2>3. Told(wire, a, Len(typed))
      BY <2>1, <2>2, ToldLater DEF Placed, Plain, Fit
    <2> QED BY <1>1, <2>1, <2>3, PlainTold
  <1> QED BY <1>1, <1>2, <1>3

LEMMA UserPlaced ==
    ASSUME ~BusyBoots, Firm, Firm', Placed, Clear,
           User \/ \E due \in BOOLEAN : Tick(due)
    PROVE  Placed'
  <1> DEFINE T == Starts(wire) \cup accepted
  <1>1. Fit(app, app.turns) /\ app \in AppType /\ Sound
    BY TurnsKnown DEF Firm
  <1>2. CASE TypePrompt
    <2> DEFINE n == Len(typed)
               a == Prompt(app, n + 1)
    <2>1. n \in Nat /\ n + 1 \in PromptNo /\ Len(typed') = n + 1
      BY <1>1, <1>2 DEF TypePrompt, Sound, BudgetSound, PromptNo, None
    <2>2. Acts(a)
      BY <1>2 DEF TypePrompt
    <2>3. Fit(a, app.turns) /\ (Plain(app, a) \/ Steered(app, a, n + 1))
      BY <1>1, <2>1, PromptFit
    <2>4. Stored(app, T, running, n, answered) /\ Told(wire, app, n)
      BY <1>2 DEF Placed, TypePrompt
    <2>5. Stored(a, T, running, n + 1, answered) /\ a.retained = app.retained
      BY <1>1, <2>4, PromptStored
    <2> HIDE DEF a, n
    <2>6. a \in AppType /\ Tame(a)
      BY <2>3 DEF Fit, Tame
    <2>7. Told(wire \o a.out, a, n + 1)
      <3>1. CASE Plain(app, a)
        <4>1. /\ wire \in Seq(CmdType) /\ Starts(wire) \subseteq DOMAIN app.turns
              /\ n <= n + 1 /\ n + 1 \in Nat
          BY <1>1, <2>1, TurnsKnown
        <4>2. Told(wire, a, n + 1)
          BY <1>1, <2>1, <2>3, <2>4, <3>1, <4>1, ToldLater DEF Plain, Fit
        <4> QED BY <1>1, <2>6, <3>1, <4>1, <4>2, PlainTold
      <3>2. CASE Steered(app, a, n + 1)
        BY <1>1, <2>1, <2>4, <2>6, <3>2, SteeredTold
      <3> QED BY <2>3, <3>1, <3>2
    <2> QED BY <2>1, <2>2, <2>5, <2>6, <2>7, ActsPlaced
  <1>3. ASSUME NEW a, Acts(a), typed' = typed, Fit(a, app.turns), Plain(app, a),
               a.retained = app.retained, \A X, R : Shifts(app, a, X, R)
        PROVE  Placed'
    BY <1>3, PlainPlaced, ActsPlaced
  <1>4. CASE UserInterrupts \/ SendPendingNow
    <2>1. Acts(Interrupt(app)) /\ typed' = typed
      BY <1>4 DEF UserInterrupts, SendPendingNow
    <2> QED BY <1>1, <1>3, <2>1, InterruptFit, InterruptShifts
  <1>5. ASSUME NEW s \in Sessions, UserSwitches(s) PROVE Placed'
    <2>1. Acts(Switch(app, s)) /\ typed' = typed
      BY <1>5 DEF UserSwitches
    <2> QED BY <1>1, <1>3, <2>1, SwitchFit, SwitchShifts
  <1>6. ASSUME NEW due \in BOOLEAN, Tick(due) PROVE Placed'
    <2>1. Acts(TickOf(app, due)) /\ typed' = typed
      BY <1>6 DEF Tick
    <2> QED BY <1>1, <1>3, <2>1, TickFit, TickShifts
  <1> QED BY <1>2, <1>4, <1>5, <1>6 DEF User

(* A gate that ages waits for no turn under way. *)
LEMMA AgedStored ==
    ASSUME NEW a, NEW b, NEW T, NEW R, NEW n, NEW Z, Stored(a, T, R, n, Z),
           b.queue = a.queue, SameSteers(a, b), Unsubmitted(a, b),
           \A s \in Sessions : /\ b.gate[s].turn = a.gate[s].turn
                               /\ b.gate[s].prompt = a.gate[s].prompt
                               /\ \/ b.gate[s].old = a.gate[s].old
                                  \/ a.gate[s].turn \notin T \cup Starts(a.out)
    PROVE  Stored(b, T, R, n, Z)
  <1>1. Clean(b, T \cup R, R)
    BY DEF Stored, Clean, Unsubmitted
  <1>2. \A X, p, k, x : At(b, X, p, k, x) <=> At(a, X, p, k, x)
    BY DEF At, SameSteers, Unsubmitted
  <1>3. \A X, p, k0 : Loose(b, X, p, k0) <=> Loose(a, X, p, k0)
    BY <1>2 DEF Loose
  <1>4. \A X, p : Unique(b, X, p) <=> Unique(a, X, p)
    BY <1>2 DEF Unique, OneCopy, OnePlace, SameSteers
  <1>5. Shield(b) = Shield(a)
    BY DEF Shield, SameSteers
  <1> QED BY <1>1, <1>3, <1>4, <1>5 DEF Stored

LEMMA AgesPlaced ==
    ASSUME Firm, Firm', Placed, Clear, NEW s \in Sessions, MarkerAges(s) \/ GateAges(s)
    PROVE  Placed'
  <1> DEFINE T == Starts(wire) \cup accepted
  <1>1. UNCHANGED <<wire, accepted, running, inputs, link, inbox, typed, answered>>
    BY DEF MarkerAges, GateAges, serverVars
  <1>2. /\ app \in AppType /\ app.gate \in Gates /\ app.out = <<>>
    BY TurnsKnown, Fields DEF Firm
  <1>3. /\ app'.queue = app.queue /\ SameSteers(app, app') /\ Unsubmitted(app, app')
        /\ \A x \in Sessions : /\ app'.gate[x].turn = app.gate[x].turn
                               /\ app'.gate[x].prompt = app.gate[x].prompt
                               /\ \/ app'.gate[x].old = app.gate[x].old
                                  \/ app.gate[x].turn \notin T \cup Starts(app.out)
    <2>1. CASE MarkerAges(s)
      BY <1>2, <2>1 DEF MarkerAges, AppType, SameSteers, Unsubmitted
    <2>2. CASE GateAges(s)
      <3>1. app' = [app EXCEPT !.gate[s].old = TRUE] /\ ~InTransit(app.gate[s].turn)
        BY <2>2 DEF GateAges
      <3>2. app.gate[s].turn \notin T \cup Starts(app.out)
        BY <1>2, <3>1 DEF InTransit, Starts, StartPlaces
      <3>3. /\ app'.queue = app.queue /\ SameSteers(app, app') /\ Unsubmitted(app, app')
            /\ app'.gate = [app.gate EXCEPT ![s].old = TRUE]
        BY <1>2, <3>1 DEF AppType, SameSteers, Unsubmitted
      <3>4. app.gate[s] \in [turn : Nat, prompt : Nat, old : BOOLEAN, set : BOOLEAN]
        BY <1>2 DEF Gates, GateType
      <3>5. /\ app'.gate[s] = [app.gate[s] EXCEPT !.old = TRUE]
            /\ \A x \in Sessions \ {s} : app'.gate[x] = app.gate[x]
        BY <1>2, <3>3 DEF Gates
      <3>6. app'.gate[s].turn = app.gate[s].turn /\ app'.gate[s].prompt = app.gate[s].prompt
        BY <3>4, <3>5
      <3> QED BY <3>2, <3>3, <3>5, <3>6
    <2> QED BY <2>1, <2>2
  <1>4. Stored(app, T, running, Len(typed), answered) /\ Fed(app, inputs, running, answered)
        /\ Told(wire, app, Len(typed))
    BY DEF Placed
  <1>5. Stored(app', T, running, Len(typed), answered)
    BY <1>3, <1>4, AgedStored
  <1>6. Fed(app', inputs, running, answered) /\ Told(wire, app', Len(typed))
    BY <1>3, <1>4, FedSame, ToldSame DEF SameSteers, Unsubmitted
  <1> QED BY <1>1, <1>5, <1>6 DEF Placed

-----------------------------------------------------------------------------
(* The server answers the oldest request. *)

LEMMA TailPlaced ==
    ASSUME Firm, Firm', Placed, Clear, NEW kind, Takes(kind),
           NEW a \in AppType, a.out = <<>>, Extends(app.turns, a.turns),
           a.stash = app.stash \/ (app.stash # <<>> /\ a.stash = Tail(app.stash)),
           Run(a, Tail(wire)), UNCHANGED <<running, typed, answered, link, inbox>>,
           NEW U, Starts(Tail(wire)) \cup accepted' \subseteq U,
           Stored(a, U, running, Len(typed), answered), Fed(a, inputs', running, answered)
    PROVE  Placed'
  <1> DEFINE w == Tail(wire)
  <1>1. /\ wire \in Seq(CmdType) /\ wire # <<>> /\ link = "up" /\ inbox = <<>>
        /\ app \in AppType /\ Starts(wire) \subseteq DOMAIN app.turns /\ Sound /\ Phase'
    BY TurnsKnown DEF Firm, Takes
  <1>2. Len(typed) \in Nat
    BY <1>1 DEF Sound, BudgetSound
  <1>3. Told(w, app, Len(typed)) /\ w \in Seq(CmdType) /\ Starts(w) \subseteq Starts(wire)
    BY <1>1, ToldTail, StartsTail DEF Placed
  <1> HIDE DEF w
  <1>4. Told(w, a, Len(typed))
    BY <1>1, <1>2, <1>3, ToldLater
  <1>5. Told(w \o a.out, a, Len(typed))
    BY <1>1, <1>3, <1>4, PlainTold
  <1>6. Stored(a, Starts(w) \cup accepted', running, Len(typed), answered)
    BY StoredLess DEF w
  <1>7. Tame(a) /\ Starts(a.out) = {}
    BY DEF Tame, Starts, StartPlaces
  <1>8. /\ Stored(a, Starts(w) \cup accepted', running', Len(typed'), answered')
        /\ Fed(a, inputs', running', answered') /\ Told(w \o a.out, a, Len(typed'))
        /\ Run(a, w) /\ inbox' = <<>> /\ link' = link
    BY <1>1, <1>5, <1>6 DEF w
  <1> QED BY <1>1, <1>3, <1>7, <1>8, StepPlaced

(* The oldest entry of the stash is that of the steer which is answered. *)
LEMMA StashHead ==
    ASSUME ~BusyBoots, Sound, Takes("steer")
    PROVE  Head(app.stash).prompt = Head(wire).prompt
  <1> DEFINE u == UnderWay(<<>>, wire)
             st == app.stash
  <1>1. /\ wire \in Seq(CmdType) /\ wire # <<>> /\ Head(wire).kind = "steer" /\ inbox = <<>>
        /\ st \in Seq(SteerType) /\ st # <<>>
    BY TurnsKnown, TakesFacts, Fields DEF Takes, Stashes
  <1>2. u \in Seq(CmdType) /\ u # <<>> /\ Head(u) = Head(wire)
    <2>1. <<>> \in Seq(EventType)
      OBVIOUS
    <2> QED BY <1>1, <2>1, UnderWayData, UnderWayTail
  <1>3. PromptsOf(st) = PromptsOf(u)
    BY <1>1 DEF Sound, LinesSound, Lines, Match
  <1> HIDE DEF u, st
  <1>4. st[1] = Head(st) /\ 1 \in DOMAIN st /\ u[1] = Head(u) /\ 1 \in DOMAIN u
    BY <1>1, <1>2
  <1>5. PromptsOf(st)[1] = st[1].prompt /\ PromptsOf(u)[1] = u[1].prompt
    BY <1>4 DEF PromptsOf
  <1> QED BY <1>2, <1>3, <1>4, <1>5 DEF st

LEMMA SteerTakenPlaced ==
    ASSUME ~BusyBoots, Firm, Firm', Placed, Clear, AcceptSteer \/ RefuseSteer
    PROVE  Placed'
  <1> DEFINE T == Starts(wire) \cup accepted
             n == Len(typed)
             h == Head(app.stash)
  <1>1. /\ Takes("steer") /\ UNCHANGED <<accepted, running, typed, answered, link, inbox>>
    BY DEF AcceptSteer, RefuseSteer, serverVars
  <1>2. /\ app \in AppType /\ app.out = <<>> /\ app.stash # <<>> /\ wire \in Seq(CmdType)
        /\ wire # <<>> /\ app.stash \in Stashes /\ app.retained \in Stashes
        /\ Fit(app, app.turns) /\ Sound /\ Head(wire) \in CmdType
        /\ Extends(app.turns, app.turns)
    BY <1>1, TurnsKnown, TakesFacts, Fields DEF Firm, Takes
  <1>3. Starts(Tail(wire)) \cup accepted' \subseteq T
    BY <1>1, <1>2, StartsTail
  <1>4. Stored(app, T, running, n, answered) /\ Fed(app, inputs, running, answered)
        /\ Told(wire, app, n)
    BY DEF Placed
  <1>5. h \in SteerType /\ 1 \in DOMAIN app.stash /\ app.stash[1] = h
    BY <1>2, HasTail DEF Stashes
  <1>6. h.prompt = Head(wire).prompt
    BY <1>1, <1>2, StashHead
  <1>7. h.turn \in DOMAIN app.turns
    BY <1>2, <1>5 DEF Fit, Refs
  <1> HIDE DEF T
  <1>8. CASE AcceptSteer
    <2> DEFINE a == SteeredInto(app)
               e == [turn |-> Head(wire).turn, prompt |-> Head(wire).prompt]
    <2>1. inputs' = Append(inputs, e) /\ Run(a, Tail(wire)) /\ Head(wire).turn \in running
      BY <1>8 DEF AcceptSteer
    <2>2. a \in AppType /\ Popped(app, a) /\ a.retained = Append(app.retained, h)
      BY <1>2, SteeredIntoData
    <2>3. Stored(a, T, running, n, answered)
      BY <1>2, <1>4, SteeredIntoStored
    <2> HIDE DEF a, h
    <2>4. e.turn = h.turn /\ e.prompt = h.prompt /\ e.turn \in running
          /\ e \in [turn : Nat, prompt : Nat]
      <3>1. wire[1] = Head(wire) /\ 1 \in DOMAIN wire /\ Head(wire).kind = "steer"
        BY <1>1, <1>2 DEF Takes
      <3>2. h.turn = Head(wire).turn
        BY <1>4, <1>5, <1>6, <3>1 DEF Told
      <3> QED BY <1>2, <1>6, <2>1, <3>2 DEF CmdType
    <2> HIDE DEF e
    <2>5. h.prompt \in PromptNo /\ h.prompt # None
      BY <1>5 DEF SteerType, PromptNo
    <2>6. At(app, T, h.prompt, "stash", None) /\ At(app, T \cup running, h.prompt, "stash", None)
      BY <1>5 DEF At, Has
    <2>7. h.prompt \notin answered
      <3>1. Shield(app) # "stash"
        BY DEF Shield
      <3> QED BY <1>4, <2>5, <2>6, <3>1 DEF Stored, Loose
    <2>8. ~Has(app.retained, h.prompt)
      <3>1. Has(app.retained, h.prompt) => At(app, T \cup running, h.prompt, "retained", None)
        BY DEF At
      <3> QED BY <1>4, <2>5, <2>6, <3>1 DEF Stored, Unique, OnePlace
    <2>9. /\ \A j \in DOMAIN app.retained : \E k \in DOMAIN a.retained :
                 a.retained[k] = app.retained[j]
          /\ \E k \in DOMAIN a.retained : a.retained[k] = h
      <3>1. \A j \in DOMAIN app.retained : j \in DOMAIN a.retained /\ a.retained[j] = app.retained[j]
        BY <1>2, <1>5, <2>2, HasAppend
      <3>2. \E k \in DOMAIN a.retained : a.retained[k] = h
        BY <1>2, <1>5, <2>2, HasAppend
      <3> QED BY <3>1, <3>2
    <2>10. \A i \in DOMAIN inputs' : \/ i \in DOMAIN inputs /\ inputs'[i] = inputs[i]
                                     \/ i = Len(inputs) + 1 /\ inputs'[i] = e
      <3>1. inputs \in Seq([turn : Nat, prompt : Nat])
        BY <1>2 DEF Sound, ServerSound
      <3> QED BY <2>1, <2>4, <3>1, AppendProperties
    <2>11. \A i \in DOMAIN inputs : inputs[i].prompt # e.prompt
      BY <1>4, <2>4, <2>8 DEF Fed, Has
    <2>12. Fed(a, inputs', running, answered)
      <3>1. ASSUME NEW i \in DOMAIN inputs', NEW j \in DOMAIN inputs',
                   inputs'[i].prompt = inputs'[j].prompt
            PROVE  i = j
        BY <1>4, <2>10, <2>11, <3>1 DEF Fed
      <3>2. ASSUME NEW i \in DOMAIN inputs'
            PROVE  /\ inputs'[i].turn \in running /\ inputs'[i].prompt \notin answered
                   /\ \E k \in DOMAIN a.retained : /\ a.retained[k].turn = inputs'[i].turn
                                                   /\ a.retained[k].prompt = inputs'[i].prompt
        <4>1. CASE i \in DOMAIN inputs /\ inputs'[i] = inputs[i]
          <5>1. PICK j \in DOMAIN app.retained : /\ app.retained[j].turn = inputs[i].turn
                                                 /\ app.retained[j].prompt = inputs[i].prompt
            BY <1>4, <4>1 DEF Fed
          <5> QED BY <1>4, <2>9, <4>1, <5>1 DEF Fed
        <4>2. CASE inputs'[i] = e
          BY <2>4, <2>7, <2>9, <4>2
        <4> QED BY <2>10, <4>1, <4>2
      <3> QED BY <3>1, <3>2 DEF Fed
    <2> QED BY <1>1, <1>2, <1>3, <2>1, <2>2, <2>3, <2>12, TailPlaced DEF Popped, Unsubmitted
  <1>9. CASE RefuseSteer
    <2> DEFINE a == SteerFailed(app)
    <2>1. Run(a, Tail(wire)) /\ inputs' = inputs
      BY <1>9 DEF RefuseSteer, serverVars
    <2>2. a \in AppType /\ Popped(app, a) /\ a.retained = app.retained
      BY <1>2, SteerFailedData
    <2>3. TurnSession(app, h.turn) \in Sessions
      BY <1>2, <1>7, TurnsKnown
    <2>4. Stored(a, T, running, n, answered)
      BY <1>2, <1>4, <2>3, SteerFailedStored
    <2> HIDE DEF a
    <2>5. Fed(a, inputs', running, answered)
      BY <1>4, <2>1, <2>2, FedSame
    <2> QED BY <1>1, <1>2, <1>3, <2>1, <2>2, <2>4, <2>5, TailPlaced DEF Popped, Unsubmitted
  <1> QED BY <1>8, <1>9

LEMMA MintedPlaced ==
    ASSUME ~BusyBoots, Firm, Firm', Placed, Clear, StartForSteer
    PROVE  Placed'
  <1> DEFINE T == Starts(wire) \cup accepted
             t == Len(app.turns) + 1
             e == [sess |-> Head(wire).sess, prompt |-> Head(wire).prompt]
             b == [app EXCEPT !.turns = Append(@, e)]
             a == SteerStartedTurn(b)
  <1>1. /\ Takes("steer") /\ Run(a, Tail(wire)) /\ accepted' = accepted \cup {t}
        /\ UNCHANGED <<running, inputs, typed, answered, link, inbox>>
    BY DEF StartForSteer
  <1>2. /\ app \in AppType /\ app.out = <<>> /\ app.stash # <<>> /\ wire \in Seq(CmdType)
        /\ wire # <<>> /\ Fit(app, app.turns) /\ Sound /\ Head(wire) \in CmdType
    BY <1>1, TurnsKnown, TakesFacts DEF Firm, Takes
  <1>3. Stored(app, T, running, Len(typed), answered) /\ Fed(app, inputs, running, answered)
    BY DEF Placed
  <1>4. e \in TurnType /\ e.prompt = Head(app.stash).prompt
    BY <1>1, <1>2, StashHead DEF CmdType, TurnType
  <1> HIDE DEF e, T
  <1>5. Stored(a, T \cup {t}, running, Len(typed), answered)
    BY <1>2, <1>3, <1>4, SteerMintedStored
  <1>6. /\ b \in AppType /\ Extends(app.turns, b.turns) /\ Apart(app, b) /\ b.out = <<>>
    BY <1>2, <1>4, ExtendedFit
  <1> HIDE DEF b
  <1>7. b.stash = app.stash /\ b.retained = app.retained
    BY <1>6 DEF Apart, SameSteers
  <1>8. a \in AppType /\ Popped(b, a) /\ a.retained = b.retained
    BY <1>2, <1>6, <1>7, SteerStartedTurnData
  <1> HIDE DEF a
  <1>9. /\ a.out = <<>> /\ a.turns = b.turns /\ a.stash = Tail(app.stash)
    BY <1>6, <1>7, <1>8 DEF Popped, Unsubmitted
  <1>10. Starts(Tail(wire)) \cup accepted' \subseteq T \cup {t}
    BY <1>1, <1>2, StartsTail DEF T
  <1>11. Fed(a, inputs', running, answered)
    BY <1>1, <1>3, <1>7, <1>8, FedSame
  <1> QED BY <1>1, <1>2, <1>5, <1>6, <1>8, <1>9, <1>10, <1>11, TailPlaced

LEMMA AnswerPlaced ==
    ASSUME ~BusyBoots, Firm, Firm', Placed, Clear,
           \/ AcceptStart \/ DropStart \/ RefuseStart \/ TakeInterrupt
           \/ AcceptSteer \/ RefuseSteer \/ StartForSteer
    PROVE  Placed'
  <1>1. CASE AcceptStart \/ DropStart \/ TakeInterrupt
    <2>1. /\ app' = app /\ UNCHANGED <<inputs, running, typed, answered, link, inbox>>
          /\ wire # <<>> /\ wire' = Tail(wire)
          /\ accepted' = accepted \/ (/\ Head(wire).kind = "start"
                                      /\ accepted' = accepted \cup {Head(wire).turn})
      BY <1>1 DEF AcceptStart, DropStart, TakeInterrupt, Takes, serverVars
    <2>2. /\ Head(wire).kind = "start" => Head(wire).turn \in Starts(wire)
          /\ Starts(wire') \subseteq Starts(wire) /\ Sound
      BY <2>1, TurnsKnown, StartsTail DEF Firm, TurnsRan
    <2> QED BY <2>1, <2>2, StillPlaced
  <1>2. CASE RefuseStart
    <2> DEFINE a == Failed(app)
    <2>1. /\ Takes("start") /\ Run(a, Tail(wire))
          /\ UNCHANGED <<accepted, running, inputs, typed, answered, link, inbox>>
      BY <1>2 DEF RefuseStart, serverVars
    <2>2. /\ app \in AppType /\ app.out = <<>> /\ wire \in Seq(CmdType) /\ wire # <<>>
          /\ Fit(app, app.turns)
      BY <2>1, TurnsKnown DEF Firm, Takes
    <2>3. Fewer(app, a) /\ a.retained = app.retained
      BY <2>2, FailedFewer
    <2>4. a \in AppType /\ Unsubmitted(app, a)
      BY <2>2, FailedData
    <2> HIDE DEF a
    <2>5. Stored(a, Starts(wire) \cup accepted, running, Len(typed), answered)
      BY <2>2, <2>3, <2>4, StoredFewer DEF Placed
    <2>6. Fed(a, inputs', running, answered)
      <3>1. Fed(a, inputs, running, answered)
        BY <2>3, FedSame DEF Placed
      <3> QED BY <2>1, <3>1
    <2>7. Starts(Tail(wire)) \cup accepted' \subseteq Starts(wire) \cup accepted
      BY <2>1, <2>2, StartsTail
    <2>8. a.out = <<>> /\ Extends(app.turns, a.turns) /\ a.stash = app.stash
      BY <2>2, <2>3, <2>4 DEF Unsubmitted, Fit, Fewer
    <2> QED BY <2>1, <2>4, <2>5, <2>6, <2>7, <2>8, TailPlaced
  <1> QED BY <1>1, <1>2, SteerTakenPlaced, MintedPlaced

(* A snapshot takes what it holds from the retained steers, which no        *)
(* accepted steer waits for.                                                *)
LEMMA HydratePlaced ==
    ASSUME Firm, Firm', Placed, Clear, NEW stale, AnswerHydrate(stale)
    PROVE  Placed'
  <1> DEFINE s == Head(wire).sess
             Mine(ts) == {t \in ts : t # None /\ TurnSession(app, t) = s}
             active == Mine(running \cup {stale})
             told == active \cap app.done
             t1 == CHOOSE t \in told : TRUE
             ended == Mine(over \ {stale})
             a == IF told # {} THEN Refresh(app, s, t1)
                  ELSE Hydrated(app, s, ended, active, answered)
             T == Starts(wire) \cup accepted
  <1>1. /\ Takes("hydrate") /\ Run(a, Tail(wire)) /\ wire # <<>> /\ link = "up" /\ inbox = <<>>
        /\ UNCHANGED <<accepted, running, inputs, typed, answered, link, inbox>>
    BY DEF AnswerHydrate, Takes, serverVars
  <1>2. s \in Sessions
    BY <1>1, TakesFacts DEF CmdType, Firm
  <1>3. told \subseteq app.done /\ ended \subseteq over /\ None \notin ended
    OBVIOUS
  <1> HIDE DEF ended, active, told, T
  <1>4. /\ Fit(app, app.turns) /\ app \in AppType /\ app.done \in SUBSET Nat
        /\ wire \in Seq(CmdType) /\ Sound /\ app.out = <<>>
    BY <1>1, TurnsKnown, Fields DEF Firm
  <1>5. told # {} => t1 \in Nat
    BY <1>3, <1>4
  <1> HIDE DEF t1, s
  <1>6. Stored(app, T, running, Len(typed), answered) /\ Fed(app, inputs, running, answered)
        /\ Told(wire, app, Len(typed))
    BY DEF Placed, T
  <1>7. /\ Fit(a, app.turns) /\ Plain(app, a)
        /\ Stored(a, T, running, Len(typed), answered) /\ Fed(a, inputs, running, answered)
    <2>1. CASE told # {}
      <3> DEFINE b == Refresh(app, s, t1)
      <3>1. b \in AppType /\ Plain(app, b) /\ Fit(b, app.turns)
        BY <1>2, <1>4, <1>5, <2>1, RefreshData, RefreshFit
      <3>2. Fewer(app, b) /\ b.retained = app.retained
        BY <1>2, <1>4, <1>5, <2>1, RefreshFewer
      <3>3. a = b
        BY <2>1
      <3> HIDE DEF a, b
      <3>4. Stored(b, T, running, Len(typed), answered) /\ Fed(b, inputs, running, answered)
        BY <1>4, <1>6, <3>1, <3>2, StoredFewer, FedSame
      <3> QED BY <3>1, <3>3, <3>4
    <2>2. CASE told = {}
      <3> DEFINE b == Hydrated(app, s, ended, active, answered)
                 kept == Unlanded(app, s, answered)
      <3>1. Fit(b, app.turns) /\ Plain(app, b)
        BY <1>2, <1>3, <1>4, HydratedFit
      <3>2. /\ \A X, R : Shifts(app, b, X, R)
            /\ b.retained = Entries(app.retained, kept)
        <4>1. ASSUME NEW X, NEW R
              PROVE  Shifts(app, b, X, R) /\ b.retained = Entries(app.retained, kept)
          BY <1>2, <1>4, HydratedShifts
        <4> QED BY <4>1
      <3>3. a = b
        BY <2>2
      <3> HIDE DEF a, b
      <3>4. Stored(b, T, running, Len(typed), answered)
        BY <1>6, <3>2, StoredShifts
      <3>5. Fed(b, inputs, running, answered)
        <4>1. Stays(app, b, kept)
          <5>1. kept \in SUBSET DOMAIN app.retained
            BY DEF Unlanded
          <5> QED BY <1>4, <3>2, <5>1, StaysEntries
        <4>2. /\ Picked(inputs, inputs, DOMAIN inputs)
              /\ \A i \in DOMAIN inputs : inputs[i].turn \in running /\ inputs[i].prompt \notin answered
          BY <1>6, PickedSelf DEF Fed
        <4>3. \A i \in DOMAIN inputs : \A j \in DOMAIN app.retained :
                 app.retained[j].turn = inputs[i].turn
                 /\ app.retained[j].prompt = inputs[i].prompt => j \in kept
          BY <4>2 DEF Unlanded
        <4> HIDE DEF kept
        <4> QED BY <1>6, <4>1, <4>2, <4>3, FedPicked
      <3> QED BY <3>1, <3>3, <3>4, <3>5
    <2> QED BY <2>1, <2>2
  <1> HIDE DEF a
  <1> DEFINE w == Tail(wire)
  <1>8. /\ Starts(w) \cup accepted' \subseteq T /\ w \in Seq(CmdType)
        /\ Starts(w) \subseteq DOMAIN app.turns /\ Told(w, app, Len(typed))
    BY <1>1, <1>4, <1>6, StartsTail, ToldTail, TurnsKnown DEF T
  <1>9. Run(a, w) /\ a \in AppType /\ Tame(a)
    BY <1>1, <1>7 DEF Fit, Tame
  <1> HIDE DEF w
  <1>10. Told(w \o a.out, a, Len(typed))
    <2>1. Len(typed) \in Nat
      BY <1>4 DEF Sound, BudgetSound
    <2>2. Told(w, a, Len(typed))
      BY <1>4, <1>7, <1>8, <2>1, ToldLater DEF Plain, Fit
    <2> QED BY <1>4, <1>7, <1>8, <1>9, <2>2, PlainTold
  <1>11. Stored(a, Starts(w) \cup accepted', running, Len(typed), answered)
    BY <1>7, <1>8, StoredLess
  <1>12. /\ Stored(a, Starts(w) \cup accepted', running', Len(typed'), answered')
         /\ Fed(a, inputs', running', answered') /\ Told(w \o a.out, a, Len(typed'))
         /\ inbox' = <<>> /\ link' = link
    BY <1>1, <1>7, <1>10, <1>11
  <1> QED BY <1>1, <1>4, <1>8, <1>9, <1>12, StepPlaced DEF Firm

-----------------------------------------------------------------------------
(* The server reports. *)

LEMMA KeepsPlaced ==
    ASSUME Firm, Firm', Placed, Clear, inbox = <<>>, UNCHANGED <<link, inbox, typed>>,
           NEW a, Fit(a, app.turns), Plain(app, a), Keeps(a),
           link = "up" \/ (a.out = <<>> /\ Starts(wire) \cup accepted' \cup running' = {}),
           Stored(a, Starts(wire) \cup accepted', running', Len(typed), answered'),
           Fed(a, inputs', running', answered')
    PROVE  Placed'
  <1>1. /\ wire \in Seq(CmdType) /\ app \in AppType /\ Starts(wire) \subseteq DOMAIN app.turns
        /\ Sound /\ Phase' /\ Len(typed) \in Nat
    BY TurnsKnown DEF Firm, Sound, BudgetSound
  <1>2. a \in AppType /\ Tame(a) /\ Run(a, wire)
    BY DEF Fit, Tame, Keeps
  <1>3. Told(wire \o a.out, a, Len(typed))
    <2>1. Told(wire, a, Len(typed))
      BY <1>1, ToldLater DEF Placed, Plain, Fit
    <2> QED BY <1>1, <1>2, <2>1, PlainTold
  <1>4. /\ Stored(a, Starts(wire) \cup accepted', running', Len(typed'), answered')
        /\ Told(wire \o a.out, a, Len(typed')) /\ inbox' = <<>> /\ link' = link
    BY <1>3
  <1>5. Starts(a.out) # {} /\ link # "down" => link = "up" /\ inbox' = <<>>
    BY DEF Starts, StartPlaces
  <1> QED BY <1>1, <1>2, <1>4, <1>5, StepPlaced

(* A steer that waits with a running turn is not that of a turn under way.  *)
LEMMA FedAway ==
    ASSUME NEW a \in AppType, NEW T, NEW R, NEW n, NEW Z, Stored(a, T, R, n, Z),
           NEW q, Fed(a, q, R, Z), NEW t \in T
    PROVE  \A i \in DOMAIN q : q[i].prompt # a.turns[t].prompt
  <1> SUFFICES ASSUME NEW i \in DOMAIN q, q[i].prompt = a.turns[t].prompt PROVE FALSE
    OBVIOUS
  <1> DEFINE p == q[i].prompt
  <1>1. PICK j \in DOMAIN a.retained : a.retained[j].prompt = p
    BY DEF Fed
  <1>2. p \in PromptNo
    <2>1. a.retained \in Seq(SteerType)
      BY Fields DEF Stashes
    <2>2. a.retained[j] \in SteerType
      BY <2>1
    <2> QED BY <1>1, <2>2 DEF SteerType
  <1>3. At(a, T \cup R, p, "retained", None) /\ At(a, T \cup R, p, "turn", t)
    BY <1>1 DEF At, Has
  <1> HIDE DEF p
  <1> QED BY <1>2, <1>3 DEF Stored, Unique, OnePlace

(* A turn under way starts. *)
LEMMA StartTurnPlaced ==
    ASSUME Firm, Firm', Placed, Clear, NEW t, StartTurn(t)
    PROVE  Placed'
  <1> DEFINE a == Started(app, t)
             T == Starts(wire) \cup accepted
             R == running
             p0 == app.turns[t].prompt
  <1>1. /\ link = "up" /\ inbox = <<>> /\ t \in accepted /\ accepted' = accepted \ {t}
        /\ running' = R \cup {t} /\ Keeps(a) /\ UNCHANGED <<link, inbox, inputs, typed>>
        /\ answered' = answered \cup {p0}
    BY DEF StartTurn
  <1>2. /\ app \in AppType /\ t \in Nat \ {None} /\ TurnSession(app, t) \in Sessions
        /\ t \notin app.done /\ t \in DOMAIN app.turns /\ app.out = <<>>
        /\ Fit(app, app.turns) /\ t \notin Starts(wire)
    BY <1>1, TurnsKnown DEF Firm, TurnsRan, Ran
  <1>3. Fit(a, app.turns) /\ Plain(app, a) /\ a \in AppType
    BY <1>2, StartedFit DEF Fit
  <1>4. /\ Fewer(app, a) /\ a.retained = app.retained
        /\ a.gate = [app.gate EXCEPT ![TurnSession(app, t)] = IF @.turn = t THEN NoGate ELSE @]
    BY <1>2, EventFewer
  <1> HIDE DEF a
  <1>5. Stored(app, T, R, Len(typed), answered) /\ Fed(app, inputs, R, answered)
    BY DEF Placed
  <1>6. t \in T /\ Starts(wire) \cup accepted' = T \ {t}
    BY <1>1, <1>2
  <1> HIDE DEF T
  <1>7. Stored(a, T \ {t}, R \cup {t}, Len(typed), answered \cup {p0})
    BY <1>2, <1>3, <1>4, <1>5, <1>6, StoredReleased
  <1>8. \A i \in DOMAIN inputs : inputs[i].prompt # p0
    BY <1>2, <1>5, <1>6, FedAway
  <1> HIDE DEF p0
  <1>9. Fed(a, inputs, R \cup {t}, answered \cup {p0})
    BY <1>4, <1>5, <1>8 DEF Fed
  <1> QED BY <1>1, <1>3, <1>6, <1>7, <1>9, KeepsPlaced

(* A terminal, of a turn that ran or of one that never starts. *)
LEMMA EndsPlaced ==
    ASSUME Firm, Firm', Placed, Clear, NEW t,
           \/ RejectTurn(t) \/ Abort(t)
           \/ \E o \in {"success", "error", "idle"} : Complete(t, o)
    PROVE  Placed'
  <1> DEFINE T == Starts(wire) \cup accepted
             R == running
             p0 == app.turns[t].prompt
             rest == {i \in DOMAIN inputs : inputs[i].turn # t}
             stay == Staying(app, {t})
  <1>1. /\ UNCHANGED <<link, inbox, typed>> /\ inbox = <<>>
        /\ \/ /\ t \in R /\ running' = R \ {t} /\ inputs' = Entries(inputs, rest)
              /\ UNCHANGED <<accepted, answered>>
           \/ /\ t \in accepted /\ accepted' = accepted \ {t} /\ running' = R
              /\ answered' = answered \cup {p0} /\ inputs' = inputs
    BY DEF RejectTurn, Abort, Complete, Ends, Listens, Select
  <1>2. /\ app \in AppType /\ t \in Nat /\ t # None /\ TurnSession(app, t) \in Sessions
        /\ Fit(app, app.turns) /\ t \in DOMAIN app.turns /\ app.out = <<>> /\ Sound
    BY <1>1, TurnsKnown DEF Firm
  <1>3. \E a : Fit(a, app.turns) /\ Plain(app, a) /\ Concluded(app, a, t) /\ Keeps(a)
    <2>1. ASSUME NEW o \in {"success", "error", "idle"}, Keeps(Commit(app, t, o))
          PROVE  \E a : Fit(a, app.turns) /\ Plain(app, a) /\ Concluded(app, a, t) /\ Keeps(a)
      BY <1>2, <2>1, CommitFit, CommitData
    <2>2. ASSUME NEW interrupt, Keeps(Fail(app, t, interrupt))
          PROVE  \E a : Fit(a, app.turns) /\ Plain(app, a) /\ Concluded(app, a, t) /\ Keeps(a)
      BY <1>2, <2>2, FailFit, FailData
    <2> QED BY <2>1, <2>2 DEF RejectTurn, Abort, Complete
  <1> PICK a : Fit(a, app.turns) /\ Plain(app, a) /\ Concluded(app, a, t) /\ Keeps(a)
    BY <1>3
  <1>4. a \in AppType
    BY DEF Fit
  <1>5. /\ a.retained = Entries(app.retained, stay) /\ \A X, Q : Shifts(app, a, X, Q)
        /\ \E c \in AppType :
              /\ Fewer(app, c) /\ c.gate = [app.gate EXCEPT ![TurnSession(app, t)] =
                                               IF @.turn = t THEN NoGate ELSE @]
              /\ \A X, Q : Shifts(c, a, X, Q)
    <2>1. /\ app \in AppType /\ a \in AppType /\ t \in Nat /\ Concluded(app, a, t)
      BY <1>2, <1>4
    <2> HIDE DEF stay
    <2>2. /\ a.retained = Entries(app.retained, Staying(app, {t}))
          /\ \A X, Q : Shifts(app, a, X, Q)
          /\ \E c \in AppType :
                /\ Fewer(app, c) /\ c.gate = [app.gate EXCEPT ![TurnSession(app, t)] =
                                                 IF @.turn = t THEN NoGate ELSE @]
                /\ \A X, Q : Shifts(c, a, X, Q)
      BY <2>1, ConcludedPlaces
    <2> QED BY <2>2 DEF stay
  <1>6. stay \in SUBSET DOMAIN app.retained
    BY DEF Staying
  <1>7. Stays(app, a, stay)
    BY <1>2, <1>5, <1>6, StaysEntries
  <1>8. Stored(app, T, R, Len(typed), answered) /\ Fed(app, inputs, R, answered)
    BY DEF Placed
  <1>9. link = "up"
    BY <1>1 DEF Placed
  <1>10. inputs \in Seq([turn : Nat, prompt : Nat]) /\ rest \in SUBSET DOMAIN inputs
    BY <1>2 DEF Sound, ServerSound
  <1>11. \A I \in SUBSET DOMAIN inputs : (\A i \in I : inputs[i].turn # t) =>
             \A i \in I : \A j \in DOMAIN app.retained :
                 app.retained[j].turn = inputs[i].turn
                 /\ app.retained[j].prompt = inputs[i].prompt => j \in stay
    BY DEF Staying
  <1>12. \A i \in rest : inputs[i].turn # t
    OBVIOUS
  <1> HIDE DEF stay, rest
  <1>13. CASE t \in R /\ running' = R \ {t} /\ inputs' = Entries(inputs, rest)
              /\ UNCHANGED <<accepted, answered>>
    <2>1. Stored(a, T, R \ {t}, Len(typed), answered)
      <3>1. Stored(a, T, R, Len(typed), answered)
        BY <1>5, <1>8, StoredShifts
      <3> QED BY <3>1, StoredLess
    <2>2. Fed(a, inputs', R \ {t}, answered)
      <3>1. Picked(inputs, inputs', rest)
        BY <1>10, <1>13, PickedEntries
      <3>2. \A i \in rest : inputs[i].turn \in R \ {t} /\ inputs[i].prompt \notin answered
        BY <1>8, <1>10, <1>12 DEF Fed
      <3>3. \A i \in rest : \A j \in DOMAIN app.retained :
                 app.retained[j].turn = inputs[i].turn
                 /\ app.retained[j].prompt = inputs[i].prompt => j \in stay
        BY <1>10, <1>11, <1>12
      <3> QED BY <1>7, <1>8, <1>10, <3>1, <3>2, <3>3, FedPicked
    <2> QED BY <1>1, <1>9, <1>13, <2>1, <2>2, KeepsPlaced
  <1>14. CASE t \in accepted /\ accepted' = accepted \ {t} /\ running' = R
              /\ answered' = answered \cup {p0} /\ inputs' = inputs
    <2>1. t \notin Starts(wire) /\ t \notin R
      BY <1>14 DEF Firm, TurnsRan, Ran
    <2>2. t \in T /\ Starts(wire) \cup accepted' = T \ {t}
      BY <1>14, <2>1
    <2> HIDE DEF T
    <2>3. Stored(a, T \ {t}, R, Len(typed), answered \cup {p0})
      <3>1. PICK c \in AppType :
              /\ Fewer(app, c) /\ c.gate = [app.gate EXCEPT ![TurnSession(app, t)] =
                                               IF @.turn = t THEN NoGate ELSE @]
              /\ \A X, Q : Shifts(c, a, X, Q)
        BY <1>5
      <3>2. Stored(c, T \ {t}, R, Len(typed), answered \cup {p0})
        BY <1>2, <1>8, <2>2, <3>1, StoredReleased
      <3> QED BY <3>1, <3>2, StoredShifts
    <2>4. \A i \in DOMAIN inputs : inputs[i].prompt # p0
      BY <1>2, <1>8, <2>2, FedAway
    <2> HIDE DEF p0
    <2>5. Fed(a, inputs, R, answered \cup {p0})
      <3>1. /\ Picked(inputs, inputs, DOMAIN inputs)
            /\ \A i \in DOMAIN inputs : inputs[i].turn \in R /\ inputs[i].turn # t
                                        /\ inputs[i].prompt \notin answered \cup {p0}
        BY <1>8, <2>1, <2>4, PickedSelf DEF Fed
      <3>2. \A i \in DOMAIN inputs : \A j \in DOMAIN app.retained :
                 app.retained[j].turn = inputs[i].turn
                 /\ app.retained[j].prompt = inputs[i].prompt => j \in stay
        BY <1>11, <3>1
      <3> QED BY <1>7, <1>8, <3>1, <3>2, FedPicked
    <2> QED BY <1>1, <1>9, <1>14, <2>2, <2>3, <2>5, KeepsPlaced
  <1> QED BY <1>1, <1>13, <1>14

(* Turns stream, and requests this module does not follow fail. *)
LEMMA StreamPlaced ==
    ASSUME Firm, Firm', Placed, Clear,
           (\E t \in running \cup over : Stream(t)) \/ OtherRequestFails("error")
    PROVE  Placed'
  <1>1. /\ app \in AppType /\ Fit(app, app.turns) /\ app.out = <<>>
        /\ running \cup over \subseteq DOMAIN app.turns
        /\ \A t \in DOMAIN app.turns : t \in Nat \ {None} /\ TurnSession(app, t) \in Sessions
    BY TurnsKnown DEF Firm
  <1>2. /\ inbox = <<>> /\ UNCHANGED <<link, inbox, typed, answered, accepted, running, inputs>>
    BY DEF Stream, OtherRequestFails, Listens, serverVars
  <1>3. \E a : /\ Fit(a, app.turns) /\ Plain(app, a) /\ a.out = <<>> /\ Keeps(a)
               /\ Fewer(app, a) /\ a.retained = app.retained
    <2>1. CASE OtherRequestFails("error")
      <3> DEFINE a == Failed(app)
      <3>1. Keeps(a)
        BY <2>1 DEF OtherRequestFails
      <3>2. Fit(a, app.turns) /\ Plain(app, a) /\ Fewer(app, a) /\ a.retained = app.retained
            /\ a.out = <<>>
        BY <1>1, FailedFit, FailedFewer, FailedData DEF Unsubmitted
      <3> HIDE DEF a
      <3> QED BY <3>1, <3>2
    <2>2. ASSUME NEW t \in running \cup over, Keeps(Delta(app, t))
          PROVE  \E a : /\ Fit(a, app.turns) /\ Plain(app, a) /\ a.out = <<>> /\ Keeps(a)
                        /\ Fewer(app, a) /\ a.retained = app.retained
      <3> DEFINE a == Delta(app, t)
      <3>1. Fit(a, app.turns) /\ Plain(app, a) /\ Fewer(app, a) /\ a.retained = app.retained
        BY <1>1, DeltaFit, EventFewer
      <3>2. a = app \/ Withheld(app, a) \/ Bound(app, a, t)
        BY <1>1, DeltaData
      <3>3. Keeps(a)
        BY <2>2
      <3> HIDE DEF a
      <3>4. a.out = <<>>
        BY <1>1, <3>2 DEF Withheld, Bound, Unsubmitted
      <3> QED BY <3>1, <3>3, <3>4
    <2>3. ASSUME NEW t \in running \cup over, Keeps(Tool(app, t))
          PROVE  \E a : /\ Fit(a, app.turns) /\ Plain(app, a) /\ a.out = <<>> /\ Keeps(a)
                        /\ Fewer(app, a) /\ a.retained = app.retained
      <3> DEFINE a == Tool(app, t)
      <3>1. Fit(a, app.turns) /\ Plain(app, a) /\ Fewer(app, a) /\ a.retained = app.retained
        BY <1>1, ToolFit, EventFewer
      <3>2. Unsubmitted(app, a)
        BY <1>1, ToolData
      <3>3. Keeps(a)
        BY <2>3
      <3> HIDE DEF a
      <3> QED BY <1>1, <3>1, <3>2, <3>3 DEF Unsubmitted
    <2> QED BY <2>1, <2>2, <2>3 DEF Stream
  <1> PICK a : /\ Fit(a, app.turns) /\ Plain(app, a) /\ a.out = <<>> /\ Keeps(a)
               /\ Fewer(app, a) /\ a.retained = app.retained
    BY <1>3
  <1>4. Stored(a, Starts(wire) \cup accepted, running, Len(typed), answered)
    BY <1>1, StoredFewer DEF Placed, Fit
  <1>5. Fed(a, inputs, running, answered)
    BY FedSame DEF Placed
  <1>6. link = "up" \/ Starts(wire) \cup accepted' \cup running' = {}
    BY <1>2 DEF Placed
  <1>7. /\ Stored(a, Starts(wire) \cup accepted', running', Len(typed), answered')
        /\ Fed(a, inputs', running', answered')
    BY <1>2, <1>4, <1>5
  <1> QED BY <1>2, <1>6, <1>7, KeepsPlaced

(* A steer a running turn accepted is consumed: it was retained, and is not  *)
(* any more, unless the server settles its steers.                          *)
LEMMA ConsumedStored ==
    ASSUME NEW a \in AppType, NEW b \in AppType, Fewer(a, b),
           NEW T, NEW R, NEW n, NEW Z, Stored(a, T, R, n, Z),
           NEW p0, Has(a.retained, p0), b.steering = "settles" \/ ~Has(b.retained, p0)
    PROVE  Stored(b, T, R, n, Z \cup {p0})
  <1>1. p0 \in PromptNo /\ p0 \in Nat
    <2>1. a.retained \in Seq(SteerType)
      BY Fields DEF Stashes
    <2>2. PICK i \in DOMAIN a.retained : a.retained[i].prompt = p0
      BY DEF Has
    <2>3. a.retained[i] \in SteerType
      BY <2>1
    <2> QED BY <2>2, <2>3 DEF SteerType, PromptNo
  <1>2. Stored(b, T, R, n, Z)
    BY StoredFewer
  <1>3. \A X : At(a, X, p0, "retained", None)
    BY DEF At
  <1>4. p0 <= n
    BY <1>1, <1>3 DEF Stored, Loose
  <1>5. ~Loose(b, T, p0, Shield(b))
    <2> SUFFICES ASSUME NEW k, NEW x, k # Shield(b), At(b, T, p0, k, x) PROVE FALSE
      BY DEF Loose
    <2>1. Unique(a, T, p0)
      BY <1>1, PlacesLess DEF Stored
    <2>2. At(a, T, p0, k, x)
      BY <1>1, FewerShifts
    <2>3. k = "retained"
      BY <1>3, <2>1, <2>2 DEF Unique, OnePlace
    <2>4. Has(b.retained, p0)
      BY <2>3 DEF At
    <2> QED BY <2>3, <2>4 DEF Shield
  <1> QED BY <1>1, <1>2, <1>4, <1>5 DEF Stored

(* The retained steers that are not of the prompt p. *)
Unechoed(a, p) == {i \in DOMAIN a.retained : a.retained[i].prompt # p}

LEMMA EchoFewer ==
    ASSUME NEW a \in AppType, NEW p
    PROVE  LET b == Echo(a, p)
           IN  /\ b \in AppType /\ Returned(a, b) /\ Fewer(a, b) /\ ~Has(b.retained, p)
               /\ b.retained = Entries(a.retained, Unechoed(a, p))
  <1> DEFINE b == Echo(a, p)
  <1> SUFFICES /\ b \in AppType /\ Returned(a, b) /\ Fewer(a, b) /\ ~Has(b.retained, p)
               /\ b.retained = Entries(a.retained, Unechoed(a, p))
    OBVIOUS
  <1>1. b \in AppType /\ Returned(a, b) /\ b.queue = a.queue
    BY EchoData
  <1>2. b.retained = Entries(a.retained, Unechoed(a, p))
    BY DEF Echo, Select, AppType, Unechoed
  <1> HIDE DEF b
  <1>3. Unechoed(a, p) \in SUBSET DOMAIN a.retained
        /\ \A i \in Unechoed(a, p) : a.retained[i].prompt # p
    BY DEF Unechoed
  <1>4. Fewer(a, b)
    BY <1>1, <1>2, <1>3 DEF Returned, Unsubmitted, Fewer
  <1>5. ~Has(b.retained, p)
    <2>1. a.retained \in Stashes
      BY Fields
    <2> DEFINE e == Entries(a.retained, Unechoed(a, p))
    <2>2. \A k \in DOMAIN e : \E i \in Unechoed(a, p) : e[k] = a.retained[i]
      BY <1>3, <2>1, HasEntries
    <2> HIDE DEF e
    <2>3. \A k \in DOMAIN e : e[k].prompt # p
      BY <1>3, <2>2
    <2> QED BY <1>2, <2>3 DEF Has, e
  <1> QED BY <1>1, <1>2, <1>4, <1>5

LEMMA ConsumePlaced ==
    ASSUME Firm, Firm', Placed, Clear, ConsumeSteer
    PROVE  Placed'
  <1> DEFINE p0 == Head(inputs).prompt
             T == Starts(wire) \cup accepted
             I == DOMAIN inputs \ {1}
  <1>1. /\ inbox = <<>> /\ inputs # <<>> /\ inputs' = Tail(inputs)
        /\ UNCHANGED <<link, inbox, typed, accepted, running>>
        /\ answered' = answered \cup {p0}
        /\ Keeps(Echo(app, p0)) \/ (app.steering = "settles" /\ Keeps(app))
    BY DEF ConsumeSteer, Listens
  <1>2. /\ app \in AppType /\ Fit(app, app.turns) /\ app.out = <<>>
        /\ inputs \in Seq([turn : Nat, prompt : Nat])
    BY TurnsKnown DEF Firm, Sound, ServerSound
  <1>3. Stored(app, T, running, Len(typed), answered) /\ Fed(app, inputs, running, answered)
    BY DEF Placed
  <1>4. Picked(inputs, Tail(inputs), I) /\ inputs[1].prompt = p0 /\ 1 \in DOMAIN inputs
    BY <1>1, <1>2, PickedTail
  <1>5. /\ Has(app.retained, p0) /\ running # {}
        /\ \A i \in I : /\ inputs[i].turn \in running /\ inputs[i].prompt # p0
                        /\ inputs[i].prompt \notin answered \cup {p0}
    BY <1>3, <1>4 DEF Fed, Has
  <1>6. link = "up"
    BY <1>5 DEF Placed
  <1> HIDE DEF p0
  <1>7. \E a : /\ Fit(a, app.turns) /\ Plain(app, a) /\ Keeps(a) /\ a \in AppType /\ Fewer(app, a)
               /\ a.steering = "settles" \/ ~Has(a.retained, p0)
               /\ \/ a = app
                  \/ a.retained = Entries(app.retained, Unechoed(app, p0))
    <2>1. CASE Keeps(Echo(app, p0))
      <3> DEFINE a == Echo(app, p0)
      <3>1. /\ a \in AppType /\ Returned(app, a) /\ Fewer(app, a) /\ ~Has(a.retained, p0)
            /\ a.retained = Entries(app.retained, Unechoed(app, p0))
        BY <1>2, EchoFewer
      <3>2. Keeps(a)
        BY <2>1
      <3> HIDE DEF a
      <3>3. Fit(a, app.turns) /\ Plain(app, a)
        BY <1>2, <3>1, ReturnedFit
      <3> QED BY <3>1, <3>2, <3>3
    <2>2. CASE app.steering = "settles" /\ Keeps(app)
      <3>1. Fewer(app, app) /\ Plain(app, app)
        BY DEF Fewer, Plain, Unsubmitted
      <3> QED BY <1>2, <2>2, <3>1
    <2> QED BY <1>1, <2>1, <2>2
  <1> PICK a : /\ Fit(a, app.turns) /\ Plain(app, a) /\ Keeps(a) /\ a \in AppType /\ Fewer(app, a)
               /\ a.steering = "settles" \/ ~Has(a.retained, p0)
               /\ \/ a = app
                  \/ a.retained = Entries(app.retained, Unechoed(app, p0))
    BY <1>7
  <1> HIDE DEF I
  <1>8. Stored(a, T, running, Len(typed), answered \cup {p0})
    <2> HIDE DEF T
    <2> QED BY <1>2, <1>3, <1>5, ConsumedStored
  <1>9. I \in SUBSET DOMAIN inputs
    BY DEF I
  <1>10. Fed(a, Tail(inputs), running, answered \cup {p0})
    <2>1. CASE a = app
      <3>1. Stays(app, a, DOMAIN app.retained)
        BY <2>1 DEF Stays
      <3>2. \A i \in I : inputs[i].turn \in running /\ inputs[i].prompt \notin answered \cup {p0}
        BY <1>5
      <3>3. \A i \in I : \A j \in DOMAIN app.retained :
               app.retained[j].turn = inputs[i].turn
               /\ app.retained[j].prompt = inputs[i].prompt => j \in DOMAIN app.retained
        OBVIOUS
      <3> QED BY <1>3, <1>4, <1>9, <3>1, <3>2, <3>3, FedPicked
    <2>2. CASE a.retained = Entries(app.retained, Unechoed(app, p0))
      <3>1. Unechoed(app, p0) \in SUBSET DOMAIN app.retained
        BY DEF Unechoed
      <3>2. Stays(app, a, Unechoed(app, p0))
        BY <1>2, <2>2, <3>1, StaysEntries
      <3>3. \A i \in I : inputs[i].turn \in running /\ inputs[i].prompt \notin answered \cup {p0}
        BY <1>5
      <3>4. \A i \in I : \A j \in DOMAIN app.retained :
               app.retained[j].turn = inputs[i].turn
               /\ app.retained[j].prompt = inputs[i].prompt => j \in Unechoed(app, p0)
        BY <1>5 DEF Unechoed
      <3> QED BY <1>3, <1>4, <1>9, <3>2, <3>3, <3>4, FedPicked
    <2> QED BY <2>1, <2>2
  <1>11. /\ Stored(a, Starts(wire) \cup accepted', running', Len(typed), answered')
         /\ Fed(a, inputs', running', answered')
    BY <1>1, <1>8, <1>10
  <1>12. inbox = <<>> /\ UNCHANGED <<link, inbox, typed>>
    BY <1>1
  <1> QED BY <1>6, <1>11, <1>12, KeepsPlaced

(* The server returns what the turn t has not consumed. *)
LEMMA DropPlaced ==
    ASSUME Firm, Firm', Placed, Clear, NEW t, DropSteers(t)
    PROVE  Placed'
  <1> DEFINE ps == {inputs[i].prompt : i \in PendingInputs(t)}
             T == Starts(wire) \cup accepted
             rest == {i \in DOMAIN inputs : inputs[i].turn # t}
             a == SteersDropped(app, t, ps)
             stay == Undropped(app, t, ps)
  <1>1. /\ inbox = <<>> /\ PendingInputs(t) # {} /\ inputs' = Entries(inputs, rest) /\ Keeps(a)
        /\ UNCHANGED <<link, inbox, typed, accepted, running, answered>>
    BY DEF DropSteers, Listens, Select
  <1>2. /\ app \in AppType /\ Fit(app, app.turns) /\ app.out = <<>>
        /\ inputs \in Seq([turn : Nat, prompt : Nat]) /\ running \subseteq DOMAIN app.turns
        /\ \A x \in DOMAIN app.turns : TurnSession(app, x) \in Sessions
    BY TurnsKnown DEF Firm, Sound, ServerSound
  <1>3. Stored(app, T, running, Len(typed), answered) /\ Fed(app, inputs, running, answered)
    BY DEF Placed
  <1>4. /\ t \in running /\ TurnSession(app, t) \in Sessions /\ ps \cap answered = {}
        /\ \A i \in rest : inputs[i].turn # t
    BY <1>1, <1>2, <1>3 DEF Fed, PendingInputs
  <1>5. link = "up"
    BY <1>4 DEF Placed
  <1> HIDE DEF ps
  <1>6. a \in AppType /\ Returned(app, a)
    BY <1>2, SteersDroppedData
  <1>7. Stored(a, T, running, Len(typed), answered) /\ a.retained = Entries(app.retained, stay)
    <2> HIDE DEF T
    <2> QED BY <1>2, <1>3, <1>4, DroppedStored
  <1> HIDE DEF a
  <1>8. Fit(a, app.turns) /\ Plain(app, a)
    BY <1>2, <1>6, ReturnedFit
  <1>9. stay \in SUBSET DOMAIN app.retained /\ rest \in SUBSET DOMAIN inputs
    BY DEF Undropped
  <1>10. Stays(app, a, stay)
    BY <1>2, <1>7, <1>9, StaysEntries
  <1>11. \A i \in rest : \A j \in DOMAIN app.retained :
             app.retained[j].turn = inputs[i].turn
             /\ app.retained[j].prompt = inputs[i].prompt => j \in stay
    BY <1>4 DEF Undropped
  <1> HIDE DEF stay, rest
  <1>12. Fed(a, Entries(inputs, rest), running, answered)
    <2>1. Picked(inputs, Entries(inputs, rest), rest)
      BY <1>2, <1>9, PickedEntries
    <2>2. \A i \in rest : inputs[i].turn \in running /\ inputs[i].prompt \notin answered
      BY <1>3, <1>9 DEF Fed
    <2> QED BY <1>3, <1>9, <1>10, <1>11, <2>1, <2>2, FedPicked
  <1>13. /\ Stored(a, Starts(wire) \cup accepted', running', Len(typed), answered')
         /\ Fed(a, inputs', running', answered')
    BY <1>1, <1>7, <1>12
  <1>14. inbox = <<>> /\ UNCHANGED <<link, inbox, typed>> /\ Keeps(a)
    BY <1>1
  <1> QED BY <1>5, <1>8, <1>13, <1>14, KeepsPlaced

(* The child dies with every turn it had; its replacement has none yet.     *)
LEMMA LinkPlaced ==
    ASSUME Firm, Firm', Placed, Clear, LinkDies \/ LinkBoots \/ LinkOpens
    PROVE  Placed'
  <1>1. CASE LinkDies
    <2>1. /\ wire' = <<>> /\ accepted' = {} /\ running' = {} /\ inputs' = <<>>
          /\ UNCHANGED <<app, typed, answered>>
      BY <1>1 DEF LinkDies
    <2>2. Starts(wire') = {}
      BY <2>1 DEF Starts, StartPlaces
    <2>3. Stored(app, {}, {}, Len(typed), answered)
      BY StoredLess DEF Placed
    <2>4. Fed(app, inputs', running', answered') /\ Told(wire', app, Len(typed))
      BY <2>1 DEF Fed, Told
    <2> QED BY <2>1, <2>2, <2>3, <2>4 DEF Placed
  <1>2. CASE LinkBoots \/ LinkOpens
    <2>1. link # "up" /\ UNCHANGED <<app, wire, accepted, running, inputs, typed, answered>>
      BY <1>2 DEF LinkBoots, LinkOpens, serverVars
    <2>2. Starts(wire) \cup accepted \cup running = {} /\ Sound
      BY <2>1 DEF Placed, Firm
    <2> QED BY <2>1, <2>2, StillPlaced
  <1> QED BY <1>1, <1>2

(* The store reads an event while nothing is under way. *)
LEMMA IdlePlaced ==
    ASSUME Firm, Firm', Placed, Clear, Starts(wire) \cup accepted \cup running = {},
           UNCHANGED <<link, accepted, running, inputs, typed, answered>>,
           NEW a \in AppType, Tame(a), Run(a, wire), Stored(a, {}, {}, Len(typed), answered),
           Told(wire \o a.out, a, Len(typed)), a.out = <<>> \/ (link = "up" /\ inbox' = <<>>)
    PROVE  Placed'
  <1>1. /\ Sound /\ Phase' /\ wire \in Seq(CmdType) /\ Starts(wire) = {}
        /\ accepted = {} /\ running = {}
    BY TurnsKnown DEF Firm
  <1>2. Fed(a, inputs', running', answered')
    <2>1. DOMAIN inputs = {}
      BY <1>1 DEF Placed, Fed
    <2> QED BY <2>1 DEF Fed
  <1>3. Stored(a, Starts(wire) \cup accepted', running', Len(typed'), answered')
    BY <1>1
  <1>4. Starts(a.out) # {} /\ link # "down" => link = "up" /\ inbox' = <<>>
    BY DEF Starts, StartPlaces
  <1>5. Starts(wire) \cup accepted' \cup running' = {}
    BY <1>1
  <1>6. Told(wire \o a.out, a, Len(typed')) /\ link' = link
    OBVIOUS
  <1> QED BY <1>1, <1>2, <1>3, <1>4, <1>5, <1>6, StepPlaced

(* A cancelled request, of the turns that died with the child. *)
LEMMA CancelledStored ==
    ASSUME Firm, NEW c \in CmdType, c.kind \in Requests,
           c.kind = "steer" => app.stash # <<>>,
           NEW n, NEW Z, Stored(app, {}, {}, n, Z)
    PROVE  LET b == Cancelled(app, c)
           IN  b \in AppType /\ Tame(b) /\ b.out = <<>> /\ Stored(b, {}, {}, n, Z)
  <1> DEFINE b == Cancelled(app, c)
  <1> SUFFICES b \in AppType /\ Tame(b) /\ b.out = <<>> /\ Stored(b, {}, {}, n, Z)
    OBVIOUS
  <1>1. /\ app \in AppType /\ Fit(app, app.turns) /\ app.out = <<>>
        /\ \A x \in DOMAIN app.turns : TurnSession(app, x) \in Sessions
        /\ Extends(app.turns, app.turns) /\ {} \cup {} = {}
    BY TurnsKnown DEF Firm
  <1>2. CASE c.kind = "start"
    <2> DEFINE d == StartCancelled(app)
    <2>1. b = d /\ d \in AppType /\ BackedOff(app, d, Sessions)
      BY <1>1, <1>2, StartCancelledData DEF Cancelled
    <2>2. Shifts(app, d, {}, {})
      BY <1>1, BackedOffShifts DEF StartCancelled
    <2> HIDE DEF b, d
    <2>3. Stored(d, {}, {}, n, Z)
      BY <1>1, <2>2, StoredShifts
    <2> QED BY <1>1, <2>1, <2>3 DEF BackedOff, Apart, Unsubmitted, Tame
  <1>3. CASE c.kind = "steer"
    <2> DEFINE d == SteerFailed(app)
    <2>1. b = d /\ d \in AppType /\ Popped(app, d)
      BY <1>1, <1>3, SteerFailedData DEF Cancelled
    <2>2. TurnSession(app, Head(app.stash).turn) \in Sessions
      <3>1. app.stash \in Seq(SteerType) /\ app.stash # <<>>
        BY <1>1, <1>3, Fields DEF Stashes
      <3>2. Head(app.stash) = app.stash[1] /\ 1 \in DOMAIN app.stash
        BY <3>1, HeadTailProperties
      <3>3. app.stash[1].turn \in DOMAIN app.turns
        BY <1>1, <3>2 DEF Fit, Refs
      <3> QED BY <1>1, <3>2, <3>3
    <2>3. Stored(d, {}, {}, n, Z)
      BY <1>1, <1>3, <2>2, SteerFailedStored
    <2> HIDE DEF b, d
    <2> QED BY <1>1, <2>1, <2>3 DEF Popped, Unsubmitted, Tame
  <1>4. CASE c.kind = "hydrate"
    <2> DEFINE h == [app EXCEPT !.hydrating = @ \ {c.sess}]
               d == Failed(h)
    <2>1. b = d
      BY <1>4 DEF Cancelled
    <2>2. h \in AppType /\ Apart(app, h) /\ Unsubmitted(app, h) /\ h.queue = app.queue
          /\ h.gate = app.gate
      BY <1>1, HydratingData
    <2> HIDE DEF h
    <2>3. Fewer(app, h)
      BY <2>2 DEF Apart, SameSteers, Unsubmitted, Fewer
    <2>4. d \in AppType /\ Apart(h, d) /\ Unsubmitted(h, d) /\ Fewer(h, d)
      BY <2>2, FailedData, FailedFewer
    <2> HIDE DEF b, d
    <2>5. Stored(d, {}, {}, n, Z)
      <3>1. Stored(h, {}, {}, n, Z)
        BY <1>1, <2>2, <2>3, StoredFewer
      <3> QED BY <2>2, <2>4, <3>1, StoredFewer
    <2> QED BY <1>1, <2>1, <2>2, <2>4, <2>5 DEF Unsubmitted, Tame
  <1>5. CASE c.kind = "interrupt"
    <2> DEFINE d == Failed(app)
    <2>1. b = d /\ d \in AppType /\ Unsubmitted(app, d) /\ Fewer(app, d)
      BY <1>1, <1>5, FailedData, FailedFewer DEF Cancelled
    <2> HIDE DEF b, d
    <2>2. Stored(d, {}, {}, n, Z)
      BY <1>1, <2>1, StoredFewer
    <2> QED BY <1>1, <2>1, <2>2 DEF Unsubmitted, Tame
  <1> QED BY <1>2, <1>3, <1>4, <1>5 DEF Requests

(* While an event is queued nothing is under way, and no turn runs; the      *)
(* reconcile, the last one, may submit.                                     *)
LEMMA ReadPlaced ==
    ASSUME Firm, Firm', Placed, Clear, ReadInbox
    PROVE  Placed'
  <1> DEFINE e == Head(inbox)
             a == CASE e.event = "cancelled" -> Cancelled(app, e.cmd)
                    [] e.event = "epoch" -> [app EXCEPT !.conn = @ + 1]
                    [] e.event = "relaunched" -> Relaunched(app)
  <1>1. /\ inbox # <<>> /\ inbox' = Tail(inbox) /\ Run(a, wire)
        /\ UNCHANGED <<link, accepted, running, inputs, typed, answered>>
    BY DEF ReadInbox, Keeps, serverVars
  <1>2. /\ Starts(wire) \cup accepted \cup running = {}
        /\ Stored(app, {}, {}, Len(typed), answered) /\ Told(wire, app, Len(typed))
    <2>1. Starts(wire) \cup accepted \cup running = {}
      BY <1>1 DEF Placed
    <2> QED BY <2>1, StoredLess DEF Placed
  <1>3. /\ Fit(app, app.turns) /\ app \in AppType /\ app.out = <<>> /\ Phase /\ Sound
        /\ Starts(wire) \subseteq DOMAIN app.turns /\ Extends(app.turns, app.turns)
        /\ inbox \in Seq(EventType) /\ wire \in Seq(CmdType) /\ app.stash \in Stashes
        /\ Lines(inbox, wire, app.turns, app.stash) /\ Len(typed) \in Nat
        /\ {} \cup {} = {}
    BY TurnsKnown, Fields DEF Firm, Sound, LinesSound, Lines, BudgetSound
  <1>4. e = inbox[1] /\ 1 \in DOMAIN inbox /\ e \in EventType
    BY <1>1, <1>3, HeadTailProperties
  <1>5. e.event = EventOf(link) /\ link \in {"up", "down", "booting"}
    BY <1>3, <1>4 DEF Phase, Sound, BudgetSound
  <1>6. CASE link = "down"
    <2> DEFINE b == Cancelled(app, e.cmd)
    <2>1. e.event = "cancelled"
      BY <1>5, <1>6 DEF EventOf
    <2>2. /\ e.cmd \in CmdType /\ e.cmd.kind \in Requests
          /\ e.cmd.kind = "steer" => app.stash # <<>>
      <3> HIDE DEF e
      <3>1. e = Head(inbox)
        BY DEF e
      <3>2. /\ e \in EventType /\ SoundEvent(e)
            /\ e.cmd.kind = "steer" => app.stash # <<>>
        BY <1>1, <1>3, <3>1, LinesRead
      <3>3. e.cmd \in CmdType
        BY <3>2 DEF EventType
      <3> QED BY <2>1, <3>2, <3>3 DEF SoundEvent
    <2>3. Run(b, wire)
      BY <1>1, <2>1
    <2> HIDE DEF e
    <2>4. b \in AppType /\ Tame(b) /\ b.out = <<>> /\ Stored(b, {}, {}, Len(typed), answered)
      BY <1>2, <2>2, CancelledStored
    <2> HIDE DEF b
    <2>5. Told(wire \o b.out, b, Len(typed))
      <3>1. wire \o b.out = <<>>
        BY <1>3, <1>6, <2>4 DEF Phase
      <3> QED BY <3>1 DEF Told
    <2> QED BY <1>1, <1>2, <2>3, <2>4, <2>5, IdlePlaced
  <1>7. CASE link = "booting"
    <2> DEFINE b == [app EXCEPT !.conn = @ + 1]
    <2>1. e.event = "epoch"
      BY <1>5, <1>7 DEF EventOf
    <2>2. Run(b, wire)
      BY <1>1, <2>1
    <2>3. /\ b \in AppType /\ SameSteers(app, b) /\ Unsubmitted(app, b) /\ b.gate = app.gate
          /\ b.queue = app.queue
      BY <1>3, EpochData
    <2> HIDE DEF b
    <2>4. Stored(b, {}, {}, Len(typed), answered) /\ b.out = <<>> /\ Tame(b)
      <3>1. Fewer(app, b)
        BY <2>3 DEF Fewer, SameSteers, Unsubmitted
      <3> QED BY <1>2, <1>3, <2>3, <3>1, StoredFewer DEF Tame, Unsubmitted
    <2>5. Told(wire \o b.out, b, Len(typed))
      <3>1. wire \o b.out = wire
        BY <1>3, <2>4, ConcatEmptySeq
      <3> QED BY <1>2, <2>3, <3>1, ToldSame DEF SameSteers, Unsubmitted
    <2> QED BY <1>1, <1>2, <2>2, <2>3, <2>4, <2>5, IdlePlaced
  <1>8. CASE link = "up"
    <2> DEFINE b == Relaunched(app)
    <2>1. e.event = "relaunched"
      BY <1>5, <1>8 DEF EventOf
    <2>2. Run(b, wire)
      BY <1>1, <2>1
    <2>3. Fit(b, app.turns) /\ Plain(app, b) /\ b \in AppType
      BY <1>3, RelaunchedFit DEF Fit
    <2>4. Shifts(app, b, {}, {})
      BY <1>3, RelaunchedShifts
    <2> HIDE DEF b
    <2>5. inbox' = <<>>
      <3>1. Len(inbox) \in Nat /\ Len(inbox) # 0 /\ Len(inbox) <= 1
        BY <1>1, <1>3, <1>8 DEF Phase
      <3>2. \A n \in Nat : n # 0 /\ n <= 1 => n = 1
        OBVIOUS
      <3>3. Len(inbox) = 1
        BY <3>1, <3>2
      <3> QED BY <1>1, <1>3, <3>3
    <2>6. Stored(b, {}, {}, Len(typed), answered) /\ Tame(b)
      BY <1>2, <1>3, <2>3, <2>4, StoredShifts DEF Tame, Fit
    <2>7. Told(wire \o b.out, b, Len(typed))
      <3>1. Told(wire, b, Len(typed))
        BY <1>2, <1>3, <2>3, ToldLater DEF Plain, Fit
      <3> QED BY <1>3, <2>3, <3>1, PlainTold
    <2> QED BY <1>1, <1>2, <1>8, <2>2, <2>3, <2>5, <2>6, <2>7, IdlePlaced
  <1> QED BY <1>5, <1>6, <1>7, <1>8

(* What has misled the store is not forgotten, and some steps mislead it. *)
LEMMA ClearGrows ==
    ASSUME [Next]_vars, Clear'
    PROVE  Clear /\ ~OtherRequestFails("cap") /\ \A s \in Sessions : ~StartOwnTurn(s)
  <1>1. \A s \in Sessions : ~StartOwnTurn(s)
    BY DEF StartOwnTurn, Clear
  <1>2. ~OtherRequestFails("cap")
    BY DEF OtherRequestFails, Fault, Misleading, Clear
  <1>3. misled \subseteq misled'
    <2>1. \A kind : Fault(kind) => misled \subseteq misled'
      BY DEF Fault
    <2>2. CASE User \/ Clock
      BY <2>2 DEF User, Clock, TypePrompt, UserInterrupts, SendPendingNow, UserSwitches, Tick,
             Acts, MarkerAges, GateAges, budgetVars
    <2>3. CASE ServerSteps
      <3>1. CASE AcceptStart \/ DropStart \/ RefuseStart \/ AcceptSteer \/ StartForSteer
                 \/ RefuseSteer \/ TakeInterrupt \/ ConsumeSteer
        BY <2>1, <3>1 DEF AcceptStart, DropStart, RefuseStart, AcceptSteer, StartForSteer,
               RefuseSteer, TakeInterrupt, ConsumeSteer, budgetVars
      <3>2. CASE \/ \E stale \in (over \cap app.done) \cup {None} : AnswerHydrate(stale)
                 \/ \E t \in accepted : StartTurn(t) \/ RejectTurn(t)
                 \/ \E t \in running \cup over : Stream(t)
        BY <2>1, <3>2 DEF AnswerHydrate, StartTurn, RejectTurn, Stream, budgetVars
      <3>3. CASE \/ \E t \in running : DropSteers(t) \/ Abort(t)
                 \/ \E t \in running, o \in {"success", "error", "idle"} : Complete(t, o)
        BY <3>3 DEF DropSteers, Abort, Complete, Ends, budgetVars
      <3>4. CASE \E kind \in {"error", "cap"} : OtherRequestFails(kind)
        BY <2>1, <3>4 DEF OtherRequestFails
      <3> QED BY <1>1, <2>3, <3>1, <3>2, <3>3, <3>4 DEF ServerSteps
    <2>4. CASE LinkDies \/ LinkBoots \/ LinkOpens \/ ReadInbox
      BY <2>1, <2>4 DEF LinkDies, LinkBoots, LinkOpens, ReadInbox, budgetVars
    <2>5. CASE UNCHANGED vars
      BY <2>5 DEF vars
    <2> QED BY <2>2, <2>3, <2>4, <2>5 DEF Next
  <1> QED BY <1>1, <1>2, <1>3 DEF Clear

LEMMA NextPlaced ==
    ASSUME ~BusyBoots, Firm, Firm', Placed, [Next]_vars
    PROVE  Placed'
  <1> SUFFICES ASSUME Clear' PROVE Placed'
    BY DEF Placed
  <1>0. Clear /\ ~OtherRequestFails("cap") /\ \A s \in Sessions : ~StartOwnTurn(s)
    BY ClearGrows
  <1>1. CASE User \/ Clock
    <2>1. CASE \E s \in Sessions : MarkerAges(s) \/ GateAges(s)
      BY <1>0, <2>1, AgesPlaced
    <2>2. CASE User \/ \E due \in BOOLEAN : Tick(due)
      BY <1>0, <2>2, UserPlaced
    <2> QED BY <1>1, <2>1, <2>2 DEF Clock
  <1>2. CASE ServerSteps
    <2>1. CASE AcceptStart \/ DropStart \/ RefuseStart \/ TakeInterrupt \/ AcceptSteer
               \/ RefuseSteer \/ StartForSteer
      BY <1>0, <2>1, AnswerPlaced
    <2>2. CASE ConsumeSteer \/ \E t \in running : DropSteers(t)
      BY <1>0, <2>2, ConsumePlaced, DropPlaced
    <2>3. CASE \E stale \in (over \cap app.done) \cup {None} : AnswerHydrate(stale)
      BY <1>0, <2>3, HydratePlaced
    <2>4. CASE \/ \E t \in accepted : RejectTurn(t)
               \/ \E t \in running : Abort(t)
               \/ \E t \in running, o \in {"success", "error", "idle"} : Complete(t, o)
      BY <1>0, <2>4, EndsPlaced
    <2>5. CASE \E t \in accepted : StartTurn(t)
      BY <1>0, <2>5, StartTurnPlaced
    <2>6. CASE (\E t \in running \cup over : Stream(t)) \/ OtherRequestFails("error")
      BY <1>0, <2>6, StreamPlaced
    <2> QED BY <1>0, <1>2, <2>1, <2>2, <2>3, <2>4, <2>5, <2>6 DEF ServerSteps
  <1>3. CASE LinkDies \/ LinkBoots \/ LinkOpens
    BY <1>0, <1>3, LinkPlaced
  <1>4. CASE ReadInbox
    BY <1>0, <1>4, ReadPlaced
  <1>5. CASE UNCHANGED vars
    <2>1. UNCHANGED <<app, wire, inbox, link, accepted, running, inputs, typed, answered, misled>>
      BY <1>5 DEF vars
    <2> QED BY <2>1 DEF Placed, Clear
  <1> QED BY <1>1, <1>2, <1>3, <1>4, <1>5 DEF Next

LEMMA InitPlaced == Init => Placed
  <1> SUFFICES ASSUME Init PROVE Placed
    OBVIOUS
  <1>1. /\ wire = <<>> /\ accepted = {} /\ running = {} /\ inputs = <<>> /\ typed = <<>>
        /\ answered = {} /\ Len(typed) \in Nat
        /\ app.queue = [s \in Sessions |-> <<>>] /\ app.gate = [s \in Sessions |-> NoGate]
        /\ app.stash = <<>> /\ app.retained = <<>> /\ app.out = <<>>
    BY DEF Init
  <1>2. Starts(wire) = {} /\ Starts(app.out) = {}
    BY <1>1 DEF StartPlaces, Starts
  <1>3. NoGate.turn = None /\ NoGate.prompt = None
    BY DEF NoGate
  <1>4. \A p \in PromptNo : \A k, x : ~At(app, {}, p, k, x)
    BY <1>1, <1>2, <1>3 DEF At, Holds, Has, PromptNo
  <1>5. \A p \in PromptNo : OneCopy(app, p)
    BY <1>1 DEF OneCopy, Once, OnceIn
  <1>6. Clean(app, {}, {})
    BY <1>1, <1>2, <1>3 DEF Clean
  <1>7. Stored(app, {}, {}, Len(typed), {})
    <2>1. {} \cup {} = {}
      OBVIOUS
    <2> QED BY <1>1, <1>4, <1>5, <1>6, <2>1 DEF Stored, Unique, OnePlace, Loose
  <1>8. Fed(app, inputs, running, answered) /\ Told(wire, app, Len(typed))
    BY <1>1 DEF Fed, Told
  <1> QED BY <1>1, <1>2, <1>7, <1>8 DEF Placed

LEMMA AlwaysPlaced ==
    ASSUME ~BusyBoots
    PROVE  Spec => []Placed
  <1>1. Firm /\ Firm' /\ Placed /\ [Next]_vars => Placed'
    BY NextPlaced
  <1> QED BY <1>1, InitPlaced, AlwaysFirm, PTL DEF Spec

-----------------------------------------------------------------------------
(* A prompt is never on its way, or running, as two turns, whatever faults   *)
(* the link, the server and the clocks bring, until the store takes a        *)
(* submission that is alive for dead: a prompt is in at most one place, and  *)
(* two turns that carry it would be two.                                    *)
THEOREM OneTurnPerPrompt ==
    ASSUME ~BusyBoots
    PROVE  Spec => []SubmittedOnce
  <1>1. Firm /\ Placed => SubmittedOnce
    <2> SUFFICES ASSUME Firm, Placed, Clear, NEW p \in Prompts
                 PROVE  Cardinality(Carriers(p)) <= 1
      BY DEF SubmittedOnce, Clear
    <2> DEFINE X == (Starts(wire) \cup accepted) \cup running
    <2>1. Stored(app, Starts(wire) \cup accepted, running, Len(typed), answered)
      BY DEF Placed
    <2>2. Len(typed) \in Nat
      BY DEF Firm, Sound, BudgetSound
    <2>3. p \in PromptNo
      BY <2>2 DEF Prompts, PromptNo, None
    <2>4. ASSUME NEW t \in Carriers(p) PROVE At(app, X, p, "turn", t)
      <3>1. t \in X /\ app.turns[t].prompt = p
        BY <2>4 DEF Carriers, InTransit, Starts, StartPlaces
      <3> HIDE DEF X
      <3> QED BY <3>1 DEF At
    <2>5. OnePlace(app, X, p)
      BY <2>1, <2>3 DEF Stored, Unique
    <2> HIDE DEF X
    <2>6. \A t, u \in Carriers(p) : t = u
      BY <2>4, <2>5 DEF OnePlace
    <2>7. CASE Carriers(p) = {}
      BY <2>7, FS_EmptySet
    <2>8. CASE Carriers(p) # {}
      <3>1. PICK t : t \in Carriers(p)
        BY <2>8
      <3>2. Carriers(p) = {t}
        BY <2>6, <3>1
      <3>3. Cardinality(Carriers(p)) = 1
        BY <3>2, FS_Singleton
      <3> QED BY <3>3
    <2> QED BY <2>7, <2>8
  <1> QED BY <1>1, AlwaysFirm, AlwaysPlaced, PTL

(* A prompt the server has started, rejected or consumed is not staged or    *)
(* submitted again, until the store takes a submission that is alive for     *)
(* dead: its gate was released with its turn, and a retained steer that was  *)
(* consumed never goes out.                                                 *)
LEMMA PlacedAnswered == Firm /\ Placed /\ Clear => AnsweredOnce
  <1> SUFFICES ASSUME Firm, Placed, Clear, NEW p \in answered \ {None}
               PROVE  /\ \A s \in Sessions : \A i \in DOMAIN app.queue[s] : app.queue[s][i] # p
                      /\ \A i \in DOMAIN wire : wire[i].kind = "start" => wire[i].prompt # p
    BY DEF AnsweredOnce
  <1> DEFINE T == Starts(wire) \cup accepted
  <1>1. ~Loose(app, T, p, Shield(app)) /\ Told(wire, app, Len(typed))
    BY DEF Placed, Stored
  <1> HIDE DEF T
  <1>2. Shield(app) \in {"none", "retained"}
    BY DEF Shield
  <1>3. ASSUME NEW s \in Sessions, NEW i \in DOMAIN app.queue[s], app.queue[s][i] = p
        PROVE  FALSE
    <2>1. At(app, T, p, "queue", s)
      BY <1>3 DEF At, Holds
    <2> QED BY <1>1, <1>2, <2>1 DEF Loose
  <1>4. ASSUME NEW i \in DOMAIN wire, wire[i].kind = "start", wire[i].prompt = p
        PROVE  FALSE
    <2>1. wire[i].turn \in T /\ app.turns[wire[i].turn].prompt = p
      BY <1>1, <1>4 DEF T, Told, Starts, StartPlaces
    <2>2. At(app, T, p, "turn", wire[i].turn)
      BY <2>1 DEF At
    <2> QED BY <1>1, <1>2, <2>2 DEF Loose
  <1> QED BY <1>3, <1>4

THEOREM StartedIsNotStaged ==
    ASSUME ~BusyBoots
    PROVE  Spec => [](misled \cap {"own", "cap"} = {} => AnsweredOnce)
  BY PlacedAnswered, AlwaysFirm, AlwaysPlaced, PTL DEF Clear

(* Servers that start no turn by themselves, and a client that never meets   *)
(* the cap of pending requests.                                             *)
Orderly == \A v \in Servers : v.own = 0 /\ {"own", "cap"} \cap v.kinds = {}

LEMMA StaysClear ==
    ASSUME Orderly, Sound, Clear, [Next]_vars
    PROVE  Clear'
  <1>1. server.own = 0 /\ own \in 0..server.own /\ {"own", "cap"} \cap server.kinds = {}
    BY DEF Orderly, Sound, BudgetSound
  <1>2. \A s \in Sessions : ~StartOwnTurn(s)
    <2>1. ~(own < server.own)
      BY <1>1
    <2> QED BY <2>1 DEF StartOwnTurn
  <1>3. \A kind : Fault(kind) => Clear'
    BY <1>1 DEF Fault, Clear
  <1>4. misled' = misled \/ misled' = misled \cup {"minted"} => Clear'
    BY DEF Clear
  <1>5. CASE User \/ Clock
    BY <1>4, <1>5 DEF User, Clock, TypePrompt, UserInterrupts, SendPendingNow, UserSwitches, Tick,
           Acts, MarkerAges, GateAges, budgetVars
  <1>6. CASE ServerSteps
    <2>1. CASE AcceptStart \/ DropStart \/ RefuseStart \/ AcceptSteer \/ StartForSteer
               \/ RefuseSteer \/ TakeInterrupt \/ ConsumeSteer
      BY <1>3, <1>4, <2>1 DEF AcceptStart, DropStart, RefuseStart, AcceptSteer, StartForSteer,
             RefuseSteer, TakeInterrupt, ConsumeSteer, budgetVars
    <2>2. CASE \/ \E stale \in (over \cap app.done) \cup {None} : AnswerHydrate(stale)
               \/ \E t \in accepted : StartTurn(t) \/ RejectTurn(t)
               \/ \E t \in running \cup over : Stream(t)
      BY <1>3, <1>4, <2>2 DEF AnswerHydrate, StartTurn, RejectTurn, Stream, budgetVars
    <2>3. CASE \/ \E t \in running : DropSteers(t) \/ Abort(t)
               \/ \E t \in running, o \in {"success", "error", "idle"} : Complete(t, o)
      BY <1>4, <2>3 DEF DropSteers, Abort, Complete, Ends, budgetVars
    <2>4. CASE \E kind \in {"error", "cap"} : OtherRequestFails(kind)
      BY <1>3, <2>4 DEF OtherRequestFails
    <2> QED BY <1>2, <1>6, <2>1, <2>2, <2>3, <2>4 DEF ServerSteps
  <1>7. CASE LinkDies \/ LinkBoots \/ LinkOpens \/ ReadInbox
    BY <1>3, <1>4, <1>7 DEF LinkDies, LinkBoots, LinkOpens, ReadInbox, budgetVars
  <1>8. CASE UNCHANGED vars
    BY <1>4, <1>8 DEF vars
  <1> QED BY <1>5, <1>6, <1>7, <1>8 DEF Next

(* With such servers that holds throughout, however often the child dies and *)
(* whatever the server drops, refuses, rejects or starts for a steer.       *)
THEOREM AnsweredForGood ==
    ASSUME ~BusyBoots, Orderly
    PROVE  Spec => []AnsweredOnce
  <1>1. Init => Clear
    BY DEF Init, Clear
  <1>2. Firm /\ Clear /\ [Next]_vars => Clear'
    BY StaysClear DEF Firm
  <1>3. Spec => []Clear
    BY <1>1, <1>2, AlwaysFirm, PTL DEF Spec
  <1> QED BY <1>3, PlacedAnswered, AlwaysFirm, AlwaysPlaced, PTL

-----------------------------------------------------------------------------
(* No prompt is lost: what a handler takes from one place it puts in        *)
(* another, the prompts of Z apart.                                         *)

Copy(a, p) ==
    \/ \E s \in Sessions : a.gate[s].prompt = p \/ Holds(a.queue[s], p)
    \/ Has(a.stash, p) \/ Has(a.retained, p)

Saves(a, b, Z) == \A p \in PromptNo \ Z : Copy(a, p) => Copy(b, p)

LEMMA SavesThen ==
    ASSUME NEW a, NEW b, NEW c, NEW Y, NEW Z, Saves(a, b, Y), Saves(b, c, Z)
    PROVE  Saves(a, c, Y \cup Z)
  BY DEF Saves

LEMMA SavesSame ==
    ASSUME NEW a, NEW b, b.gate = a.gate, b.queue = a.queue, SameSteers(a, b)
    PROVE  Saves(a, b, {})
  BY DEF Saves, Copy, SameSteers

LEMMA HoldsMore ==
    ASSUME NEW S, NEW q \in Seq(S), NEW r \in Seq(S), NEW p, Holds(q, p) \/ Holds(r, p)
    PROVE  Holds(q \o r, p)
  <1>1. /\ Len(q) \in Nat /\ Len(r) \in Nat /\ DOMAIN q = 1..Len(q) /\ DOMAIN r = 1..Len(r)
        /\ DOMAIN (q \o r) = 1..(Len(q) + Len(r))
        /\ \A i \in 1..(Len(q) + Len(r)) :
              (q \o r)[i] = IF i <= Len(q) THEN q[i] ELSE r[i - Len(q)]
    BY ConcatProperties
  <1> DEFINE m == q \o r
             n == Len(q)
             l == Len(r)
  <1>2. /\ n \in Nat /\ l \in Nat /\ DOMAIN q = 1..n /\ DOMAIN r = 1..l
        /\ DOMAIN m = 1..(n + l)
        /\ \A i \in 1..(n + l) : m[i] = IF i <= n THEN q[i] ELSE r[i - n]
    BY <1>1
  <1> HIDE DEF m, n, l
  <1>3. \A i \in DOMAIN q : i \in DOMAIN m /\ m[i] = q[i]
    BY <1>2
  <1>4. \A i \in DOMAIN r : i + n \in DOMAIN m /\ m[i + n] = r[i]
    BY <1>2
  <1>5. Holds(m, p)
    BY <1>3, <1>4 DEF Holds
  <1> QED BY <1>5 DEF m

LEMMA HoldsEnd ==
    ASSUME NEW S, NEW q \in Seq(S), NEW e \in S, NEW p, Holds(q, p) \/ e = p
    PROVE  Holds(Append(q, e), p)
  <1>1. /\ Len(q) + 1 \in DOMAIN Append(q, e) /\ Append(q, e)[Len(q) + 1] = e
        /\ \A i \in DOMAIN q : i \in DOMAIN Append(q, e) /\ Append(q, e)[i] = q[i]
    BY AppendProperties
  <1> QED BY <1>1 DEF Holds

LEMMA HoldsRest ==
    ASSUME NEW S, NEW q \in Seq(S), q # <<>>, NEW p, Holds(q, p)
    PROVE  Head(q) = p \/ Holds(Tail(q), p)
  <1>1. /\ Head(q) = q[1] /\ Len(q) \in Nat /\ DOMAIN q = 1..Len(q)
        /\ DOMAIN Tail(q) = 1..(Len(q) - 1)
        /\ \A i \in 1..(Len(q) - 1) : Tail(q)[i] = q[i + 1]
    BY HeadTailProperties
  <1> DEFINE r == Tail(q)
  <1>2. \A i \in DOMAIN q : i # 1 => i - 1 \in DOMAIN r /\ r[i - 1] = q[i]
    BY <1>1
  <1> HIDE DEF r
  <1>3. Head(q) = p \/ Holds(r, p)
    BY <1>1, <1>2 DEF Holds
  <1> QED BY <1>3 DEF r

(* A gate holds a prompt as long as it waits for a turn. *)
LEMMA GatePrompts ==
    ASSUME NEW a \in AppType, NEW s \in Sessions
    PROVE  /\ a.gate[s].turn # None <=> a.gate[s].prompt # None
           /\ a.gate[s].turn # None => a.gate[s].set /\ a.gate[s].prompt \in PromptNo
           /\ ~a.gate[s].set => a.gate[s] = NoGate
           /\ NoGate.turn = None /\ NoGate.prompt = None
           /\ Backoff.turn = None /\ Backoff.prompt = None /\ Backoff.set /\ ~Backoff.old
  <1>1. a.gate[s] \in GateType
    BY Fields DEF Gates
  <1>2. NoGate.turn = None /\ NoGate.prompt = None
    BY DEF NoGate
  <1>3. Backoff.turn = None /\ Backoff.prompt = None /\ Backoff.set /\ ~Backoff.old
    BY DEF Backoff
  <1>4. /\ (a.gate[s].turn = None) = (a.gate[s].prompt = None) /\ a.gate[s].prompt \in Nat
        /\ a.gate[s].set \/ a.gate[s] = NoGate
    BY <1>1 DEF GateType
  <1> QED BY <1>2, <1>3, <1>4 DEF PromptNo

LEMMA SavesRestaged ==
    ASSUME NEW a \in AppType, NEW b, NEW gated, NEW g, Restaged(a, b, gated, g), SameSteers(a, b)
    PROVE  Saves(a, b, {})
  <1> SUFFICES ASSUME NEW p \in PromptNo, Copy(a, p) PROVE Copy(b, p)
    BY DEF Saves
  <1>1. \A s \in Sessions : a.queue[s] \in Seq(PromptNo)
    BY Fields DEF Queues
  <1>2. ASSUME NEW s \in Sessions, a.gate[s].prompt = p PROVE Copy(b, p)
    <2>1. a.gate[s].turn # None
      BY <1>2, GatePrompts DEF PromptNo
    <2>2. CASE s \in gated
      <3> DEFINE g0 == <<p>>
      <3>1. b.queue[s] = g0 \o a.queue[s]
        BY <1>2, <2>1, <2>2 DEF Restaged
      <3>2. g0 \in Seq(PromptNo) /\ Holds(g0, p)
        <4>1. g0[1] = p /\ 1 \in DOMAIN g0
          OBVIOUS
        <4> QED BY <4>1 DEF Holds
      <3> HIDE DEF g0
      <3>3. Holds(g0 \o a.queue[s], p)
        BY <1>1, <3>2, HoldsMore
      <3>4. Holds(b.queue[s], p)
        BY <3>1, <3>3
      <3> QED BY <3>4 DEF Copy
    <2>3. CASE s \notin gated
      <3>1. b.gate[s] = a.gate[s]
        BY <2>3 DEF Restaged
      <3> QED BY <1>2, <3>1 DEF Copy
    <2> QED BY <2>2, <2>3
  <1>3. ASSUME NEW s \in Sessions, Holds(a.queue[s], p) PROVE Copy(b, p)
    <2>1. CASE s \in gated /\ a.gate[s].turn # None
      <3>1. b.queue[s] = <<a.gate[s].prompt>> \o a.queue[s] /\ a.gate[s].prompt \in PromptNo
        BY <2>1, GatePrompts DEF Restaged
      <3> DEFINE g0 == <<a.gate[s].prompt>>
      <3>2. g0 \in Seq(PromptNo) /\ b.queue[s] = g0 \o a.queue[s]
        BY <3>1
      <3> HIDE DEF g0
      <3>3. Holds(g0 \o a.queue[s], p)
        BY <1>1, <1>3, <3>2, HoldsMore
      <3>4. Holds(b.queue[s], p)
        BY <3>2, <3>3
      <3> QED BY <3>4 DEF Copy
    <2>2. CASE ~(s \in gated /\ a.gate[s].turn # None)
      <3>1. b.queue[s] = a.queue[s]
        BY <2>2 DEF Restaged
      <3> QED BY <1>3, <3>1 DEF Copy
    <2> QED BY <2>1, <2>2
  <1>4. CASE Has(a.stash, p) \/ Has(a.retained, p)
    BY <1>4 DEF Copy, SameSteers
  <1> QED BY <1>2, <1>3, <1>4 DEF Copy

LEMMA SavesSent ==
    ASSUME NEW a \in AppType, NEW b, HeadSent(a, b), a.gate[a.sel].turn = None
    PROVE  Saves(a, b, {})
  <1> SUFFICES ASSUME NEW p \in PromptNo, Copy(a, p) PROVE Copy(b, p)
    BY DEF Saves
  <1> DEFINE q == a.queue[a.sel]
  <1>1. /\ a.sel \in Sessions /\ q \in Seq(PromptNo) /\ q # <<>> /\ SameSteers(a, b)
        /\ Elsewhere(a, b) /\ b.queue[a.sel] = Tail(q) /\ Submitted(a, b, Head(q))
    BY Fields DEF Queues, HeadSent, Apart
  <1>2. b.gate[a.sel].prompt = Head(q)
    BY <1>1 DEF Submitted, InFlight
  <1>3. a.gate[a.sel].prompt # p
    BY <1>1, GatePrompts DEF PromptNo
  <1>4. Holds(q, p) => Copy(b, p)
    <2>1. Holds(q, p) => Head(q) = p \/ Holds(Tail(q), p)
      BY <1>1, HoldsRest
    <2> QED BY <1>1, <1>2, <2>1 DEF Copy
  <1> HIDE DEF q
  <1>5. ASSUME NEW s \in Sessions \ {a.sel}, a.gate[s].prompt = p \/ Holds(a.queue[s], p)
        PROVE  Copy(b, p)
    BY <1>1, <1>5 DEF Elsewhere, Copy
  <1>6. Has(a.stash, p) \/ Has(a.retained, p) => Copy(b, p)
    BY <1>1 DEF SameSteers, Copy
  <1> QED BY <1>3, <1>4, <1>5, <1>6 DEF Copy, q

(* A gate that a drain replaces has given its prompt back. *)
LEMMA SavesDrained ==
    ASSUME NEW a \in AppType, NEW b, Drained(a, b)
    PROVE  Saves(a, b, {})
  <1>1. CASE b = a
    BY <1>1 DEF Saves
  <1>2. ASSUME NEW c \in AppType, Apart(a, c), Restaged(a, c, Gated(a, {a.sel}), NoGate),
               b = c \/ HeadSent(c, b)
        PROVE  Saves(a, b, {})
    <2>1. Saves(a, c, {})
      BY <1>2, SavesRestaged DEF Apart
    <2>2. c.gate[c.sel].turn = None
      <3>1. a.sel \in Sessions /\ c.sel = a.sel
        BY <1>2, Fields DEF Apart
      <3>2. a.sel \notin Gated(a, {a.sel}) => a.gate[a.sel] = NoGate
        BY <3>1, GatePrompts DEF Gated
      <3>3. c.gate[a.sel] = NoGate
        BY <1>2, <3>1, <3>2 DEF Restaged
      <3> QED BY <3>1, <3>3 DEF NoGate
    <2>3. HeadSent(c, b) => Saves(c, b, {})
      BY <1>2, <2>2, SavesSent
    <2>4. Saves(a, b, {} \cup {})
      BY <1>2, <2>1, <2>3, SavesThen
    <2> QED BY <2>4
  <1> QED BY <1>1, <1>2 DEF Drained, Refilled

LEMMA SavesReset ==
    ASSUME NEW a, NEW b, Reset(a, b)
    PROVE  Saves(a, b, {})
  <1> PICK c \in AppType : Cleared(a, c) /\ Drained(c, b)
    BY DEF Reset
  <1>1. Saves(a, c, {})
    BY SavesSame DEF Cleared, Apart
  <1>2. Saves(a, b, {} \cup {})
    BY <1>1, SavesDrained, SavesThen
  <1> QED BY <1>2

LEMMA SavesMore ==
    ASSUME NEW a, NEW b, NEW Y, NEW Z, Saves(a, b, Y), Y \subseteq Z
    PROVE  Saves(a, b, Z)
  BY DEF Saves

LEMMA SavesOn ==
    ASSUME NEW a, NEW b, NEW c, NEW Z, Saves(a, b, Z), Saves(b, c, Z)
    PROVE  Saves(a, c, Z)
  BY DEF Saves

(* A typed prompt finds a place, if no gate in flight is taken from another. *)
LEMMA PromptSaves ==
    ASSUME NEW a \in AppType, NEW p \in PromptNo,
           ~TurnInProgress(a) => a.gate[a.sel].turn = None
    PROVE  LET b == Prompt(a, p) IN Saves(a, b, {}) /\ Copy(b, p)
  <1> DEFINE b == Prompt(a, p)
  <1>1. b \in AppType /\ (Steered(a, b, p) \/ Staged(a, b, p) \/ Sends(a, b, p))
    BY PromptData
  <1>2. a.sel \in Sessions /\ \A s \in Sessions : a.queue[s] \in Seq(PromptNo)
    BY Fields DEF Queues
  <1> SUFFICES Saves(a, b, {}) /\ Copy(b, p)
    OBVIOUS
  <1> HIDE DEF b
  <1>3. CASE Steered(a, b, p)
    <2> DEFINE e == [turn |-> Live(a), prompt |-> p]
    <2>1. a.stash \in Stashes /\ e \in SteerType
      BY Fields DEF Live, Marks, SteerType
    <2>2. b.stash = Append(a.stash, e) /\ b.retained = a.retained
          /\ b.gate = a.gate /\ b.queue = a.queue
      BY <1>3 DEF Steered
    <2>3. e.prompt = p
      OBVIOUS
    <2> HIDE DEF e
    <2>4. (\A x : Has(a.stash, x) => Has(b.stash, x)) /\ Has(b.stash, p)
      <3>1. \A i \in DOMAIN a.stash : i \in DOMAIN b.stash /\ b.stash[i] = a.stash[i]
        BY <2>1, <2>2, HasAppend
      <3>2. \E i \in DOMAIN b.stash : b.stash[i] = e
        BY <2>1, <2>2, HasAppend
      <3> QED BY <2>3, <3>1, <3>2 DEF Has
    <2>5. \A x : Copy(a, x) => Copy(b, x)
      BY <2>2, <2>4 DEF Copy
    <2>6. Copy(b, p)
      BY <2>4 DEF Copy
    <2> QED BY <2>5, <2>6 DEF Saves
  <1>4. CASE Staged(a, b, p)
    <2>1. /\ b.gate = a.gate /\ SameSteers(a, b) /\ b.queue[a.sel] = Append(a.queue[a.sel], p)
          /\ \A s \in Sessions \ {a.sel} : b.queue[s] = a.queue[s]
      BY <1>2, <1>4, Fields DEF Staged, Apart, Queues
    <2>2. ASSUME NEW x, Holds(a.queue[a.sel], x) \/ x = p PROVE Holds(b.queue[a.sel], x)
      BY <1>2, <2>1, <2>2, HoldsEnd
    <2>3. ASSUME NEW x, Copy(a, x) PROVE Copy(b, x)
      <3>1. ASSUME NEW s \in Sessions, a.gate[s].prompt = x \/ Holds(a.queue[s], x)
            PROVE  Copy(b, x)
        <4>1. b.gate[s].prompt = x \/ Holds(b.queue[s], x)
          BY <2>1, <2>2, <3>1
        <4> QED BY <4>1 DEF Copy
      <3> QED BY <2>1, <2>3, <3>1 DEF Copy, SameSteers
    <2>4. Copy(b, p)
      BY <1>2, <2>2 DEF Copy
    <2> QED BY <2>3, <2>4 DEF Saves
  <1>5. CASE Sends(a, b, p)
    <2>1. /\ SameSteers(a, b) /\ b.queue = a.queue /\ b.gate[a.sel].prompt = p
          /\ \A s \in Sessions \ {a.sel} : b.gate[s] = a.gate[s]
      BY <1>5 DEF Sends, Apart, Elsewhere, Submitted, InFlight
    <2>2. a.gate[a.sel].prompt = None
      BY <1>2, <1>5, GatePrompts DEF Sends
    <2>3. ASSUME NEW x \in PromptNo, Copy(a, x) PROVE Copy(b, x)
      BY <2>1, <2>2, <2>3 DEF Copy, SameSteers, PromptNo
    <2>4. Copy(b, p)
      BY <1>2, <2>1 DEF Copy
    <2> QED BY <2>3, <2>4 DEF Saves
  <1> QED BY <1>1, <1>3, <1>4, <1>5

LEMMA InterruptSaves ==
    ASSUME NEW a \in AppType
    PROVE  Saves(a, Interrupt(a), {})
  <1> DEFINE b == Interrupt(a)
  <1>1. Stopped(a, b) \/ b = a \/ Probed(a, b) \/ Reset(a, b)
    BY InterruptData
  <1> HIDE DEF b
  <1>2. Stopped(a, b) \/ b = a \/ Probed(a, b) => Saves(a, b, {})
    BY SavesSame DEF Stopped, Probed, Apart, SameSteers
  <1> QED BY <1>1, <1>2, SavesReset DEF b

LEMMA SwitchSaves ==
    ASSUME NEW a \in AppType, NEW s \in Sessions
    PROVE  Saves(a, Switch(a, s), {})
  <1> DEFINE b == Switch(a, s)
  <1>1. \E c \in AppType : Moved(a, c, s) /\ Drained(c, b)
    BY SwitchData
  <1> HIDE DEF b
  <1> PICK c \in AppType : Moved(a, c, s) /\ Drained(c, b)
    BY <1>1
  <1>2. Saves(a, c, {})
    BY SavesSame DEF Moved
  <1> QED BY <1>2, SavesDrained, SavesOn DEF b

LEMMA TickSaves ==
    ASSUME NEW a \in AppType, NEW due
    PROVE  Saves(a, TickOf(a, due), {})
  <1> DEFINE c == Drain(a)
             b == Watchdog(c, due)
  <1>1. c \in AppType /\ Drained(a, c)
    BY DrainData
  <1> HIDE DEF c
  <1>2. Quiet(c, b) \/ Probed(c, b) \/ Reset(c, b)
    BY <1>1, WatchdogData
  <1> HIDE DEF b
  <1>3. Saves(c, b, {})
    <2>1. Quiet(c, b) \/ Probed(c, b) => Saves(c, b, {})
      BY SavesSame DEF Quiet, Probed, Apart
    <2> QED BY <1>2, <2>1, SavesReset
  <1>4. Saves(a, b, {})
    BY <1>1, <1>3, SavesDrained, SavesOn
  <1> QED BY <1>4 DEF TickOf, b, c

(* A released gate lets go of the prompt of its turn. *)
LEMMA SavesReleased ==
    ASSUME NEW a \in AppType, NEW b, NEW t, NEW Z, TurnSession(a, t) \in Sessions,
           b.queue = a.queue, SameSteers(a, b),
           b.gate = [a.gate EXCEPT ![TurnSession(a, t)] = IF @.turn = t THEN NoGate ELSE @],
           a.gate[TurnSession(a, t)].turn = t => a.gate[TurnSession(a, t)].prompt \in Z
    PROVE  Saves(a, b, Z)
  <1> SUFFICES ASSUME NEW p \in PromptNo \ Z, Copy(a, p) PROVE Copy(b, p)
    BY DEF Saves
  <1>1. ASSUME NEW s \in Sessions, a.gate[s].prompt = p PROVE b.gate[s].prompt = p
    BY <1>1, Fields DEF Gates
  <1> QED BY <1>1 DEF Copy, SameSteers

LEMMA StartedSaves ==
    ASSUME NEW a \in AppType, NEW b, NEW t, NEW Z, TurnSession(a, t) \in Sessions,
           b = a \/ Opened(a, b, t),
           a.gate[TurnSession(a, t)].turn = t => a.gate[TurnSession(a, t)].prompt \in Z
    PROVE  Saves(a, b, Z)
  <1>1. CASE b = a
    BY <1>1 DEF Saves
  <1>2. CASE Opened(a, b, t)
    BY <1>2, SavesReleased DEF Opened, Bound
  <1> QED BY <1>1, <1>2

(* The retained steers of some turns return to the queues; of a server that  *)
(* settles them, they are forgotten.                                        *)
LEMMA SavesRestocked ==
    ASSUME NEW a \in AppType, NEW b, NEW ts, NEW Z, Restocked(a, b, ts),
           b.gate = a.gate, b.stash = a.stash,
           \A i \in DOMAIN a.retained : /\ TurnSession(a, a.retained[i].turn) \in Sessions
                                        /\ a.steering = "settles" /\ a.retained[i].turn \in ts =>
                                              a.retained[i].prompt \in Z
    PROVE  Saves(a, b, Z)
  <1> SUFFICES ASSUME NEW p \in PromptNo \ Z, Copy(a, p) PROVE Copy(b, p)
    BY DEF Saves
  <1>1. /\ a.retained \in Stashes /\ a.retained \in Seq(SteerType)
        /\ \A s \in Sessions : a.queue[s] \in Seq(PromptNo)
    BY Fields DEF Queues, Stashes
  <1>2. ASSUME NEW s \in Sessions, Holds(a.queue[s], p) PROVE Copy(b, p)
    <2> DEFINE r == PromptsOf(Entries(a.retained, Leaving(a, ts, s)))
    <2>1. r \in Seq(PromptNo)
      <3>1. Leaving(a, ts, s) \in SUBSET DOMAIN a.retained
        BY DEF Leaving
      <3> QED BY <1>1, <3>1, StashEntries
    <2>2. b.queue[s] = a.queue[s] \/ b.queue[s] = r \o a.queue[s]
      BY DEF Restocked
    <2> HIDE DEF r
    <2>3. Holds(r \o a.queue[s], p)
      BY <1>1, <1>2, <2>1, HoldsMore
    <2>4. Holds(b.queue[s], p)
      BY <1>2, <2>2, <2>3
    <2> QED BY <2>4 DEF Copy
  <1>3. ASSUME NEW i \in DOMAIN a.retained, a.retained[i].prompt = p PROVE Copy(b, p)
    <2> DEFINE s == TurnSession(a, a.retained[i].turn)
               stay == Staying(a, ts)
               leave == Leaving(a, ts, s)
    <2>1. CASE a.retained[i].turn \notin ts
      <3>1. stay \in SUBSET DOMAIN a.retained /\ i \in stay
        BY <2>1 DEF Staying
      <3> HIDE DEF stay
      <3>2. \E k \in DOMAIN Entries(a.retained, stay) : Entries(a.retained, stay)[k] = a.retained[i]
        BY <1>1, <3>1, EntriesData
      <3>3. b.retained = Entries(a.retained, stay)
        BY DEF Restocked, stay
      <3>4. Has(b.retained, p)
        BY <1>3, <3>2, <3>3 DEF Has
      <3> QED BY <3>4 DEF Copy
    <2>2. CASE a.retained[i].turn \in ts
      <3> DEFINE e == Entries(a.retained, leave)
                 r == PromptsOf(e)
      <3>1. s \in Sessions /\ a.steering # "settles"
        BY <1>3, <2>2
      <3>2. leave \in SUBSET DOMAIN a.retained /\ i \in leave
        BY <2>2 DEF Leaving
      <3>3. b.queue[s] = r \o a.queue[s]
        BY <3>1 DEF Restocked
      <3> HIDE DEF leave, s
      <3>4. /\ r \in Seq(PromptNo)
            /\ \E k \in DOMAIN e : e[k] = a.retained[i]
        <4>1. r \in Seq(PromptNo)
          BY <1>1, <3>2, StashEntries
        <4>2. \E k \in DOMAIN e : e[k] = a.retained[i]
          BY <1>1, <3>2, EntriesData
        <4> QED BY <4>1, <4>2
      <3> HIDE DEF e
      <3>5. Holds(r, p)
        BY <1>3, <3>4 DEF Holds, PromptsOf
      <3> HIDE DEF r
      <3>6. Holds(r \o a.queue[s], p)
        BY <1>1, <3>1, <3>4, <3>5, HoldsMore
      <3>7. Holds(b.queue[s], p)
        BY <3>3, <3>6
      <3> QED BY <3>1, <3>7 DEF Copy
    <2> QED BY <2>1, <2>2
  <1>4. CASE Has(a.retained, p)
    BY <1>3, <1>4 DEF Has
  <1> QED BY <1>2, <1>4 DEF Copy

(* A terminal of turn t, which no gate waits for unless t never started. *)
LEMMA ConcludedSaves ==
    ASSUME NEW a \in AppType, NEW b, NEW t \in Nat, NEW Z, Concluded(a, b, t),
           TurnSession(a, t) \in Sessions,
           a.gate[TurnSession(a, t)].turn = t => a.gate[TurnSession(a, t)].prompt \in Z,
           \A i \in DOMAIN a.retained : /\ TurnSession(a, a.retained[i].turn) \in Sessions
                                        /\ a.steering = "settles" /\ a.retained[i].turn = t =>
                                              a.retained[i].prompt \in Z
    PROVE  Saves(a, b, Z)
  <1> PICK d \in AppType : Finished(a, d, t) /\ (b = d \/ Drained(d, b))
    BY DEF Concluded
  <1> DEFINE g == [a.gate EXCEPT ![TurnSession(a, t)] = IF @.turn = t THEN NoGate ELSE @]
             m == [a EXCEPT !.gate = g]
  <1>1. d.gate = g /\ d.stash = a.stash /\ Restocked(a, d, {t})
    BY DEF Finished
  <1>2. g \in Gates
    BY Fields, <1>1
  <1>3. /\ m \in AppType /\ m.gate = g /\ m.queue = a.queue /\ m.turns = a.turns
        /\ SameSteers(a, m)
    BY <1>2 DEF AppType, SameSteers
  <1>4. Saves(a, m, Z)
    <2> HIDE DEF m
    <2> QED BY <1>3, SavesReleased
  <1> HIDE DEF m, g
  <1>5. Restocked(m, d, {t}) /\ d.gate = m.gate /\ d.stash = m.stash
    <2>1. SameSteers(m, a) /\ a.queue = m.queue /\ a.turns = m.turns
      BY <1>3 DEF SameSteers
    <2>2. Restocked(m, d, {t})
      BY <1>1, <2>1, RestockedSame
    <2> QED BY <1>1, <1>3, <2>2 DEF SameSteers
  <1>6. \A i \in DOMAIN m.retained :
           /\ TurnSession(m, m.retained[i].turn) \in Sessions
           /\ m.steering = "settles" /\ m.retained[i].turn \in {t} => m.retained[i].prompt \in Z
    BY <1>3 DEF SameSteers, TurnSession
  <1>7. Saves(m, d, Z)
    BY <1>3, <1>5, <1>6, SavesRestocked
  <1>8. Saves(d, b, Z)
    <2>1. Drained(d, b) => Saves(d, b, Z)
      BY SavesDrained, SavesMore
    <2>2. d = b => Saves(d, b, Z)
      BY DEF Saves
    <2> QED BY <2>1, <2>2
  <1> QED BY <1>4, <1>7, <1>8, SavesOn

(* The head of the stash is retained, or goes back to its queue.            *)
LEMMA SteeredIntoSaves ==
    ASSUME NEW a \in AppType, a.stash # <<>>
    PROVE  Saves(a, SteeredInto(a), {})
  <1> DEFINE b == SteeredInto(a)
             h == Head(a.stash)
             st == Tail(a.stash)
             re == Append(a.retained, h)
  <1>1. a.stash \in Seq(SteerType) /\ a.retained \in Stashes /\ h \in SteerType
    BY Fields DEF Stashes
  <1>2. b.gate = a.gate /\ b.queue = a.queue /\ b.stash = st /\ b.retained = re
    BY DEF SteeredInto, AppType
  <1>3. \A i \in DOMAIN a.stash : a.stash[i] = h \/ \E k \in DOMAIN st : st[k] = a.stash[i]
    <2>1. /\ Len(a.stash) \in Nat /\ DOMAIN a.stash = 1..Len(a.stash) /\ h = a.stash[1]
          /\ DOMAIN st = 1..(Len(a.stash) - 1)
          /\ \A i \in 1..(Len(a.stash) - 1) : st[i] = a.stash[i + 1]
      BY <1>1, HeadTailProperties
    <2> HIDE DEF st, h
    <2>2. \A i \in DOMAIN a.stash : i # 1 => i - 1 \in DOMAIN st /\ st[i - 1] = a.stash[i]
      BY <2>1
    <2> QED BY <2>1, <2>2
  <1>4. /\ \A i \in DOMAIN a.retained : i \in DOMAIN re /\ re[i] = a.retained[i]
        /\ \E k \in DOMAIN re : re[k] = h
    <2> HIDE DEF h
    <2>1. \A i \in DOMAIN a.retained : i \in DOMAIN re /\ re[i] = a.retained[i]
      BY <1>1, HasAppend
    <2>2. \E k \in DOMAIN re : re[k] = h
      BY <1>1, HasAppend
    <2> QED BY <2>1, <2>2
  <1> HIDE DEF st, re, h, b
  <1>5. \A p : Has(a.stash, p) => Has(b.stash, p) \/ Has(b.retained, p)
    BY <1>2, <1>3, <1>4 DEF Has
  <1>6. \A p : Has(a.retained, p) => Has(b.retained, p)
    BY <1>2, <1>4 DEF Has
  <1>7. Saves(a, b, {})
    BY <1>2, <1>5, <1>6 DEF Saves, Copy
  <1> QED BY <1>7 DEF b

LEMMA SteerFailedSaves ==
    ASSUME NEW a \in AppType, a.stash # <<>>, TurnSession(a, Head(a.stash).turn) \in Sessions
    PROVE  Saves(a, SteerFailed(a), {})
  <1> DEFINE b == SteerFailed(a)
             h == Head(a.stash)
             st == Tail(a.stash)
             s == TurnSession(a, h.turn)
  <1>1. /\ a.stash \in Seq(SteerType) /\ h \in SteerType /\ h.prompt \in PromptNo
        /\ \A x \in Sessions : a.queue[x] \in Seq(PromptNo)
    <2>1. a.stash \in Seq(SteerType) /\ \A x \in Sessions : a.queue[x] \in Seq(PromptNo)
      BY Fields DEF Stashes, Queues
    <2>2. h \in SteerType
      BY <2>1
    <2> QED BY <2>1, <2>2 DEF SteerType
  <1>2. /\ b.gate = a.gate /\ b.stash = st /\ b.retained = a.retained
        /\ b.queue[s] = Append(a.queue[s], h.prompt)
        /\ \A x \in Sessions \ {s} : b.queue[x] = a.queue[x]
    <2>1. b = [a EXCEPT !.stash = st, !.queue = [a.queue EXCEPT ![s] = Append(@, h.prompt)]]
      BY DEF SteerFailed
    <2> HIDE DEF b, st, h, s
    <2> QED BY <2>1, Fields DEF AppType, Queues, s, h
  <1>3. \A i \in DOMAIN a.stash : a.stash[i] = h \/ \E k \in DOMAIN st : st[k] = a.stash[i]
    <2>1. /\ Len(a.stash) \in Nat /\ DOMAIN a.stash = 1..Len(a.stash) /\ h = a.stash[1]
          /\ DOMAIN st = 1..(Len(a.stash) - 1)
          /\ \A i \in 1..(Len(a.stash) - 1) : st[i] = a.stash[i + 1]
      BY <1>1, HeadTailProperties
    <2> HIDE DEF st, h
    <2>2. \A i \in DOMAIN a.stash : i # 1 => i - 1 \in DOMAIN st /\ st[i - 1] = a.stash[i]
      BY <2>1
    <2> QED BY <2>1, <2>2
  <1>4. s \in Sessions
    OBVIOUS
  <1> HIDE DEF st, h, b, s
  <1>5. \A p : Holds(a.queue[s], p) \/ h.prompt = p => Holds(b.queue[s], p)
    BY <1>1, <1>2, <1>4, HoldsEnd
  <1>6. \A p : Has(a.stash, p) => Has(b.stash, p) \/ h.prompt = p
    BY <1>2, <1>3 DEF Has
  <1>7. ASSUME NEW p, Copy(a, p) PROVE Copy(b, p)
    <2>1. ASSUME NEW x \in Sessions, a.gate[x].prompt = p \/ Holds(a.queue[x], p)
          PROVE  Copy(b, p)
      <3>1. b.gate[x].prompt = p \/ Holds(b.queue[x], p)
        BY <1>2, <1>5, <2>1
      <3> QED BY <3>1 DEF Copy
    <2>2. Has(a.stash, p) => Copy(b, p)
      BY <1>4, <1>5, <1>6 DEF Copy
    <2>3. Has(a.retained, p) => Copy(b, p)
      BY <1>2 DEF Copy
    <2> QED BY <1>7, <2>1, <2>2, <2>3 DEF Copy
  <1>8. Saves(a, b, {})
    BY <1>7 DEF Saves
  <1> QED BY <1>8 DEF b

(* Turn t gives the prompts ps back. *)
LEMMA SteersDroppedSaves ==
    ASSUME NEW a \in AppType, NEW t, NEW ps, TurnSession(a, t) \in Sessions
    PROVE  Saves(a, SteersDropped(a, t, ps), {})
  <1> DEFINE mine == {i \in DOMAIN a.retained : /\ a.retained[i].turn = t
                                                /\ a.retained[i].prompt \in ps}
             kept == {i \in DOMAIN a.retained : ~(/\ a.retained[i].turn = t
                                                  /\ a.retained[i].prompt \in ps)}
             e == Entries(a.retained, mine)
             r == PromptsOf(e)
             re == Entries(a.retained, kept)
             s == TurnSession(a, t)
             b == SteersDropped(a, t, ps)
  <1>1. /\ a.retained \in Stashes /\ a.retained \in Seq(SteerType)
        /\ \A x \in Sessions : a.queue[x] \in Seq(PromptNo)
    BY Fields DEF Queues, Stashes
  <1>2. /\ mine \in SUBSET DOMAIN a.retained /\ kept \in SUBSET DOMAIN a.retained
        /\ \A i \in DOMAIN a.retained : i \in mine \/ i \in kept
    OBVIOUS
  <1>3. /\ b.gate = a.gate /\ b.stash = a.stash /\ b.retained = re
        /\ b.queue[s] = r \o a.queue[s] /\ \A x \in Sessions \ {s} : b.queue[x] = a.queue[x]
    <2>1. b = [a EXCEPT !.retained = re, !.queue = [a.queue EXCEPT ![s] = r \o @]]
      BY DEF SteersDropped, Select
    <2> HIDE DEF b, re, r, s
    <2> QED BY <2>1, Fields DEF AppType, Queues, s
  <1>4. s \in Sessions
    OBVIOUS
  <1> HIDE DEF mine, kept, b, s
  <1>5. r \in Seq(PromptNo) /\ \A i \in mine : \E k \in DOMAIN e : e[k] = a.retained[i]
    <2>1. r \in Seq(PromptNo)
      BY <1>1, <1>2, StashEntries
    <2>2. \A i \in mine : \E k \in DOMAIN e : e[k] = a.retained[i]
      BY <1>1, <1>2, EntriesData
    <2> QED BY <2>1, <2>2
  <1>6. \A i \in kept : \E k \in DOMAIN re : re[k] = a.retained[i]
    BY <1>1, <1>2, EntriesData
  <1> HIDE DEF e, re
  <1>7. \A i \in mine : Holds(r, a.retained[i].prompt)
    BY <1>5 DEF Holds, PromptsOf
  <1> HIDE DEF r
  <1>8. \A p : Holds(r, p) \/ Holds(a.queue[s], p) => Holds(b.queue[s], p)
    <2>1. \A p : Holds(r, p) \/ Holds(a.queue[s], p) => Holds(r \o a.queue[s], p)
      BY <1>1, <1>4, <1>5, HoldsMore
    <2> QED BY <1>3, <2>1
  <1>9. ASSUME NEW p, Copy(a, p) PROVE Copy(b, p)
    <2>1. ASSUME NEW x \in Sessions, a.gate[x].prompt = p \/ Holds(a.queue[x], p)
          PROVE  Copy(b, p)
      <3>1. b.gate[x].prompt = p \/ Holds(b.queue[x], p)
        BY <1>3, <1>8, <2>1
      <3> QED BY <3>1 DEF Copy
    <2>2. ASSUME NEW i \in DOMAIN a.retained, a.retained[i].prompt = p PROVE Copy(b, p)
      <3>1. CASE i \in mine
        <4>1. Holds(b.queue[s], p)
          BY <1>7, <1>8, <2>2, <3>1
        <4> QED BY <1>4, <4>1 DEF Copy
      <3>2. CASE i \in kept
        <4>1. Has(b.retained, p)
          BY <1>3, <1>6, <2>2, <3>2 DEF Has
        <4> QED BY <4>1 DEF Copy
      <3> QED BY <1>2, <3>1, <3>2
    <2>3. Has(a.stash, p) => Copy(b, p)
      BY <1>3 DEF Copy
    <2>4. Has(a.retained, p) => Copy(b, p)
      BY <2>2 DEF Has
    <2> QED BY <1>9, <2>1, <2>3, <2>4 DEF Copy
  <1>10. Saves(a, b, {})
    BY <1>9 DEF Saves
  <1> QED BY <1>10 DEF b

(* Retained steers that landed are forgotten. *)
LEMMA SavesPicked ==
    ASSUME NEW a \in AppType, NEW b, NEW kept \in SUBSET DOMAIN a.retained, NEW Z,
           b.gate = a.gate, b.queue = a.queue, b.stash = a.stash,
           b.retained = Entries(a.retained, kept),
           \A i \in DOMAIN a.retained \ kept : a.retained[i].prompt \in Z
    PROVE  Saves(a, b, Z)
  <1>1. \A i \in kept : \E k \in DOMAIN b.retained : b.retained[k] = a.retained[i]
    <2>1. a.retained \in Seq(SteerType)
      BY Fields DEF Stashes
    <2> QED BY <2>1, EntriesData
  <1>2. \A p \in PromptNo \ Z : Has(a.retained, p) => Has(b.retained, p)
    BY <1>1 DEF Has
  <1> QED BY <1>2 DEF Saves, Copy

LEMMA EchoSaves ==
    ASSUME NEW a \in AppType, NEW p
    PROVE  Saves(a, Echo(a, p), {p})
  <1> DEFINE b == Echo(a, p)
             kept == {i \in DOMAIN a.retained : a.retained[i].prompt # p}
  <1>1. /\ b.gate = a.gate /\ b.queue = a.queue /\ b.stash = a.stash
        /\ b.retained = Entries(a.retained, kept)
    BY DEF Echo, Select, AppType
  <1>2. kept \in SUBSET DOMAIN a.retained
        /\ \A i \in DOMAIN a.retained \ kept : a.retained[i].prompt \in {p}
    OBVIOUS
  <1> HIDE DEF b, kept
  <1>3. Saves(a, b, {p})
    BY <1>1, <1>2, SavesPicked
  <1> QED BY <1>3 DEF b

(* A snapshot: what landed is answered, and no live turn has a gate.        *)
LEMMA HydratedSaves ==
    ASSUME NEW a \in AppType, NEW s \in Sessions, NEW ended, NEW active, NEW landed,
           \A x \in Sessions : a.live[s] \in ended => a.gate[x].turn # a.live[s]
    PROVE  Saves(a, Hydrated(a, s, ended, active, landed), landed)
  <1> DEFINE hy == a.hydrating \ {s}
             kept == Unlanded(a, s, landed)
             re == Entries(a.retained, kept)
             c == [a EXCEPT !.hydrating = hy, !.retained = re]
             d == FinalizeStale(c, s, ended)
             b == Hydrated(a, s, ended, active, landed)
  <1>1. b = IF active = {} /\ s = a.sel /\ Phantom(d) THEN ResetPhantom(d) ELSE d
    BY DEF Hydrated, Select, Unlanded
  <1>2. /\ kept \in SUBSET DOMAIN a.retained /\ hy \in SUBSET Sessions
        /\ \A i \in DOMAIN a.retained \ kept : a.retained[i].prompt \in landed
    BY Fields DEF Unlanded
  <1> HIDE DEF hy, b, kept
  <1> SUFFICES Saves(a, b, landed)
    BY DEF b
  <1>3. re \in Stashes
    BY <1>2, Fields, StashEntries
  <1> HIDE DEF re
  <1>4. /\ c \in AppType /\ c.stash = a.stash /\ c.gate = a.gate /\ c.live = a.live
        /\ c.queue = a.queue /\ c.retained = re
    BY <1>2, <1>3 DEF AppType
  <1> HIDE DEF c
  <1>5. Saves(a, c, landed)
    BY <1>2, <1>4, SavesPicked DEF re
  <1>6. d \in AppType /\ Stale(c, d, s, ended)
    BY <1>4, FinalizeStaleData
  <1> HIDE DEF d
  <1>7. Saves(c, d, landed)
    <2>1. CASE d = c
      BY <2>1 DEF Saves
    <2>2. ASSUME NEW e \in AppType, Finalized(c, e, s), Drained(e, d), c.live[s] \in ended
          PROVE  Saves(c, d, landed)
      <3>1. \A x \in Sessions : c.gate[x].turn # c.live[s]
        BY <1>4, <2>2
      <3>2. e.gate = c.gate
        BY <1>4, <2>2, <3>1, Fields DEF Finalized, Gates
      <3>3. Saves(c, e, {})
        BY <2>2, <3>2, SavesSame DEF Finalized
      <3>4. Saves(c, d, {})
        BY <2>2, <3>3, SavesDrained, SavesOn
      <3> QED BY <3>4, SavesMore
    <2> QED BY <1>6, <2>1, <2>2 DEF Stale
  <1>8. Saves(d, b, landed)
    <2>1. CASE b = d
      BY <2>1 DEF Saves
    <2>2. CASE b = ResetPhantom(d)
      <3>1. Reset(d, b)
        BY <1>6, <2>2, ResetData
      <3>2. Saves(d, b, {})
        BY <1>6, <3>1, SavesReset
      <3> QED BY <3>2, SavesMore
    <2> QED BY <1>1, <2>1, <2>2
  <1> QED BY <1>5, <1>7, <1>8, SavesOn

(* An error that re-stages gates behind a backoff. *)
LEMMA BackoffSaves ==
    ASSUME NEW a \in AppType, NEW ss \in SUBSET Sessions
    PROVE  Saves(a, Failed(RestageGates(a, ss, Backoff)), {})
  <1> DEFINE c == RestageGates(a, ss, Backoff)
             b == Failed(c)
  <1>1. Backoff \in GateType
    BY DEF Backoff, GateType, None
  <1>2. c \in AppType /\ Apart(a, c) /\ Restaged(a, c, Gated(a, ss), Backoff)
    BY <1>1, RestageGatesData
  <1> HIDE DEF c
  <1>3. Saves(a, c, {})
    BY <1>2, SavesRestaged DEF Apart
  <1>4. Apart(c, b) /\ b.queue = c.queue /\ b.gate = c.gate
    BY <1>2, FailedData
  <1> HIDE DEF b
  <1>5. Saves(c, b, {})
    BY <1>4, SavesSame DEF Apart
  <1>6. Saves(a, b, {})
    BY <1>3, <1>5, SavesOn
  <1> QED BY <1>6 DEF b, c

LEMMA SendRefusedSaves ==
    ASSUME NEW a \in AppType
    PROVE  Saves(a, SendRefused(a), {}) /\ Saves(a, StartCancelled(a), {})
  <1>1. {a.sel} \in SUBSET Sessions
    BY Fields
  <1> QED BY <1>1, BackoffSaves DEF SendRefused, StartCancelled

(* The reconcile of a server that does not settle its steers. *)
LEMMA RelaunchedSaves ==
    ASSUME NEW a \in AppType, a.steering # "settles",
           \A i \in DOMAIN a.retained : TurnSession(a, a.retained[i].turn) \in Sessions
    PROVE  Saves(a, Relaunched(a), {})
  <1> DEFINE it == [s \in Sessions |-> None]
             x == [a EXCEPT !.hydrating = {}, !.withheld = {}, !.interrupted = it]
             y == RestageGates(x, Sessions, NoGate)
             ts == {y.live[s] : s \in Latched(y)}
             r == RestageSteers(y, ts)
             c == FailLatched(y)
             d == IF Latched(x) = {} THEN c ELSE Drain(c)
             e == [d EXCEPT !.run = IF @ = "working" /\ Live(d) = None THEN "idle" ELSE @]
  <1>1. Relaunched(a) = IF d.out # a.out THEN d ELSE Drain(e)
    BY DEF Relaunched
  <1>2. it \in Marks
    BY DEF Marks, None
  <1> HIDE DEF it
  <1>3. /\ x \in AppType /\ SameSteers(a, x) /\ x.gate = a.gate /\ x.queue = a.queue
        /\ x.turns = a.turns
    BY <1>2 DEF AppType, SameSteers
  <1> HIDE DEF x
  <1>4. Saves(a, x, {})
    BY <1>3, SavesSame
  <1>5. y \in AppType /\ Apart(x, y) /\ Restaged(x, y, Gated(x, Sessions), NoGate)
    <2>1. NoGate \in GateType
      BY DEF NoGate, GateType, None
    <2> QED BY <1>3, <2>1, RestageGatesData
  <1> HIDE DEF y
  <1>6. Saves(x, y, {})
    BY <1>3, <1>5, SavesRestaged DEF Apart
  <1>7. r \in AppType /\ Returned(y, r) /\ Restocked(y, r, ts)
    BY <1>5, RestageSteersData
  <1>8. Saves(y, r, {})
    <2>1. SameSteers(a, y) /\ y.turns = a.turns
      BY <1>3, <1>5 DEF Apart, SameSteers, Restaged
    <2>2. /\ y.steering # "settles"
          /\ \A i \in DOMAIN y.retained : TurnSession(y, y.retained[i].turn) \in Sessions
      BY <2>1 DEF SameSteers, TurnSession
    <2> HIDE DEF ts, r
    <2> QED BY <1>5, <1>7, <2>2, SavesRestocked DEF Returned
  <1>9. c \in AppType /\ c.queue = r.queue /\ SameSteers(r, c) /\ c.gate = r.gate
    <2>1. c \in AppType
      BY <1>5, FailLatchedData
    <2> DEFINE ss == {s \in Latched(y) : y.live[s] \notin y.done}
               us == {y.live[s] : s \in ss}
    <2>2. c = [r EXCEPT !.pre = [s \in Sessions |-> IF s \in Latched(y) THEN "none" ELSE r.pre[s]],
                        !.done = r.done \cup us,
                        !.switched = r.switched \ us,
                        !.live = [s \in Sessions |-> IF s \in ss THEN None ELSE r.live[s]],
                        !.run = IF y.sel \in ss THEN "error" ELSE r.run]
      BY DEF FailLatched
    <2> HIDE DEF r, c, ss, us
    <2> QED BY <1>7, <2>1, <2>2 DEF AppType, SameSteers
  <1> HIDE DEF r, c
  <1>10. Saves(r, c, {})
    BY <1>9, SavesSame
  <1>11. Saves(a, c, {})
    <2> HIDE DEF ts
    <2>1. Saves(a, y, {})
      BY <1>4, <1>6, SavesOn
    <2>2. Saves(a, r, {})
      BY <1>8, <2>1, SavesOn
    <2> QED BY <1>10, <2>2, SavesOn
  <1>12. d \in AppType /\ (d = c \/ Drained(c, d))
    BY <1>9, DrainData
  <1> HIDE DEF d
  <1>13. Saves(a, d, {})
    BY <1>9, <1>11, <1>12, SavesDrained, SavesOn
  <1>14. /\ e \in AppType /\ SameSteers(d, e) /\ e.gate = d.gate /\ e.queue = d.queue
    BY <1>12 DEF AppType, SameSteers, RunStates
  <1> HIDE DEF e
  <1>15. Saves(a, Drain(e), {})
    <2>1. Saves(d, e, {})
      BY <1>14, SavesSame
    <2>2. Saves(e, Drain(e), {})
      BY <1>14, DrainData, SavesDrained
    <2>3. Saves(a, e, {})
      BY <1>13, <2>1, SavesOn
    <2> QED BY <2>2, <2>3, SavesOn
  <1> QED BY <1>1, <1>13, <1>15

(* What the transport refuses goes back behind a backoff. *)
LEMMA RunSaves ==
    ASSUME app.turns \in TurnTables, NEW a \in AppType, NEW w, Run(a, w)
    PROVE  Saves(a, app', {}) /\ SameSteers(a, app')
  <1> DEFINE b == [a EXCEPT !.out = <<>>]
             c == SendRefused(b)
             d == [c EXCEPT !.turns = app.turns]
  <1>1. b \in AppType /\ SameSteers(a, b) /\ b.gate = a.gate /\ b.queue = a.queue
    BY HandedOver DEF Apart
  <1>2. app' = IF link = "down" /\ a.out # <<>> THEN d ELSE b
    BY DEF Run
  <1> HIDE DEF b
  <1>3. Saves(a, b, {})
    BY <1>1, SavesSame
  <1>4. c \in AppType /\ SameSteers(b, c) /\ Saves(b, c, {})
    BY <1>1, SendRefusedData, SendRefusedSaves DEF BackedOff, Apart
  <1> HIDE DEF c
  <1>5. SameSteers(c, d) /\ d.gate = c.gate /\ d.queue = c.queue
    BY <1>4 DEF AppType, SameSteers
  <1> HIDE DEF d
  <1>6. Saves(c, d, {})
    BY <1>5, SavesSame
  <1>7. Saves(a, d, {}) /\ SameSteers(a, d)
    <2>1. Saves(a, c, {})
      BY <1>3, <1>4, SavesOn
    <2> QED BY <1>1, <1>4, <1>5, <1>6, <2>1, SavesOn DEF SameSteers
  <1> QED BY <1>1, <1>2, <1>3, <1>7

-----------------------------------------------------------------------------
(* While the store is not misled, every prompt is answered or kept; and     *)
(* what it retains of a server that settles steers is answered, or is still *)
(* an input of its turn.                                                    *)

Saved == misled = {} => \A p \in Prompts : p \in answered \/ Copy(app, p)

Covered(a, q, Z) ==
    a.steering = "settles" =>
        \A j \in DOMAIN a.retained :
            \/ a.retained[j].prompt \in Z
            \/ \E i \in DOMAIN q : /\ q[i].turn = a.retained[j].turn
                                   /\ q[i].prompt = a.retained[j].prompt

Settling == misled = {} => Covered(app, inputs, answered)

(* A child that cannot die is up, and has no event queued. *)
Alive == "death" \notin server.kinds => link = "up" /\ inbox = <<>>

(* A server that settles steers outlives its client. *)
Outlived == \A v \in Servers : v.steering = "settles" => "death" \notin v.kinds

(* While the store is not misled, a gate in flight is not beside a live     *)
(* reply, and the session on screen works.                                  *)
Guarded ==
    misled = {} =>
        \A s \in Sessions : app.gate[s].turn # None =>
            app.live[s] = None /\ (s = app.sel /\ inbox = <<>> => app.run = "working")

Safe == Saved /\ Settling

(* The event loop takes a handler's result over. *)
LEMMA StepSafe ==
    ASSUME Sound, Safe, misled = {}, typed' = typed, answered \subseteq answered',
           NEW a \in AppType, NEW w, Run(a, w),
           Saves(app, a, answered'), Covered(a, inputs', answered')
    PROVE  Safe'
  <1>1. Saves(a, app', {}) /\ SameSteers(a, app')
    BY TurnsKnown, RunSaves
  <1>2. Saved'
    <2> SUFFICES ASSUME NEW p \in Prompts, p \notin answered' PROVE Copy(app', p)
      BY DEF Saved, Prompts
    <2>1. p \in PromptNo
      BY DEF Sound, BudgetSound, Prompts, PromptNo, None
    <2>2. Copy(app, p)
      BY DEF Safe, Saved
    <2> QED BY <1>1, <2>1, <2>2 DEF Saves
  <1>3. Covered(app', inputs', answered')
    BY <1>1 DEF Covered, SameSteers
  <1> QED BY <1>2, <1>3 DEF Safe, Settling

(* The store is left as it is, but for its clocks. *)
LEMMA StillSafe ==
    ASSUME Safe, misled = {}, typed' = typed, answered' = answered, inputs' = inputs,
           app' = app \/ (/\ app'.queue = app.queue /\ SameSteers(app, app')
                          /\ \A s \in Sessions : app'.gate[s].prompt = app.gate[s].prompt)
    PROVE  Safe'
  <1>1. \A p : Copy(app, p) => Copy(app', p)
    BY DEF Copy, SameSteers
  <1>2. Covered(app', inputs', answered')
    BY DEF Safe, Settling, Covered, SameSteers
  <1> QED BY <1>1, <1>2 DEF Safe, Saved, Settling, Prompts

(* Some retained steers go: those that stay still have their inputs, or are  *)
(* answered now.                                                            *)
LEMMA CoveredLess ==
    ASSUME NEW a \in AppType, NEW b, NEW kept \in SUBSET DOMAIN a.retained,
           b.retained = Entries(a.retained, kept), b.steering = a.steering,
           NEW q, NEW r, NEW Z, NEW Y, Z \subseteq Y, Covered(a, q, Z),
           a.steering = "settles" =>
              \A k \in DOMAIN q : \/ q[k].prompt \in Y
                                  \/ \E m \in DOMAIN r : r[m] = q[k]
                                  \/ \A i \in kept : \/ a.retained[i].turn # q[k].turn
                                                     \/ a.retained[i].prompt # q[k].prompt
    PROVE  Covered(b, r, Y)
  <1> SUFFICES ASSUME a.steering = "settles", NEW j \in DOMAIN b.retained
               PROVE  \/ b.retained[j].prompt \in Y
                      \/ \E i \in DOMAIN r : /\ r[i].turn = b.retained[j].turn
                                             /\ r[i].prompt = b.retained[j].prompt
    BY DEF Covered
  <1>1. a.retained \in Seq(SteerType)
    BY Fields DEF Stashes
  <1>2. PICK i \in kept : b.retained[j] = a.retained[i]
    BY <1>1, EntriesData
  <1>3. \/ a.retained[i].prompt \in Z
        \/ \E k \in DOMAIN q : /\ q[k].turn = a.retained[i].turn
                               /\ q[k].prompt = a.retained[i].prompt
    BY <1>2 DEF Covered
  <1> QED BY <1>2, <1>3

LEMMA CoveredSame ==
    ASSUME NEW a, NEW b, b.retained = a.retained, b.steering = a.steering,
           NEW q, NEW Z, NEW Y, Z \subseteq Y, Covered(a, q, Z)
    PROVE  Covered(b, q, Y)
  BY DEF Covered

-----------------------------------------------------------------------------
(* The user and the clock. *)

LEMMA ActsSafe ==
    ASSUME Sound, Safe, misled = {}, typed' = typed, NEW a \in AppType, Acts(a),
           Saves(app, a, {}), a.retained = app.retained, a.steering = app.steering
    PROVE  Safe'
  <1>1. Run(a, wire) /\ answered' = answered /\ inputs' = inputs
    BY DEF Acts, Keeps, serverVars
  <1>2. Covered(a, inputs, answered)
    BY CoveredSame DEF Safe, Settling
  <1>3. Saves(app, a, answered)
    BY SavesMore
  <1> QED BY <1>1, <1>2, <1>3, StepSafe

LEMMA TypePromptSafe ==
    ASSUME Sound, Safe, Guarded, misled = {}, TypePrompt
    PROVE  Safe'
  <1> DEFINE n == Len(typed) + 1
             a == Prompt(app, n)
  <1>1. Acts(a) /\ typed' = Append(typed, app.sel)
    BY DEF TypePrompt
  <1>2. app \in AppType /\ app.sel \in Sessions /\ typed \in Seq(Sessions) /\ Len(typed) \in Nat
    BY TurnsKnown, Fields DEF Sound, BudgetSound
  <1>3. n \in PromptNo /\ Len(typed') = n
    BY <1>1, <1>2 DEF PromptNo, None
  <1>4. inbox = <<>> /\ Run(a, wire) /\ answered' = answered /\ inputs' = inputs
    BY <1>1 DEF Acts, Keeps, serverVars
  <1>5. ~TurnInProgress(app) => app.gate[app.sel].turn = None
    BY <1>2, <1>4 DEF Guarded, TurnInProgress
  <1>6. Saves(app, a, {}) /\ Copy(a, n)
    <2> HIDE DEF n
    <2> QED BY <1>2, <1>3, <1>5, PromptSaves
  <1>7. a \in AppType /\ a.retained = app.retained /\ a.steering = app.steering
    <2> HIDE DEF n
    <2> QED BY <1>2, <1>3, PromptData DEF Steered, Staged, Sends, Apart, SameSteers
  <1> HIDE DEF a
  <1>8. Saves(a, app', {}) /\ SameSteers(a, app')
    BY <1>4, <1>7, TurnsKnown, RunSaves
  <1>9. Copy(app', n)
    <2> HIDE DEF n
    <2> QED BY <1>3, <1>6, <1>8 DEF Saves
  <1>10. ASSUME NEW p \in 1..Len(typed), p \notin answered PROVE Copy(app', p)
    <2>1. p \in PromptNo /\ p \in Prompts
      BY <1>2 DEF PromptNo, None, Prompts
    <2>2. Copy(app, p)
      BY <1>10, <2>1 DEF Safe, Saved
    <2> QED BY <1>6, <1>8, <2>1, <2>2 DEF Saves
  <1>11. \A p \in 1..Len(typed') : p \in 1..Len(typed) \/ p = n
    BY <1>2, <1>3
  <1>12. Saved'
    BY <1>4, <1>9, <1>10, <1>11 DEF Saved, Prompts
  <1>13. Covered(app', inputs', answered')
    <2>1. app'.retained = app.retained /\ app'.steering = app.steering
      BY <1>7, <1>8 DEF SameSteers
    <2> QED BY <1>4, <2>1, CoveredSame DEF Safe, Settling
  <1> QED BY <1>12, <1>13 DEF Safe, Settling

LEMMA UserSafe ==
    ASSUME Sound, Safe, Guarded, misled = {}, User \/ \E due \in BOOLEAN : Tick(due)
    PROVE  Safe'
  <1>1. app \in AppType /\ Fit(app, app.turns)
    BY TurnsKnown
  <1>2. CASE UserInterrupts \/ SendPendingNow
    <2> DEFINE a == Interrupt(app)
    <2>1. Acts(a) /\ typed' = typed
      BY <1>2 DEF UserInterrupts, SendPendingNow
    <2>2. a \in AppType /\ Saves(app, a, {}) /\ a.retained = app.retained /\ a.steering = app.steering
      BY <1>1, InterruptFit, InterruptSaves, InterruptShifts DEF Fit, Plain
    <2> HIDE DEF a
    <2> QED BY <2>1, <2>2, ActsSafe
  <1>3. ASSUME NEW s \in Sessions, UserSwitches(s) PROVE Safe'
    <2> DEFINE a == Switch(app, s)
    <2>1. Acts(a) /\ typed' = typed
      BY <1>3 DEF UserSwitches
    <2>2. a \in AppType /\ Saves(app, a, {}) /\ a.retained = app.retained /\ a.steering = app.steering
      BY <1>1, SwitchFit, SwitchSaves, SwitchShifts DEF Fit, Plain
    <2> HIDE DEF a
    <2> QED BY <2>1, <2>2, ActsSafe
  <1>4. ASSUME NEW due \in BOOLEAN, Tick(due) PROVE Safe'
    <2> DEFINE a == TickOf(app, due)
    <2>1. Acts(a) /\ typed' = typed
      BY <1>4 DEF Tick
    <2>2. a \in AppType /\ Saves(app, a, {}) /\ a.retained = app.retained /\ a.steering = app.steering
      BY <1>1, TickFit, TickSaves, TickShifts DEF Fit, Plain
    <2> HIDE DEF a
    <2> QED BY <2>1, <2>2, ActsSafe
  <1> QED BY <1>2, <1>3, <1>4, TypePromptSafe DEF User

LEMMA AgesSafe ==
    ASSUME Sound, Safe, misled = {}, NEW s \in Sessions, MarkerAges(s) \/ GateAges(s)
    PROVE  Safe'
  <1>1. app \in AppType /\ app.gate \in Gates
    BY TurnsKnown, Fields
  <1>2. UNCHANGED <<inputs, typed, answered>>
    BY DEF MarkerAges, GateAges, serverVars
  <1>3. /\ app'.queue = app.queue /\ SameSteers(app, app')
        /\ \A x \in Sessions : app'.gate[x].prompt = app.gate[x].prompt
    <2>1. CASE MarkerAges(s)
      <3> DEFINE b == [app EXCEPT !.pre[s] = "aged"]
      <3>1. Apart(app, b) /\ b.gate = app.gate /\ b.queue = app.queue
        BY <1>1, MarkerAgedData
      <3>2. app' = b
        BY <2>1 DEF MarkerAges
      <3> HIDE DEF b
      <3> QED BY <3>1, <3>2 DEF Apart
    <2>2. CASE GateAges(s)
      <3> DEFINE b == [app EXCEPT !.gate[s].old = TRUE]
      <3>0. app.gate[s].set /\ app' = b
        BY <2>2 DEF GateAges
      <3>1. /\ Apart(app, b) /\ b.queue = app.queue
            /\ b.gate = [app.gate EXCEPT ![s] = [@ EXCEPT !.old = TRUE]]
        BY <1>1, <3>0, GateAgedData
      <3> HIDE DEF b
      <3>2. app.gate[s] \in [turn : Nat, prompt : Nat, old : BOOLEAN, set : BOOLEAN]
        BY <1>1 DEF Gates, GateType
      <3>3. \A x \in Sessions : b.gate[x].prompt = app.gate[x].prompt
        BY <1>1, <3>1, <3>2 DEF Gates
      <3> QED BY <3>0, <3>1, <3>3 DEF Apart
    <2> QED BY <2>1, <2>2
  <1> QED BY <1>2, <1>3, StillSafe

-----------------------------------------------------------------------------
(* The server's steps. *)

LEMMA AnswerSafe ==
    ASSUME ~BusyBoots, Firm, Placed, Safe, misled = {},
           AcceptStart \/ DropStart \/ TakeInterrupt \/ AcceptSteer \/ RefuseSteer
    PROVE  Safe'
  <1>1. CASE AcceptStart \/ DropStart \/ TakeInterrupt
    <2>1. app' = app /\ UNCHANGED <<inputs, typed, answered>>
      BY <1>1 DEF AcceptStart, DropStart, TakeInterrupt, serverVars
    <2> QED BY <2>1, StillSafe
  <1>2. /\ Sound /\ app \in AppType /\ Fit(app, app.turns)
        /\ \A x \in DOMAIN app.turns : TurnSession(app, x) \in Sessions
    BY TurnsKnown DEF Firm
  <1>3. CASE RefuseSteer
    <2> DEFINE a == SteerFailed(app)
    <2>1. Takes("steer") /\ Run(a, Tail(wire)) /\ UNCHANGED <<inputs, typed, answered>>
      BY <1>3 DEF RefuseSteer, serverVars
    <2>2. app.stash # <<>> /\ app.stash \in Seq(SteerType)
      BY <1>2, <2>1, TakesFacts, Fields DEF Stashes
    <2>3. TurnSession(app, Head(app.stash).turn) \in Sessions
      <3>1. Head(app.stash) = app.stash[1] /\ 1 \in DOMAIN app.stash
        BY <2>2
      <3> QED BY <1>2, <3>1 DEF Fit, Refs
    <2>4. /\ a \in AppType /\ Saves(app, a, {}) /\ a.retained = app.retained
          /\ a.steering = app.steering
      BY <1>2, <2>2, <2>3, SteerFailedData, SteerFailedSaves DEF Popped
    <2> HIDE DEF a
    <2>5. Covered(a, inputs, answered) /\ Saves(app, a, answered)
      BY <2>4, CoveredSame, SavesMore DEF Safe, Settling
    <2> QED BY <1>2, <2>1, <2>4, <2>5, StepSafe
  <1>4. CASE AcceptSteer
    <2> DEFINE a == SteeredInto(app)
               h == Head(app.stash)
               e == [turn |-> Head(wire).turn, prompt |-> Head(wire).prompt]
    <2>1. /\ Takes("steer") /\ Run(a, Tail(wire)) /\ UNCHANGED <<typed, answered>>
          /\ inputs' = Append(inputs, e)
      BY <1>4 DEF AcceptSteer
    <2>2. /\ app.stash # <<>> /\ app.stash \in Stashes /\ app.retained \in Stashes
          /\ wire \in Seq(CmdType) /\ wire # <<>> /\ Head(wire) \in CmdType
      BY <1>2, <2>1, TurnsKnown, TakesFacts, Fields DEF Takes
    <2>3. h \in SteerType /\ 1 \in DOMAIN app.stash /\ app.stash[1] = h
      BY <2>2, HasTail DEF Stashes
    <2>4. h.prompt = Head(wire).prompt
      BY <1>2, <2>1, StashHead
    <2>5. /\ a \in AppType /\ Saves(app, a, {}) /\ a.retained = Append(app.retained, h)
          /\ a.steering = app.steering
      BY <1>2, <2>2, SteeredIntoData, SteeredIntoSaves DEF Popped
    <2> HIDE DEF a, h
    <2>6. /\ e.turn = h.turn /\ e.prompt = h.prompt /\ e \in [turn : Nat, prompt : Nat]
      <3>1. wire[1] = Head(wire) /\ 1 \in DOMAIN wire /\ Head(wire).kind = "steer"
        BY <2>1, <2>2 DEF Takes
      <3>2. h.turn = Head(wire).turn
        BY <2>3, <2>4, <3>1 DEF Told, Placed, Clear
      <3> QED BY <2>2, <2>4, <3>2 DEF CmdType
    <2> HIDE DEF e
    <2>7. \A j \in DOMAIN a.retained :
             a.retained[j] = h \/ (j \in DOMAIN app.retained /\ a.retained[j] = app.retained[j])
      BY <2>2, <2>3, <2>5, HasAppend
    <2>8. /\ \A i \in DOMAIN inputs : i \in DOMAIN inputs' /\ inputs'[i] = inputs[i]
          /\ \E i \in DOMAIN inputs' : inputs'[i] = e
      <3>1. inputs \in Seq([turn : Nat, prompt : Nat])
        BY <1>2 DEF Sound, ServerSound
      <3>2. /\ Len(inputs) + 1 \in DOMAIN inputs' /\ inputs'[Len(inputs) + 1] = e
            /\ \A i \in DOMAIN inputs : i \in DOMAIN inputs' /\ inputs'[i] = inputs[i]
        BY <2>1, <2>6, <3>1, AppendProperties
      <3> QED BY <3>2
    <2>9. Covered(a, inputs', answered)
      <3> SUFFICES ASSUME app.steering = "settles", NEW j \in DOMAIN a.retained
                   PROVE  \/ a.retained[j].prompt \in answered
                          \/ \E i \in DOMAIN inputs' : /\ inputs'[i].turn = a.retained[j].turn
                                                       /\ inputs'[i].prompt = a.retained[j].prompt
        BY <2>5 DEF Covered
      <3>1. CASE a.retained[j] = h
        BY <2>6, <2>8, <3>1
      <3>2. CASE j \in DOMAIN app.retained /\ a.retained[j] = app.retained[j]
        <4>1. \/ app.retained[j].prompt \in answered
              \/ \E i \in DOMAIN inputs : /\ inputs[i].turn = app.retained[j].turn
                                          /\ inputs[i].prompt = app.retained[j].prompt
          BY <3>2 DEF Safe, Settling, Covered
        <4> QED BY <2>8, <3>2, <4>1
      <3> QED BY <2>7, <3>1, <3>2
    <2>10. Saves(app, a, answered)
      BY <2>5, SavesMore
    <2> QED BY <1>2, <2>1, <2>5, <2>9, <2>10, StepSafe
  <1> QED BY <1>1, <1>3, <1>4

LEMMA HydrateSafe ==
    ASSUME Firm, Placed, Safe, Guarded, misled = {}, NEW stale, AnswerHydrate(stale)
    PROVE  Safe'
  <1> DEFINE s == Head(wire).sess
             Mine(ts) == {t \in ts : t # None /\ TurnSession(app, t) = s}
             active == Mine(running \cup {stale})
             told == active \cap app.done
             t1 == CHOOSE t \in told : TRUE
             ended == Mine(over \ {stale})
             a == IF told # {} THEN Refresh(app, s, t1)
                  ELSE Hydrated(app, s, ended, active, answered)
  <1>1. /\ Takes("hydrate") /\ Run(a, Tail(wire)) /\ UNCHANGED <<inputs, typed, answered>>
    BY DEF AnswerHydrate, serverVars
  <1>2. s \in Sessions
    BY <1>1, TakesFacts DEF CmdType, Firm
  <1>3. told \subseteq app.done /\ None \notin ended /\ \A t \in ended : TurnSession(app, t) = s
    OBVIOUS
  <1> HIDE DEF ended, active, told
  <1>4. /\ Fit(app, app.turns) /\ app \in AppType /\ app.done \in SUBSET Nat
        /\ Sound
    BY <1>1, TurnsKnown, Fields DEF Firm
  <1>5. told # {} => t1 \in Nat
    BY <1>3, <1>4
  <1> HIDE DEF t1, s
  <1>6. a \in AppType /\ Saves(app, a, answered) /\ Covered(a, inputs, answered)
    <2>1. CASE told # {}
      <3> DEFINE b == Refresh(app, s, t1)
      <3>1. b \in AppType /\ Apart(app, b) /\ b.gate = app.gate /\ b.queue = app.queue
        BY <1>2, <1>4, <1>5, <2>1, RefreshData DEF Refreshed
      <3>2. a = b
        BY <2>1
      <3> HIDE DEF a, b
      <3>3. Saves(app, b, {}) /\ Covered(b, inputs, answered)
        BY <3>1, SavesSame, CoveredSame DEF Apart, SameSteers, Safe, Settling
      <3>4. Saves(app, b, answered)
        BY <3>3, SavesMore
      <3> QED BY <3>1, <3>2, <3>3, <3>4
    <2>2. CASE told = {}
      <3> DEFINE b == Hydrated(app, s, ended, active, answered)
                 kept == Unlanded(app, s, answered)
      <3>1. a = b
        BY <2>2
      <3>2. ASSUME NEW x \in Sessions, app.live[s] \in ended
            PROVE  app.gate[x].turn # app.live[s]
        <4> SUFFICES ASSUME app.gate[x].turn = app.live[s] PROVE FALSE
          OBVIOUS
        <4>1. app.live[s] # None /\ TurnSession(app, app.live[s]) = s
          BY <1>3, <3>2
        <4>2. app.turns[app.gate[x].turn].sess = x
          BY <4>1 DEF Placed, Clear, Stored, Clean
        <4>3. x = s
          BY <4>1, <4>2 DEF TurnSession
        <4> QED BY <4>1, <4>3 DEF Guarded
      <3>3. b \in AppType
        BY <1>2, <1>4, HydratedData
      <3>4. Saves(app, b, answered)
        BY <1>2, <1>4, <3>2, HydratedSaves
      <3>5. b.retained = Entries(app.retained, kept) /\ b.steering = app.steering
        <4>1. b.retained = Entries(app.retained, kept)
          BY <1>2, <1>4, HydratedShifts
        <4>2. b.steering = app.steering
          <5>1. Plain(app, b)
            BY <1>2, <1>3, <1>4, HydratedFit
          <5> QED BY <5>1 DEF Plain
        <4> QED BY <4>1, <4>2
      <3> HIDE DEF a, b
      <3>6. kept \in SUBSET DOMAIN app.retained
        BY DEF Unlanded
      <3> HIDE DEF kept
      <3>7. Covered(b, inputs, answered)
        BY <1>4, <3>5, <3>6, CoveredLess DEF Safe, Settling
      <3> QED BY <3>1, <3>3, <3>4, <3>7
    <2> QED BY <2>1, <2>2
  <1> HIDE DEF a
  <1> QED BY <1>1, <1>4, <1>6, StepSafe

(* A turn starts: the prompt its gate held is answered. *)
LEMMA StartTurnSafe ==
    ASSUME Firm, Placed, Safe, misled = {}, NEW t, StartTurn(t)
    PROVE  Safe'
  <1> DEFINE a == Started(app, t)
             Z == answered \cup {app.turns[t].prompt}
  <1>1. /\ t \in accepted /\ Keeps(a) /\ UNCHANGED <<inputs, typed>> /\ answered' = Z
    BY DEF StartTurn
  <1>2. /\ app \in AppType /\ t \in Nat \ {None} /\ TurnSession(app, t) \in Sessions /\ Sound
    BY <1>1, TurnsKnown DEF Firm, TurnsRan, Ran
  <1>3. a \in AppType /\ (a = app \/ Opened(app, a, t))
    BY <1>2, StartedData
  <1>4. app.gate[TurnSession(app, t)].turn = t => app.gate[TurnSession(app, t)].prompt \in Z
    BY <1>2 DEF Placed, Clear, Stored, Clean
  <1>5. answered \subseteq Z
    OBVIOUS
  <1> HIDE DEF a, Z
  <1>6. Saves(app, a, Z)
    BY <1>2, <1>3, <1>4, StartedSaves
  <1>7. a.retained = app.retained /\ a.steering = app.steering
    BY <1>3 DEF Opened, Bound, SameSteers
  <1>8. Covered(a, inputs, Z)
    BY <1>5, <1>7, CoveredSame DEF Safe, Settling
  <1> QED BY <1>1, <1>2, <1>3, <1>5, <1>6, <1>8, StepSafe DEF Keeps

(* A turn ends: it had started, so its gate is gone, or it is answered now;  *)
(* a server that settles steers had none of its inputs left.                *)
LEMMA EndsSafe ==
    ASSUME Firm, Placed, Safe, misled = {}, NEW t,
           \/ RejectTurn(t) \/ Abort(t)
           \/ \E o \in {"success", "error", "idle"} : Complete(t, o)
    PROVE  Safe'
  <1> DEFINE rest == {i \in DOMAIN inputs : inputs[i].turn # t}
             stay == Staying(app, {t})
  <1>1. /\ typed' = typed
        /\ \/ /\ t \in running /\ inputs' = Entries(inputs, rest) /\ answered' = answered
              /\ app.steering = "settles" => \A i \in DOMAIN inputs : inputs[i].turn # t
           \/ /\ t \in accepted /\ inputs' = inputs
              /\ answered' = answered \cup {app.turns[t].prompt}
    BY DEF RejectTurn, Abort, Complete, Ends, Select, PendingInputs
  <1>2. /\ app \in AppType /\ t \in Nat /\ TurnSession(app, t) \in Sessions /\ Sound
        /\ Fit(app, app.turns)
        /\ \A x \in DOMAIN app.turns : TurnSession(app, x) \in Sessions
        /\ inputs \in Seq([turn : Nat, prompt : Nat])
    BY <1>1, TurnsKnown DEF Firm, Sound, ServerSound
  <1>3. \E a \in AppType : Concluded(app, a, t) /\ Keeps(a)
    <2>1. ASSUME NEW o \in {"success", "error", "idle"}, Keeps(Commit(app, t, o))
          PROVE  \E a \in AppType : Concluded(app, a, t) /\ Keeps(a)
      BY <1>2, <2>1, CommitData
    <2>2. ASSUME NEW interrupt, Keeps(Fail(app, t, interrupt))
          PROVE  \E a \in AppType : Concluded(app, a, t) /\ Keeps(a)
      BY <1>2, <2>2, FailData
    <2> QED BY <2>1, <2>2 DEF RejectTurn, Abort, Complete
  <1> PICK a \in AppType : Concluded(app, a, t) /\ Keeps(a)
    BY <1>3
  <1>4. a.retained = Entries(app.retained, stay) /\ a.steering = app.steering
    <2>1. a.retained = Entries(app.retained, stay)
      BY <1>2, ConcludedPlaces
    <2>2. a.steering = app.steering
      BY DEF Concluded, Finished, Drained, Apart, SameSteers
    <2> QED BY <2>1, <2>2
  <1>5. stay \in SUBSET DOMAIN app.retained /\ \A i \in stay : app.retained[i].turn # t
    BY DEF Staying
  <1>6. answered \subseteq answered'
    BY <1>1
  <1>7. app.steering = "settles" =>
           /\ \A i \in DOMAIN inputs : inputs[i].turn # t
           /\ inputs' = inputs \/ inputs' = Entries(inputs, rest)
    <2>1. t \in accepted => \A i \in DOMAIN inputs : inputs[i].turn # t
      BY DEF Firm, TurnsRan, Ran, Placed, Clear, Fed
    <2> QED BY <1>1, <2>1
  <1>8. app.steering = "settles" =>
           \A j \in DOMAIN app.retained :
              app.retained[j].turn = t => app.retained[j].prompt \in answered
    BY <1>7 DEF Safe, Settling, Covered
  <1>9. app.gate[TurnSession(app, t)].turn = t => app.gate[TurnSession(app, t)].prompt \in answered'
    <2>1. t # None /\ \A s \in Sessions : app.gate[s].turn = t =>
             /\ app.turns[t].prompt = app.gate[s].prompt
             /\ t \notin running
      BY <1>1 DEF Placed, Clear, Stored, Clean, Firm, TurnsRan, Ran
    <2> QED BY <1>1, <1>2, <2>1
  <1>10. \A i \in DOMAIN app.retained : TurnSession(app, app.retained[i].turn) \in Sessions
    BY <1>2 DEF Fit, Refs
  <1>11. Saves(app, a, answered')
    BY <1>2, <1>6, <1>8, <1>9, <1>10, ConcludedSaves
  <1>12. Covered(a, inputs', answered')
    <2>1. \A k \in DOMAIN inputs : inputs[k].turn # t => \E m \in DOMAIN inputs' : inputs'[m] = inputs[k]
      <3>1. rest \in SUBSET DOMAIN inputs /\ \A k \in DOMAIN inputs : inputs[k].turn # t => k \in rest
        OBVIOUS
      <3> HIDE DEF rest
      <3>2. CASE inputs' = Entries(inputs, rest)
        BY <1>2, <3>1, <3>2, EntriesData
      <3>3. CASE inputs' = inputs
        BY <3>3
      <3> QED BY <1>1, <3>2, <3>3
    <2> HIDE DEF stay, rest
    <2>2. Covered(app, inputs, answered)
      BY DEF Safe, Settling
    <2>3. app.steering = "settles" =>
             \A k \in DOMAIN inputs :
                \/ inputs[k].prompt \in answered'
                \/ \E m \in DOMAIN inputs' : inputs'[m] = inputs[k]
                \/ \A i \in stay : \/ app.retained[i].turn # inputs[k].turn
                                   \/ app.retained[i].prompt # inputs[k].prompt
      BY <1>5, <2>1
    <2>4. stay \in SUBSET DOMAIN app.retained
      BY <1>5
    <2>5. app \in AppType /\ a.retained = Entries(app.retained, stay) /\ a.steering = app.steering
      BY <1>2, <1>4
    <2> QED BY <1>6, <2>2, <2>3, <2>4, <2>5, CoveredLess
  <1> QED BY <1>1, <1>2, <1>6, <1>11, <1>12, StepSafe DEF Keeps

(* What the server reports of a turn leaves the prompts where they are. *)
LEMMA StreamSafe ==
    ASSUME Firm, Safe, misled = {}, NEW t \in running \cup over, Stream(t)
    PROVE  Safe'
  <1>1. /\ app \in AppType /\ Sound /\ t \in Nat \ {None} /\ TurnSession(app, t) \in Sessions
        /\ UNCHANGED <<inputs, typed, answered>>
    <2>1. UNCHANGED <<inputs, typed, answered>>
      BY DEF Stream, serverVars
    <2> QED BY <2>1, TurnsKnown DEF Firm
  <1>2. \E a \in AppType : /\ a.gate = app.gate /\ a.queue = app.queue /\ SameSteers(app, a)
                           /\ Keeps(a)
    <2>1. CASE Keeps(Delta(app, t))
      <3> DEFINE a == Delta(app, t)
      <3>1. /\ a \in AppType
            /\ a = app \/ Withheld(app, a) \/ (Bound(app, a, t) /\ a.gate = app.gate)
        BY <1>1, DeltaData
      <3>2. Keeps(a)
        BY <2>1
      <3> HIDE DEF a
      <3>3. a.gate = app.gate /\ a.queue = app.queue /\ SameSteers(app, a)
        BY <3>1 DEF Withheld, Bound, SameSteers
      <3> QED BY <3>1, <3>2, <3>3
    <2>2. CASE Keeps(Tool(app, t))
      <3> DEFINE a == Tool(app, t)
      <3>1. a \in AppType /\ a.gate = app.gate /\ a.queue = app.queue /\ SameSteers(app, a)
        BY <1>1, ToolData DEF Apart
      <3>2. Keeps(a)
        BY <2>2
      <3> HIDE DEF a
      <3> QED BY <3>1, <3>2
    <2> QED BY <2>1, <2>2 DEF Stream
  <1> PICK a \in AppType : /\ a.gate = app.gate /\ a.queue = app.queue /\ SameSteers(app, a)
                           /\ Keeps(a)
    BY <1>2
  <1>3. Saves(app, a, answered)
    BY SavesSame, SavesMore
  <1>4. Covered(a, inputs, answered)
    BY CoveredSame DEF SameSteers, Safe, Settling
  <1> QED BY <1>1, <1>3, <1>4, StepSafe DEF Keeps

(* The inputs change, and the retained steers do not. *)
LEMMA CoveredNext ==
    ASSUME NEW a, NEW b, b.retained = a.retained, b.steering = a.steering,
           NEW q, NEW r, NEW Z, NEW Y, Z \subseteq Y, Covered(a, q, Z),
           \A k \in DOMAIN q : q[k].prompt \in Y \/ \E m \in DOMAIN r : r[m] = q[k]
    PROVE  Covered(b, r, Y)
  <1> SUFFICES ASSUME a.steering = "settles", NEW j \in DOMAIN a.retained
               PROVE  \/ a.retained[j].prompt \in Y
                      \/ \E i \in DOMAIN r : /\ r[i].turn = a.retained[j].turn
                                             /\ r[i].prompt = a.retained[j].prompt
    BY DEF Covered
  <1>1. \/ a.retained[j].prompt \in Z
        \/ \E k \in DOMAIN q : /\ q[k].turn = a.retained[j].turn
                               /\ q[k].prompt = a.retained[j].prompt
    BY DEF Covered
  <1> QED BY <1>1

(* A steer is consumed: the echo of its row, if any, removes the retained one. *)
LEMMA ConsumeSafe ==
    ASSUME Firm, Safe, misled = {}, ConsumeSteer
    PROVE  Safe'
  <1> DEFINE p0 == Head(inputs).prompt
             Z == answered \cup {p0}
  <1>1. /\ inputs # <<>> /\ inputs' = Tail(inputs) /\ typed' = typed /\ answered' = Z
        /\ Keeps(Echo(app, p0)) \/ Keeps(app)
    BY DEF ConsumeSteer
  <1>2. /\ app \in AppType /\ Sound /\ inputs \in Seq([turn : Nat, prompt : Nat])
    BY TurnsKnown DEF Firm, Sound, ServerSound
  <1>3. /\ answered \subseteq Z /\ {p0} \subseteq Z
        /\ \A k \in DOMAIN inputs : \/ inputs[k].prompt \in Z
                                    \/ \E m \in DOMAIN inputs' : inputs'[m] = inputs[k]
    <2>1. /\ Len(inputs) \in Nat /\ DOMAIN inputs = 1..Len(inputs) /\ Head(inputs) = inputs[1]
          /\ DOMAIN inputs' = 1..(Len(inputs) - 1)
          /\ \A i \in 1..(Len(inputs) - 1) : inputs'[i] = inputs[i + 1]
      BY <1>1, <1>2, HeadTailProperties
    <2>2. \A k \in DOMAIN inputs :
             k # 1 => k - 1 \in DOMAIN inputs' /\ inputs'[k - 1] = inputs[k]
      BY <2>1
    <2>3. inputs[1].prompt \in Z
      BY <2>1
    <2> QED BY <2>2, <2>3
  <1>4. Covered(app, inputs, answered)
    BY DEF Safe, Settling
  <1>5. CASE Keeps(Echo(app, p0))
    <2> DEFINE a == Echo(app, p0)
               kept == Unechoed(app, p0)
    <2>1. /\ a \in AppType /\ a.retained = Entries(app.retained, kept)
          /\ a.steering = app.steering
      BY <1>2, EchoFewer DEF Returned, Unsubmitted
    <2>2. Saves(app, a, {p0})
      BY <1>2, EchoSaves
    <2>3. Run(a, wire)
      BY <1>5 DEF Keeps
    <2> HIDE DEF p0, Z, a
    <2>4. Saves(app, a, Z)
      BY <1>3, <2>2, SavesMore
    <2>5. kept \in SUBSET DOMAIN app.retained
      BY DEF Unechoed
    <2>6. app.steering = "settles" =>
             \A k \in DOMAIN inputs :
                \/ inputs[k].prompt \in Z
                \/ \E m \in DOMAIN inputs' : inputs'[m] = inputs[k]
                \/ \A i \in kept : \/ app.retained[i].turn # inputs[k].turn
                                   \/ app.retained[i].prompt # inputs[k].prompt
      BY <1>3
    <2> HIDE DEF kept
    <2>7. Covered(a, inputs', Z)
      <3>1. app \in AppType /\ answered \subseteq Z
        BY <1>2, <1>3
      <3> QED BY <1>4, <2>1, <2>5, <2>6, <3>1, CoveredLess
    <2> QED BY <1>1, <1>2, <1>3, <2>1, <2>3, <2>4, <2>7, StepSafe
  <1>6. CASE Keeps(app)
    <2> HIDE DEF p0, Z
    <2>1. Covered(app, inputs', Z)
      BY <1>3, <1>4, CoveredNext
    <2>2. Saves(app, app, Z)
      BY DEF Saves
    <2> QED BY <1>1, <1>2, <1>3, <1>6, <2>1, <2>2, StepSafe DEF Keeps
  <1> QED BY <1>1, <1>5, <1>6

(* The server returns what the turn t has not consumed. *)
LEMMA DropSafe ==
    ASSUME Firm, Placed, Safe, misled = {}, NEW t, DropSteers(t)
    PROVE  Safe'
  <1> DEFINE ps == {inputs[i].prompt : i \in PendingInputs(t)}
             rest == {i \in DOMAIN inputs : inputs[i].turn # t}
             a == SteersDropped(app, t, ps)
             kept == Undropped(app, t, ps)
  <1>1. /\ PendingInputs(t) # {} /\ inputs' = Entries(inputs, rest) /\ Keeps(a)
        /\ typed' = typed /\ answered' = answered
    BY DEF DropSteers, Select
  <1>2. /\ app \in AppType /\ Sound /\ inputs \in Seq([turn : Nat, prompt : Nat])
        /\ running \subseteq DOMAIN app.turns
        /\ \A x \in DOMAIN app.turns : TurnSession(app, x) \in Sessions
    BY TurnsKnown DEF Firm, Sound, ServerSound
  <1>3. Fed(app, inputs, running, answered)
    BY DEF Placed, Clear
  <1>4. t \in running /\ TurnSession(app, t) \in Sessions
    BY <1>1, <1>2, <1>3 DEF Fed, PendingInputs
  <1>5. \A k \in DOMAIN inputs : inputs[k].turn = t => inputs[k].prompt \in ps
    BY DEF PendingInputs
  <1> HIDE DEF ps
  <1>6. a \in AppType /\ Returned(app, a) /\ Saves(app, a, {})
    BY <1>2, <1>4, SteersDroppedData, SteersDroppedSaves
  <1>7. a.retained = Entries(app.retained, kept)
    BY <1>2 DEF SteersDropped, Select, AppType, Undropped
  <1> HIDE DEF a
  <1>8. /\ kept \in SUBSET DOMAIN app.retained
        /\ \A i \in kept : ~(app.retained[i].turn = t /\ app.retained[i].prompt \in ps)
    BY DEF Undropped
  <1>9. rest \in SUBSET DOMAIN inputs /\ \A k \in DOMAIN inputs : inputs[k].turn # t => k \in rest
    OBVIOUS
  <1> HIDE DEF kept, rest
  <1>10. \A k \in rest : \E m \in DOMAIN inputs' : inputs'[m] = inputs[k]
    BY <1>1, <1>2, <1>9, EntriesData
  <1>11. app.steering = "settles" =>
            \A k \in DOMAIN inputs :
               \/ inputs[k].prompt \in answered
               \/ \E m \in DOMAIN inputs' : inputs'[m] = inputs[k]
               \/ \A i \in kept : \/ app.retained[i].turn # inputs[k].turn
                                  \/ app.retained[i].prompt # inputs[k].prompt
    BY <1>5, <1>8, <1>9, <1>10
  <1>12. Covered(app, inputs, answered) /\ a.steering = app.steering
    BY <1>6 DEF Safe, Settling, Returned, Unsubmitted
  <1>13. Covered(a, inputs', answered)
    BY <1>2, <1>7, <1>8, <1>11, <1>12, CoveredLess
  <1>14. Saves(app, a, answered)
    BY <1>6, SavesMore
  <1>15. Covered(a, inputs', answered') /\ Saves(app, a, answered') /\ answered \subseteq answered'
    BY <1>1, <1>13, <1>14
  <1> QED BY <1>1, <1>2, <1>6, <1>15, StepSafe DEF Keeps

-----------------------------------------------------------------------------
(* The child. *)

LEMMA Mortal ==
    ASSUME Sound, Outlived, "death" \in server.kinds
    PROVE  app.steering # "settles"
  <1>1. server \in Servers /\ app.steering = server.steering
    BY DEF Sound, BudgetSound, StoreSound
  <1> QED BY <1>1 DEF Outlived

LEMMA LinkSafe ==
    ASSUME Sound, Outlived, Safe, misled = {}, LinkDies \/ LinkBoots \/ LinkOpens
    PROVE  Safe'
  <1>1. CASE LinkDies
    <2>1. app' = app /\ typed' = typed /\ answered' = answered /\ "death" \in server.kinds
      BY <1>1 DEF LinkDies, Fault
    <2>2. app'.steering # "settles"
      BY <2>1, Mortal
    <2> QED BY <2>1, <2>2 DEF Safe, Saved, Settling, Covered, Prompts
  <1>2. CASE LinkBoots \/ LinkOpens
    <2>1. UNCHANGED <<app, inputs, typed, answered>>
      BY <1>2 DEF LinkBoots, LinkOpens, serverVars
    <2> QED BY <2>1, StillSafe
  <1> QED BY <1>1, <1>2

(* A cancelled request. *)
LEMMA CancelledSaves ==
    ASSUME Sound, NEW c \in CmdType, c.kind \in Requests, c.kind = "steer" => app.stash # <<>>
    PROVE  LET b == Cancelled(app, c)
           IN  b \in AppType /\ Saves(app, b, {}) /\ b.steering = app.steering
  <1> DEFINE b == Cancelled(app, c)
  <1> SUFFICES b \in AppType /\ Saves(app, b, {}) /\ b.steering = app.steering
    OBVIOUS
  <1>1. /\ app \in AppType /\ Fit(app, app.turns)
        /\ \A x \in DOMAIN app.turns : TurnSession(app, x) \in Sessions
    BY TurnsKnown
  <1>2. CASE c.kind = "start"
    <2> DEFINE d == StartCancelled(app)
    <2>1. b = d /\ d \in AppType /\ BackedOff(app, d, Sessions) /\ Saves(app, d, {})
      BY <1>1, <1>2, StartCancelledData, SendRefusedSaves DEF Cancelled
    <2> HIDE DEF b, d
    <2> QED BY <2>1 DEF BackedOff, Apart, SameSteers
  <1>3. CASE c.kind = "steer"
    <2> DEFINE d == SteerFailed(app)
    <2>1. b = d
      BY <1>3 DEF Cancelled
    <2>2. TurnSession(app, Head(app.stash).turn) \in Sessions
      <3>1. app.stash \in Seq(SteerType) /\ app.stash # <<>>
        BY <1>1, <1>3, Fields DEF Stashes
      <3>2. Head(app.stash) = app.stash[1] /\ 1 \in DOMAIN app.stash
        BY <3>1, HeadTailProperties
      <3>3. app.stash[1].turn \in DOMAIN app.turns
        BY <1>1, <3>2 DEF Fit, Refs
      <3> QED BY <1>1, <3>2, <3>3
    <2>3. d \in AppType /\ Popped(app, d) /\ Saves(app, d, {})
      BY <1>1, <1>3, <2>2, SteerFailedData, SteerFailedSaves
    <2> HIDE DEF b, d
    <2> QED BY <2>1, <2>3 DEF Popped
  <1>4. CASE c.kind = "hydrate"
    <2> DEFINE h == [app EXCEPT !.hydrating = @ \ {c.sess}]
               d == Failed(h)
    <2>1. b = d
      BY <1>4 DEF Cancelled
    <2>2. h \in AppType /\ Apart(app, h) /\ h.queue = app.queue /\ h.gate = app.gate
      BY <1>1, HydratingData
    <2> HIDE DEF h
    <2>3. d \in AppType /\ Apart(h, d) /\ d.queue = h.queue /\ d.gate = h.gate
      BY <2>2, FailedData
    <2> HIDE DEF b, d
    <2>4. d.gate = app.gate /\ d.queue = app.queue /\ SameSteers(app, d)
      BY <2>2, <2>3 DEF Apart, SameSteers
    <2> QED BY <2>1, <2>3, <2>4, SavesSame DEF SameSteers
  <1>5. CASE c.kind = "interrupt"
    <2> DEFINE d == Failed(app)
    <2>1. b = d /\ d \in AppType /\ Apart(app, d) /\ d.queue = app.queue /\ d.gate = app.gate
      BY <1>1, <1>5, FailedData DEF Cancelled
    <2> HIDE DEF b, d
    <2> QED BY <2>1, SavesSame DEF Apart, SameSteers
  <1> QED BY <1>2, <1>3, <1>4, <1>5 DEF Requests

(* An event of the child is read: it can die, so its server settles nothing. *)
LEMMA ReadSafe ==
    ASSUME Firm, Outlived, Alive, Safe, misled = {}, ReadInbox
    PROVE  Safe'
  <1> DEFINE e == Head(inbox)
             a == CASE e.event = "cancelled" -> Cancelled(app, e.cmd)
                    [] e.event = "epoch" -> [app EXCEPT !.conn = @ + 1]
                    [] e.event = "relaunched" -> Relaunched(app)
  <1>1. /\ inbox # <<>> /\ Run(a, wire) /\ UNCHANGED <<inputs, typed, answered>>
    BY DEF ReadInbox, Keeps, serverVars
  <1>2. /\ Fit(app, app.turns) /\ app \in AppType /\ Phase /\ Sound /\ app.stash \in Stashes
        /\ inbox \in Seq(EventType) /\ Lines(inbox, wire, app.turns, app.stash)
        /\ \A x \in DOMAIN app.turns : TurnSession(app, x) \in Sessions
    BY TurnsKnown, Fields DEF Firm, Sound, LinesSound, Lines
  <1>3. app.steering # "settles"
    BY <1>1, <1>2, Mortal DEF Alive
  <1>4. e \in EventType /\ SoundEvent(e) /\ (e.cmd.kind = "steer" => app.stash # <<>>)
    <2>1. e = Head(inbox)
      OBVIOUS
    <2> HIDE DEF e
    <2> QED BY <1>1, <1>2, <2>1, LinesRead
  <1> SUFFICES a \in AppType /\ Saves(app, a, {}) /\ a.steering # "settles"
    <2> HIDE DEF a
    <2>1. Covered(a, inputs, answered) /\ Saves(app, a, answered)
      BY SavesMore DEF Covered
    <2> QED BY <1>1, <1>2, <2>1, StepSafe
  <1>5. CASE e.event = "cancelled"
    <2>1. a = Cancelled(app, e.cmd)
      BY <1>5
    <2>2. e.cmd \in CmdType /\ e.cmd.kind \in Requests
      BY <1>4, <1>5 DEF EventType, SoundEvent
    <2> HIDE DEF a, e
    <2> QED BY <1>2, <1>3, <1>4, <2>1, <2>2, CancelledSaves
  <1>6. CASE e.event = "epoch"
    <2> DEFINE b == [app EXCEPT !.conn = @ + 1]
    <2>1. a = b
      BY <1>6
    <2>2. /\ b \in AppType /\ SameSteers(app, b) /\ b.gate = app.gate /\ b.queue = app.queue
      BY <1>2, EpochData
    <2> HIDE DEF a, b
    <2> QED BY <1>3, <2>1, <2>2, SavesSame DEF SameSteers
  <1>7. CASE e.event = "relaunched"
    <2> DEFINE b == Relaunched(app)
    <2>1. a = b
      BY <1>7
    <2>2. Fit(b, app.turns) /\ Plain(app, b) /\ b \in AppType
      BY <1>2, RelaunchedFit DEF Fit
    <2>3. \A i \in DOMAIN app.retained : TurnSession(app, app.retained[i].turn) \in Sessions
      BY <1>2 DEF Fit, Refs
    <2>4. Saves(app, b, {})
      BY <1>2, <1>3, <2>3, RelaunchedSaves
    <2> HIDE DEF a, b
    <2> QED BY <1>3, <2>1, <2>2, <2>4 DEF Plain
  <1> QED BY <1>4, <1>5, <1>6, <1>7 DEF EventType

LEMMA NextSafe ==
    ASSUME ~BusyBoots, Outlived, Firm, Placed, Alive, Guarded, Safe, [Next]_vars
    PROVE  Safe'
  <1> SUFFICES ASSUME misled' = {} PROVE Safe'
    BY DEF Safe, Saved, Settling
  <1>0. /\ misled = {} /\ ~RefuseStart /\ ~StartForSteer /\ \A s \in Sessions : ~StartOwnTurn(s)
        /\ \A kind \in {"error", "cap"} : ~OtherRequestFails(kind) /\ Sound
    BY MisledGrows DEF Firm
  <1>1. CASE User \/ Clock
    <2>1. CASE \E s \in Sessions : MarkerAges(s) \/ GateAges(s)
      BY <1>0, <2>1, AgesSafe
    <2>2. CASE User \/ \E due \in BOOLEAN : Tick(due)
      BY <1>0, <2>2, UserSafe
    <2> QED BY <1>1, <2>1, <2>2 DEF Clock
  <1>2. CASE ServerSteps
    <2>1. CASE AcceptStart \/ DropStart \/ TakeInterrupt \/ AcceptSteer \/ RefuseSteer
      BY <1>0, <2>1, AnswerSafe
    <2>2. CASE ConsumeSteer \/ \E t \in running : DropSteers(t)
      BY <1>0, <2>2, ConsumeSafe, DropSafe
    <2>3. CASE \E stale \in (over \cap app.done) \cup {None} : AnswerHydrate(stale)
      BY <1>0, <2>3, HydrateSafe
    <2>4. CASE \/ \E t \in accepted : RejectTurn(t)
               \/ \E t \in running : Abort(t)
               \/ \E t \in running, o \in {"success", "error", "idle"} : Complete(t, o)
      BY <1>0, <2>4, EndsSafe
    <2>5. CASE \E t \in accepted : StartTurn(t)
      BY <1>0, <2>5, StartTurnSafe
    <2>6. CASE \E t \in running \cup over : Stream(t)
      BY <1>0, <2>6, StreamSafe
    <2> QED BY <1>0, <1>2, <2>1, <2>2, <2>3, <2>4, <2>5, <2>6 DEF ServerSteps
  <1>3. CASE LinkDies \/ LinkBoots \/ LinkOpens
    BY <1>0, <1>3, LinkSafe
  <1>4. CASE ReadInbox
    BY <1>0, <1>4, ReadSafe
  <1>5. CASE UNCHANGED vars
    <2>1. UNCHANGED <<app, inputs, typed, answered>>
      BY <1>5 DEF vars
    <2> QED BY <1>0, <2>1, StillSafe
  <1> QED BY <1>1, <1>2, <1>3, <1>4, <1>5 DEF Next

LEMMA InitSafe == Init => Safe
  <1> SUFFICES ASSUME Init PROVE Safe
    OBVIOUS
  <1>1. typed = <<>> /\ app.retained = <<>>
    BY DEF Init
  <1>2. Prompts = {} /\ DOMAIN app.retained = {}
    BY <1>1 DEF Prompts
  <1> QED BY <1>2 DEF Safe, Saved, Settling, Covered

LEMMA NextAlive ==
    ASSUME Alive, [Next]_vars
    PROVE  Alive'
  <1> SUFFICES ASSUME "death" \notin server'.kinds PROVE link' = "up" /\ inbox' = <<>>
    BY DEF Alive
  <1>1. server' = server
    <2>1. CASE User \/ Clock
      BY <2>1 DEF User, Clock, TypePrompt, UserInterrupts, SendPendingNow, UserSwitches, Tick,
             Acts, MarkerAges, GateAges, budgetVars
    <2>2. CASE ServerSteps
      <3>1. CASE AcceptStart \/ DropStart \/ AcceptSteer \/ RefuseSteer \/ TakeInterrupt
                 \/ ConsumeSteer \/ RefuseStart \/ StartForSteer
        BY <3>1 DEF AcceptStart, DropStart, AcceptSteer, RefuseSteer, TakeInterrupt,
               ConsumeSteer, RefuseStart, StartForSteer, budgetVars
      <3>2. CASE \/ \E stale \in (over \cap app.done) \cup {None} : AnswerHydrate(stale)
                 \/ \E t \in accepted : StartTurn(t) \/ RejectTurn(t)
                 \/ \E t \in running \cup over : Stream(t)
                 \/ \E s \in Sessions : StartOwnTurn(s)
        BY <3>2 DEF AnswerHydrate, StartTurn, RejectTurn, Stream, StartOwnTurn, budgetVars
      <3>3. CASE \/ \E t \in running : DropSteers(t) \/ Abort(t)
                 \/ \E t \in running, o \in {"success", "error", "idle"} : Complete(t, o)
                 \/ \E kind \in {"error", "cap"} : OtherRequestFails(kind)
        BY <3>3 DEF DropSteers, Abort, Complete, Ends, OtherRequestFails, budgetVars
      <3> QED BY <2>2, <3>1, <3>2, <3>3 DEF ServerSteps
    <2>3. CASE LinkDies \/ LinkBoots \/ LinkOpens \/ ReadInbox
      BY <2>3 DEF LinkDies, LinkBoots, LinkOpens, ReadInbox, budgetVars
    <2>4. CASE UNCHANGED vars
      BY <2>4 DEF vars
    <2> QED BY <2>1, <2>2, <2>3, <2>4 DEF Next
  <1>2. link = "up" /\ inbox = <<>> /\ "death" \notin server.kinds
    BY <1>1 DEF Alive
  <1>3. ~LinkDies /\ ~LinkBoots /\ ~LinkOpens /\ ~ReadInbox
    BY <1>2 DEF LinkDies, LinkBoots, LinkOpens, ReadInbox, Fault
  <1>4. UNCHANGED <<link, inbox>>
    <2>1. CASE User \/ Clock
      BY <2>1 DEF User, Clock, TypePrompt, UserInterrupts, SendPendingNow, UserSwitches, Tick,
             Acts, MarkerAges, GateAges
    <2>2. CASE ServerSteps
      <3>1. CASE AcceptStart \/ DropStart \/ AcceptSteer \/ RefuseSteer \/ TakeInterrupt
                 \/ ConsumeSteer \/ RefuseStart \/ StartForSteer
        BY <3>1 DEF AcceptStart, DropStart, AcceptSteer, RefuseSteer, TakeInterrupt,
               ConsumeSteer, RefuseStart, StartForSteer
      <3>2. CASE \/ \E stale \in (over \cap app.done) \cup {None} : AnswerHydrate(stale)
                 \/ \E t \in accepted : StartTurn(t) \/ RejectTurn(t)
                 \/ \E t \in running \cup over : Stream(t)
                 \/ \E s \in Sessions : StartOwnTurn(s)
        BY <3>2 DEF AnswerHydrate, StartTurn, RejectTurn, Stream, StartOwnTurn
      <3>3. CASE \/ \E t \in running : DropSteers(t) \/ Abort(t)
                 \/ \E t \in running, o \in {"success", "error", "idle"} : Complete(t, o)
                 \/ \E kind \in {"error", "cap"} : OtherRequestFails(kind)
        BY <3>3 DEF DropSteers, Abort, Complete, Ends, OtherRequestFails
      <3> QED BY <2>2, <3>1, <3>2, <3>3 DEF ServerSteps
    <2>3. CASE UNCHANGED vars
      BY <2>3 DEF vars
    <2> QED BY <1>3, <2>1, <2>2, <2>3 DEF Next
  <1> QED BY <1>2, <1>4

LEMMA AlwaysAlive == Spec => []Alive
  <1>1. Init => Alive
    BY DEF Init, Alive
  <1> QED BY <1>1, NextAlive, PTL DEF Spec

-----------------------------------------------------------------------------
(* One session: until the store is misled, a gate in flight is beside no     *)
(* live reply, under a working run state; and a working run state without a  *)
(* live reply is that of a gate in flight, so that nothing takes it for a    *)
(* phantom.                                                                 *)

Armed(a) == a.gate[Home].turn # None

Poised(a) ==
    /\ Armed(a) => a.live[Home] = None /\ a.run = "working"
    /\ a.run = "working" /\ a.live[Home] = None => Armed(a) /\ a.pre[Home] # "none"

(* Every interrupt is followed by a start: one whose answer repaints the run *)
(* state of a gate in flight comes before the answer that re-stages it.      *)
Followed(w) ==
    \A i \in DOMAIN w : w[i].kind = "interrupt" =>
        \E j \in DOMAIN w : i < j /\ w[j].kind = "start"

Unhydrated(w) == \A i \in DOMAIN w : w[i].kind # "hydrate"

Starting(w) == \E i \in DOMAIN w : w[i].kind = "start"

Lone ==
    misled = {} =>
        /\ Armed(app) =>
              /\ app.live[Home] = None
              /\ app.run = "working" \/ Starting(CmdsOf(inbox))
              /\ Followed(wire) /\ Followed(CmdsOf(inbox))
        /\ app.run = "working" /\ app.live[Home] = None => Armed(app) /\ app.pre[Home] # "none"
        /\ Unhydrated(wire) /\ Unhydrated(CmdsOf(inbox))

LEMMA LoneGuarded ==
    ASSUME Sessions = {Home}, Lone
    PROVE  Guarded
  <1>1. inbox = <<>> => ~Starting(CmdsOf(inbox))
    BY DEF Starting, CmdsOf
  <1> QED BY <1>1 DEF Guarded, Lone, Armed

LEMMA LonePoised ==
    ASSUME Lone, misled = {}, inbox = <<>>
    PROVE  Poised(app)
  <1>1. ~Starting(CmdsOf(inbox))
    BY DEF Starting, CmdsOf
  <1> QED BY <1>1 DEF Lone, Poised

LEMMA FollowedTail ==
    ASSUME NEW S, NEW w \in Seq(S), w # <<>>
    PROVE  /\ Followed(w) => Followed(Tail(w))
           /\ Unhydrated(w) => Unhydrated(Tail(w))
           /\ Starting(w) => Head(w).kind = "start" \/ Starting(Tail(w))
           /\ Followed(w) /\ Head(w).kind = "interrupt" => Starting(Tail(w))
  <1> DEFINE r == Tail(w)
             n == Len(w)
  <1>1. /\ n \in Nat /\ DOMAIN w = 1..n /\ Head(w) = w[1]
        /\ DOMAIN r = 1..(n - 1) /\ \A i \in 1..(n - 1) : r[i] = w[i + 1]
    BY HeadTailProperties
  <1> HIDE DEF r, n
  <1>2. \A i \in DOMAIN r : i \in Int /\ i + 1 \in DOMAIN w /\ r[i] = w[i + 1]
    BY <1>1
  <1>3. \A j \in DOMAIN w : j \in Int /\ (j # 1 => 1 < j /\ j - 1 \in DOMAIN r /\ r[j - 1] = w[j])
    BY <1>1
  <1>4. Followed(w) => Followed(r)
    <2> SUFFICES ASSUME Followed(w), NEW i \in DOMAIN r, r[i].kind = "interrupt"
                 PROVE  \E j \in DOMAIN r : i < j /\ r[j].kind = "start"
      BY DEF Followed
    <2>1. PICK j \in DOMAIN w : i + 1 < j /\ w[j].kind = "start"
      BY <1>2 DEF Followed
    <2>2. j # 1 /\ i < j - 1
      BY <1>1, <1>2, <1>3, <2>1
    <2> QED BY <1>3, <2>1, <2>2
  <1>5. Unhydrated(w) => Unhydrated(r)
    BY <1>2 DEF Unhydrated
  <1>6. Starting(w) => w[1].kind = "start" \/ Starting(r)
    BY <1>3 DEF Starting
  <1>7. Followed(w) /\ w[1].kind = "interrupt" => Starting(r)
    <2> SUFFICES ASSUME Followed(w), w[1].kind = "interrupt" PROVE Starting(r)
      OBVIOUS
    <2>1. 1 \in DOMAIN w
      BY <1>1
    <2>2. PICK j \in DOMAIN w : 1 < j /\ w[j].kind = "start"
      BY <2>1 DEF Followed
    <2> QED BY <1>3, <2>2 DEF Starting
  <1> QED BY <1>1, <1>4, <1>5, <1>6, <1>7 DEF r

LEMMA FollowedAppend ==
    ASSUME NEW S, NEW w \in Seq(S), NEW c \in S
    PROVE  /\ c.kind = "start" => Followed(Append(w, c))
           /\ Unhydrated(w) /\ c.kind # "hydrate" => Unhydrated(Append(w, c))
  <1> DEFINE r == Append(w, c)
             n == Len(w)
  <1>1. /\ n \in Nat /\ DOMAIN w = 1..n /\ DOMAIN r = 1..(n + 1) /\ r[n + 1] = c
        /\ \A i \in 1..n : r[i] = w[i]
    BY AppendProperties
  <1> HIDE DEF r, n
  <1>2. Unhydrated(w) /\ c.kind # "hydrate" => Unhydrated(r)
    BY <1>1 DEF Unhydrated
  <1>3. ASSUME c.kind = "start", NEW i \in DOMAIN r, r[i].kind = "interrupt"
        PROVE  \E j \in DOMAIN r : i < j /\ r[j].kind = "start"
    <2>1. i # n + 1
      BY <1>1, <1>3
    <2>2. n + 1 \in DOMAIN r /\ i < n + 1
      BY <1>1, <2>1
    <2> QED BY <1>1, <1>3, <2>2
  <1>4. c.kind = "start" => Followed(r)
    BY <1>3 DEF Followed
  <1> QED BY <1>2, <1>4 DEF r

(* What a handler issues: no hydrate; and beside a gate in flight only the   *)
(* start it is for, or nothing if it was in flight before.                  *)
Answers(a, b) ==
    \/ b.out = a.out /\ (Armed(b) => Armed(a))
    \/ \E c \in CmdType : /\ b.out = Append(a.out, c) /\ c.kind # "hydrate"
                          /\ Armed(b) => c.kind = "start"

(* A command the transport refuses takes the gate with it. *)
LEMMA RefusedUnarmed ==
    ASSUME Sessions = {Home}, app.turns \in TurnTables, NEW a \in AppType, NEW w, Run(a, w),
           link = "down", a.out # <<>>
    PROVE  ~Armed(app') /\ app'.run = "error"
  <1> DEFINE b == [a EXCEPT !.out = <<>>]
             c == SendRefused(b)
             d == [c EXCEPT !.turns = app.turns]
  <1>1. app' = d /\ b \in AppType
    BY HandedOver DEF Run
  <1> HIDE DEF b
  <1>2. c \in AppType /\ BackedOff(b, c, {b.sel})
    BY <1>1, SendRefusedData
  <1> HIDE DEF c
  <1>3. d.gate = c.gate /\ d.run = c.run
    BY <1>2 DEF AppType
  <1> HIDE DEF d
  <1>4. b.sel = Home /\ b.gate[Home] \in GateType
    BY <1>1, Fields DEF Gates
  <1>5. c.gate[Home] = Backoff \/ (c.gate[Home] = b.gate[Home] /\ ~b.gate[Home].set)
    BY <1>2, <1>4 DEF BackedOff, Gated
  <1>6. c.gate[Home].turn = None
    BY <1>4, <1>5 DEF Backoff, GateType, NoGate
  <1> QED BY <1>1, <1>2, <1>3, <1>6 DEF BackedOff, Armed

LEMMA LoneStep ==
    ASSUME Sessions = {Home}, Sound, Lone, misled = {}, NEW a \in AppType, Poised(a),
           Answers(app, a), NEW w, w = wire \/ (wire # <<>> /\ w = Tail(wire)), Run(a, w),
           inbox' = <<>>
    PROVE  Lone'
  <1>1. /\ app.out = <<>> /\ app.turns \in TurnTables /\ wire \in Seq(CmdType)
        /\ a.out \in Seq(CmdType) /\ w \in Seq(CmdType)
    <2>1. app.out = <<>>
      BY DEF Sound, StoreSound
    <2>2. app.turns \in TurnTables /\ wire \in Seq(CmdType)
      BY TurnsKnown
    <2>3. a.out \in Seq(CmdType)
      BY Fields DEF Outputs
    <2>4. w \in Seq(CmdType)
      BY <2>2
    <2> QED BY <2>1, <2>2, <2>3, <2>4
  <1>2. Unhydrated(w) /\ (Armed(app) => Followed(w))
    BY <1>1, FollowedTail DEF Lone
  <1>3. Followed(CmdsOf(inbox')) /\ Unhydrated(CmdsOf(inbox')) /\ ~Starting(CmdsOf(inbox'))
    BY DEF Followed, Unhydrated, Starting, CmdsOf
  <1> SUFFICES Poised(app') /\ Unhydrated(wire') /\ (Armed(app') => Followed(wire'))
    BY <1>3 DEF Lone, Poised
  <1>4. CASE link = "down" /\ a.out # <<>>
    <2>1. ~Armed(app') /\ app'.run = "error" /\ wire' = w
      BY <1>1, <1>4, RefusedUnarmed, RunLatch
    <2> QED BY <1>2, <2>1 DEF Poised
  <1>5. CASE link # "down" \/ a.out = <<>>
    <2>1. /\ app'.gate = a.gate /\ app'.live = a.live /\ app'.run = a.run /\ app'.pre = a.pre
          /\ link # "down" => wire' = w \o a.out
          /\ link = "down" => wire' = w
      BY <1>1, <1>5, RunLatch DEF SameLatch
    <2>2. Poised(app') /\ (Armed(app') <=> Armed(a))
      BY <2>1 DEF Poised, Armed
    <2>3. CASE a.out = <<>>
      <3>1. wire' = w
        BY <1>1, <2>1, <2>3, ConcatEmptySeq
      <3>2. Armed(a) => Armed(app)
        <4>1. ASSUME NEW c \in CmdType PROVE Append(app.out, c) # <<>>
          BY <1>1
        <4> QED BY <2>3, <4>1 DEF Answers
      <3> QED BY <1>2, <2>2, <3>1, <3>2
    <2>4. CASE a.out # <<>>
      <3>1. PICK c \in CmdType : /\ a.out = Append(<<>>, c) /\ c.kind # "hydrate"
                                 /\ Armed(a) => c.kind = "start"
        BY <1>1, <2>4 DEF Answers
      <3>2. wire' = Append(w, c)
        <4>1. w \o Append(<<>>, c) = Append(w, c)
          BY <1>1
        <4> QED BY <1>5, <2>1, <2>4, <3>1, <4>1
      <3> QED BY <1>1, <1>2, <2>2, <3>1, <3>2, FollowedAppend
    <2> QED BY <2>3, <2>4
  <1> QED BY <1>4, <1>5

LEMMA PoisedSame ==
    ASSUME NEW a, NEW b, b.gate = a.gate, b.live = a.live, b.run = a.run, b.pre = a.pre, Poised(a)
    PROVE  Poised(b) /\ (Armed(b) <=> Armed(a))
  BY DEF Poised, Armed

LEMMA AnswersThen ==
    ASSUME NEW a, NEW c, NEW b, c.out = a.out, Armed(c) => Armed(a), Answers(c, b)
    PROVE  Answers(a, b)
  BY DEF Answers

LEMMA AnswersStart ==
    ASSUME Sessions = {Home}, NEW a \in AppType, NEW c, c.out = a.out, c.turns = a.turns,
           c.sel = a.sel, NEW b, NEW p, Submitted(c, b, p)
    PROVE  /\ Answers(a, b) /\ Armed(b) /\ b.pre[Home] = "fresh" /\ b.out # a.out
           /\ b.turns # a.turns
  <1>1. a.sel = Home /\ a.turns \in TurnTables /\ a.out \in Seq(CmdType) /\ p \in Nat
        /\ a.sel \in Sessions
    BY Fields DEF Outputs, Submitted, PromptNo
  <1>2. Len(a.turns) \in Nat
    BY <1>1, TableFacts
  <1> DEFINE t == Len(a.turns) + 1
             c1 == Cmd("start", a.sel, t, p)
  <1>3. t \in Nat \ {0}
    BY <1>2
  <1>4. c1 \in CmdType /\ c1.kind = "start"
    BY <1>1, <1>3 DEF Cmd, CmdType
  <1>5. b.out = Append(a.out, c1) /\ b.gate[Home] = InFlight(t, p) /\ b.pre[Home] = "fresh"
    BY <1>1 DEF Submitted
  <1>6. b.turns # a.turns
    <2> DEFINE r == [sess |-> a.sel, prompt |-> p]
    <2>1. b.turns = Append(a.turns, r)
      BY DEF Submitted
    <2> HIDE DEF r
    <2>2. Len(Append(a.turns, r)) = Len(a.turns) + 1
      BY <1>1 DEF TurnTables
    <2> QED BY <1>2, <2>1, <2>2
  <1>7. b.gate[Home].turn # None
    BY <1>3, <1>5 DEF InFlight, None
  <1> HIDE DEF c1, t
  <1>8. Append(a.out, c1) # a.out
    <2>1. Len(Append(a.out, c1)) = Len(a.out) + 1 /\ Len(a.out) \in Nat
      BY <1>1, <1>4
    <2> QED BY <2>1
  <1> QED BY <1>4, <1>5, <1>6, <1>7, <1>8 DEF Answers, Armed

LEMMA PoisedDrained ==
    ASSUME Sessions = {Home}, NEW a \in AppType, NEW b \in AppType, Drained(a, b), Poised(a)
    PROVE  Poised(b) /\ Answers(a, b)
  <1>1. a.sel = Home /\ b.live = a.live /\ a.gate[Home] \in GateType
    BY Fields DEF Gates, Drained, Apart, SameLatch
  <1>2. CASE b = a
    BY <1>2 DEF Answers
  <1>3. ASSUME ~DrainBlocked(a), NEW c \in AppType, Apart(a, c),
               Restaged(a, c, Gated(a, {a.sel}), NoGate), b = c \/ HeadSent(c, b)
        PROVE  Poised(b) /\ Answers(a, b)
    <2>1. a.live[Home] = None
      BY <1>1, <1>3 DEF DrainBlocked, Live
    <2>2. CASE b = c
      <3>1. ~Armed(b)
        BY <1>1, <1>3, <2>2 DEF Restaged, Gated, Armed, NoGate, GateType
      <3>2. b.run # "working"
        <4>1. b.run = RestagedRun(a, Gated(a, {a.sel}))
          BY <1>3, <2>2 DEF Restaged
        <4>2. a.run = "working" => a.gate[Home].set /\ a.pre[Home] # "none"
          BY <1>1, <1>3, <2>1 DEF Poised, Armed, GateType, NoGate
        <4> QED BY <1>1, <2>1, <4>1, <4>2 DEF RestagedRun, Gated, Live
      <3>3. b.out = a.out
        BY <1>3, <2>2 DEF Restaged
      <3> QED BY <3>1, <3>2, <3>3 DEF Poised, Answers
    <2>3. CASE HeadSent(c, b)
      <3>1. c.out = a.out /\ c.turns = a.turns /\ c.sel = a.sel
        BY <1>3 DEF Restaged, Apart
      <3>2. Answers(a, b) /\ Armed(b) /\ b.pre[Home] = "fresh" /\ b.turns # a.turns
        BY <2>3, <3>1, AnswersStart DEF HeadSent
      <3>3. b.run = "working"
        BY <3>2 DEF Drained, Unsubmitted
      <3> QED BY <1>1, <2>1, <3>2, <3>3 DEF Poised
    <2> QED BY <1>3, <2>2, <2>3
  <1> QED BY <1>2, <1>3 DEF Drained, Refilled

(* A phantom is none: the gate in flight accounts for the run state. *)
LEMMA PoisedShowsNoPhantom ==
    ASSUME Sessions = {Home}, NEW a \in AppType, Poised(a)
    PROVE  ~Phantom(a)
  <1>1. a.sel = Home /\ a.gate[Home] \in GateType
    BY Fields DEF Gates
  <1> QED BY <1>1 DEF Phantom, Poised, Armed, Live, GateType, NoGate

LEMMA PoisedPrompt ==
    ASSUME Sessions = {Home}, NEW a \in AppType, Poised(a), NEW p \in PromptNo
    PROVE  LET b == Prompt(a, p) IN b \in AppType /\ Poised(b) /\ Answers(a, b)
  <1> DEFINE b == Prompt(a, p)
  <1>1. b \in AppType /\ (Steered(a, b, p) \/ Staged(a, b, p) \/ Sends(a, b, p))
    BY PromptData
  <1> SUFFICES Poised(b) /\ Answers(a, b)
    BY <1>1
  <1> HIDE DEF b
  <1>2. a.sel = Home /\ a.sel \in Sessions /\ p \in Nat
    BY Fields DEF PromptNo
  <1>3. CASE Steered(a, b, p)
    <2> DEFINE c == Cmd("steer", a.sel, Live(a), p)
    <2>1. Live(a) \in Nat
      BY Fields DEF Live, Marks
    <2>2. c \in CmdType /\ c.kind = "steer"
      BY <1>2, <2>1 DEF Cmd, CmdType
    <2>3. b.out = Append(a.out, c)
      BY <1>3 DEF Steered
    <2> HIDE DEF c
    <2>4. /\ b.gate = a.gate /\ b.live = a.live /\ b.run = a.run /\ b.pre = a.pre
          /\ a.live[Home] # None
      BY <1>2, <1>3 DEF Steered, SameLatch, Live
    <2>5. Poised(b) /\ ~Armed(b)
      BY <2>4, PoisedSame DEF Poised
    <2> QED BY <2>2, <2>3, <2>5 DEF Answers
  <1>4. CASE Staged(a, b, p)
    <2>1. /\ b.gate = a.gate /\ b.live = a.live /\ b.run = a.run /\ b.pre = a.pre
          /\ b.out = a.out
      BY <1>4 DEF Staged, Apart, SameLatch, Unsubmitted
    <2>2. Poised(b) /\ (Armed(b) <=> Armed(a))
      BY <2>1, PoisedSame
    <2> QED BY <2>1, <2>2 DEF Answers
  <1>5. CASE Sends(a, b, p)
    <2>1. Answers(a, b) /\ Armed(b) /\ b.pre[Home] = "fresh"
      BY <1>5, AnswersStart DEF Sends
    <2>2. b.live[Home] = None /\ b.run = "working"
      BY <1>2, <1>5 DEF Sends, Apart, SameLatch, TurnInProgress, Live
    <2> QED BY <2>1, <2>2 DEF Poised
  <1> QED BY <1>1, <1>3, <1>4, <1>5

LEMMA PoisedInterrupt ==
    ASSUME Sessions = {Home}, NEW a \in AppType, Poised(a)
    PROVE  LET b == Interrupt(a) IN b \in AppType /\ Poised(b) /\ Answers(a, b)
  <1> DEFINE b == Interrupt(a)
  <1>1. b \in AppType /\ (Stopped(a, b) \/ b = a)
    BY InterruptData, PoisedShowsNoPhantom
  <1> SUFFICES Poised(b) /\ Answers(a, b)
    BY <1>1
  <1> HIDE DEF b
  <1>2. CASE b = a
    BY <1>2 DEF Answers
  <1>3. CASE Stopped(a, b)
    <2> DEFINE c == Cmd("interrupt", a.sel, Live(a), None)
    <2>1. Live(a) \in Nat /\ a.sel \in Sessions /\ a.sel = Home
      BY Fields DEF Live, Marks
    <2>2. c \in CmdType /\ c.kind = "interrupt"
      BY <2>1 DEF Cmd, CmdType, None
    <2>3. b.out = Append(a.out, c)
      BY <1>3 DEF Stopped
    <2> HIDE DEF c
    <2>4. b.gate = a.gate /\ b.live = a.live /\ a.live[Home] # None
      BY <1>3, <2>1 DEF Stopped, SameLatch, Live
    <2>5. Poised(b) /\ ~Armed(b)
      BY <2>4 DEF Poised, Armed
    <2> QED BY <2>2, <2>3, <2>5 DEF Answers
  <1> QED BY <1>1, <1>2, <1>3

LEMMA PoisedTick ==
    ASSUME Sessions = {Home}, NEW a \in AppType, Poised(a), NEW due
    PROVE  LET b == TickOf(a, due) IN b \in AppType /\ Poised(b) /\ Answers(a, b)
  <1> DEFINE c == Drain(a)
             b == Watchdog(c, due)
  <1>1. c \in AppType /\ Drained(a, c)
    BY DrainData
  <1>0. TickOf(a, due) = b
    BY DEF TickOf
  <1> HIDE DEF c
  <1>2. Poised(c) /\ Answers(a, c)
    BY <1>1, PoisedDrained
  <1>3. b \in AppType /\ Quiet(c, b)
    BY <1>1, <1>2, WatchdogData, PoisedShowsNoPhantom
  <1> HIDE DEF b
  <1>4. /\ b.gate = c.gate /\ b.live = c.live /\ b.run = c.run /\ b.pre = c.pre
        /\ b.out = c.out
    BY <1>3 DEF Quiet, Apart, SameLatch, Unsubmitted
  <1>5. Poised(b) /\ (Armed(b) <=> Armed(c))
    BY <1>2, <1>4, PoisedSame
  <1>6. Answers(a, b)
    BY <1>2, <1>4, <1>5 DEF Answers
  <1> QED BY <1>0, <1>3, <1>5, <1>6

LEMMA LoneStays ==
    ASSUME Sound, Lone, misled = {}, app'.gate = app.gate, app'.live = app.live,
           app'.run = app.run, Armed(app) => (app'.pre[Home] # "none" \/ app'.pre = app.pre),
           wire' = wire \/ (wire # <<>> /\ wire' = Tail(wire)), inbox' = inbox
    PROVE  Lone'
  <1>1. wire \in Seq(CmdType)
    BY TurnsKnown
  <1>2. Unhydrated(wire') /\ (Armed(app) => Followed(wire'))
    BY <1>1, FollowedTail DEF Lone
  <1>3. Armed(app') <=> Armed(app)
    BY DEF Armed
  <1> QED BY <1>2, <1>3 DEF Lone

LEMMA ActsLone ==
    ASSUME Sessions = {Home}, Sound, Lone, misled = {}, NEW a \in AppType, Poised(app) =>
           Poised(a) /\ Answers(app, a), Acts(a)
    PROVE  Lone'
  <1>1. Run(a, wire) /\ inbox = <<>> /\ inbox' = <<>>
    BY DEF Acts, Keeps, serverVars
  <1> QED BY <1>1, LonePoised, LoneStep

LEMMA UserLone ==
    ASSUME Sessions = {Home}, Firm, Lone, misled = {}, User \/ \E due \in BOOLEAN : Tick(due)
    PROVE  Lone'
  <1>1. app \in AppType /\ Sound /\ app.sel = Home
    BY TurnsKnown, Fields DEF Firm
  <1>2. CASE TypePrompt
    <2> DEFINE p == Len(typed) + 1
    <2>1. p \in PromptNo
      BY DEF Firm, Sound, BudgetSound, PromptNo, None
    <2>2. Acts(Prompt(app, p))
      BY <1>2 DEF TypePrompt
    <2> HIDE DEF p
    <2>3. Prompt(app, p) \in AppType
      BY <1>1, <2>1, PromptData
    <2>4. Poised(app) => Poised(Prompt(app, p)) /\ Answers(app, Prompt(app, p))
      BY <1>1, <2>1, PoisedPrompt
    <2> QED BY <1>1, <2>2, <2>3, <2>4, ActsLone
  <1>3. CASE UserInterrupts \/ SendPendingNow
    <2>1. Acts(Interrupt(app))
      BY <1>3 DEF UserInterrupts, SendPendingNow
    <2>2. Interrupt(app) \in AppType
      BY <1>1, InterruptData
    <2>3. Poised(app) => Poised(Interrupt(app)) /\ Answers(app, Interrupt(app))
      BY <1>1, PoisedInterrupt
    <2> QED BY <1>1, <2>1, <2>2, <2>3, ActsLone
  <1>4. \A s \in Sessions : ~UserSwitches(s)
    BY <1>1 DEF UserSwitches
  <1>5. ASSUME NEW due \in BOOLEAN, Tick(due) PROVE Lone'
    <2>1. Acts(TickOf(app, due))
      BY <1>5 DEF Tick
    <2>2. TickOf(app, due) \in AppType
      BY <1>1, TickFit, TurnsKnown DEF Fit
    <2>3. Poised(app) => Poised(TickOf(app, due)) /\ Answers(app, TickOf(app, due))
      BY <1>1, PoisedTick
    <2> QED BY <1>1, <2>1, <2>2, <2>3, ActsLone
  <1> QED BY <1>2, <1>3, <1>4, <1>5 DEF User

LEMMA AgesLone ==
    ASSUME Sessions = {Home}, Firm, Lone, misled = {}, NEW s \in Sessions,
           MarkerAges(s) \/ GateAges(s)
    PROVE  Lone'
  <1>1. /\ app \in AppType /\ app.gate \in Gates /\ app.pre \in Markers /\ s = Home /\ Sound
    BY TurnsKnown, Fields DEF Firm
  <1>2. wire' = wire /\ inbox' = inbox
    BY DEF MarkerAges, GateAges
  <1>3. CASE MarkerAges(s)
    <2> DEFINE b == [app EXCEPT !.pre[s] = "aged"]
    <2>1. /\ Apart(app, b) /\ b.gate = app.gate /\ b.run = app.run
          /\ b.pre = [app.pre EXCEPT ![s] = "aged"]
      BY <1>1, MarkerAgedData
    <2>2. app' = b
      BY <1>3 DEF MarkerAges
    <2> HIDE DEF b
    <2>3. /\ app'.gate = app.gate /\ app'.live = app.live /\ app'.run = app.run
          /\ app'.pre[Home] = "aged"
      BY <1>1, <2>1, <2>2 DEF Apart, SameLatch, Markers
    <2> QED BY <1>1, <1>2, <2>3, LoneStays
  <1>4. CASE GateAges(s)
    <2> DEFINE b == [app EXCEPT !.gate[s].old = TRUE]
    <2>1. app.gate[s].set /\ app' = b
      BY <1>4 DEF GateAges
    <2>2. /\ Apart(app, b) /\ b.pre = app.pre /\ b.run = app.run
          /\ b.gate = [app.gate EXCEPT ![s] = [@ EXCEPT !.old = TRUE]]
      BY <1>1, <2>1, GateAgedData
    <2> HIDE DEF b
    <2>3. /\ app'.gate[Home].turn = app.gate[Home].turn /\ app'.live = app.live
          /\ app'.run = app.run /\ app'.pre = app.pre
      BY <1>1, <2>1, <2>2 DEF Apart, SameLatch, Gates, GateType
    <2>4. Armed(app') <=> Armed(app)
      BY <2>3 DEF Armed
    <2> QED BY <1>2, <2>3, <2>4 DEF Lone
  <1> QED BY <1>3, <1>4

LEMMA SteerTaken ==
    ASSUME AcceptSteer \/ RefuseSteer
    PROVE  /\ Takes("steer") /\ UNCHANGED <<link, inbox>>
           /\ Run(SteeredInto(app), Tail(wire)) \/ Run(SteerFailed(app), Tail(wire))
  <1>1. CASE AcceptSteer
    BY <1>1 DEF AcceptSteer, serverVars
  <1>2. CASE RefuseSteer
    <2>1. Takes("steer") /\ Run(SteerFailed(app), Tail(wire)) /\ UNCHANGED <<link, inbox>>
      BY <1>2 DEF RefuseSteer, serverVars
    <2> QED BY <2>1
  <1> QED BY <1>1, <1>2

(* The oldest request leaves the transport, the store unmoved, or a steer is *)
(* answered.                                                                *)
LEMMA AnswerLone ==
    ASSUME Sessions = {Home}, Firm, Lone, misled = {},
           AcceptStart \/ DropStart \/ TakeInterrupt \/ AcceptSteer \/ RefuseSteer
    PROVE  Lone'
  <1>0. Sound /\ app \in AppType /\ app.out = <<>>
    BY TurnsKnown DEF Firm
  <1>1. CASE AcceptStart \/ DropStart \/ TakeInterrupt
    <2>1. app' = app /\ inbox' = inbox /\ wire # <<>> /\ wire' = Tail(wire)
      BY <1>1 DEF AcceptStart, DropStart, TakeInterrupt, Takes
    <2> QED BY <1>0, <2>1, LoneStays
  <1>2. CASE AcceptSteer \/ RefuseSteer
    <2>0. Takes("steer") /\ UNCHANGED <<link, inbox>>
      BY <1>2, SteerTaken
    <2>1. wire # <<>> /\ inbox = <<>> /\ inbox' = <<>>
      BY <2>0 DEF Takes
    <2>2. app.stash # <<>>
      BY <1>0, <2>0, TakesFacts
    <2>3. \E a : /\ a \in AppType /\ Popped(app, a) /\ a.pre = app.pre /\ a.run = app.run
                /\ Run(a, Tail(wire))
      <3>1. Run(SteeredInto(app), Tail(wire)) \/ Run(SteerFailed(app), Tail(wire))
        BY <1>2, SteerTaken
      <3> QED BY <1>0, <2>2, <3>1, SteeredIntoData, SteerFailedData
    <2>4. PICK a : /\ a \in AppType /\ Popped(app, a) /\ a.pre = app.pre /\ a.run = app.run
                   /\ Run(a, Tail(wire))
      BY <2>3
    <2>5. a \in AppType /\ Popped(app, a) /\ a.pre = app.pre /\ a.run = app.run
      BY <2>4
    <2>6. a.gate = app.gate /\ a.live = app.live /\ a.out = app.out
      BY <2>5 DEF Popped, SameLatch, Unsubmitted
    <2>7. Poised(app)
      BY <2>1, LonePoised
    <2>8. Poised(a) /\ (Armed(a) <=> Armed(app))
      BY <2>5, <2>6, <2>7, PoisedSame
    <2>9. Answers(app, a)
      BY <2>6, <2>8 DEF Answers
    <2> QED BY <1>0, <2>1, <2>4, <2>8, <2>9, LoneStep
  <1> QED BY <1>1, <1>2

(* A running turn consumes a steer or returns it. *)
LEMMA ReportLone ==
    ASSUME Sessions = {Home}, Firm, Lone, misled = {},
           ConsumeSteer \/ \E t \in running : DropSteers(t)
    PROVE  Lone'
  <1>1. inbox = <<>> /\ inbox' = <<>>
    BY DEF ConsumeSteer, DropSteers, Listens
  <1>2. app \in AppType /\ app.out = <<>> /\ Sound
    BY TurnsKnown DEF Firm
  <1>3. \E a : a \in AppType /\ Keeps(a) /\ (a = app \/ Returned(app, a))
    <2>1. CASE ConsumeSteer
      <3>1. Keeps(Echo(app, Head(inputs).prompt)) \/ Keeps(app)
        BY <2>1 DEF ConsumeSteer
      <3> QED BY <1>2, <3>1, EchoData
    <2>2. ASSUME NEW t, DropSteers(t)
          PROVE  \E a : a \in AppType /\ Keeps(a) /\ (a = app \/ Returned(app, a))
      <3>1. Keeps(SteersDropped(app, t, {inputs[i].prompt : i \in PendingInputs(t)}))
        BY <2>2 DEF DropSteers
      <3> QED BY <1>2, <3>1, SteersDroppedData
    <2> QED BY <2>1, <2>2
  <1> PICK a : a \in AppType /\ Keeps(a) /\ (a = app \/ Returned(app, a))
    BY <1>3
  <1>4. /\ a.out = app.out /\ a.live = app.live
        /\ a.gate = app.gate /\ a.pre = app.pre /\ a.run = app.run
    BY DEF Returned, SameLatch, Unsubmitted
  <1>5. Poised(app)
    BY <1>1, LonePoised
  <1>6. Poised(a) /\ (Armed(a) <=> Armed(app))
    BY <1>4, <1>5, PoisedSame
  <1>7. Answers(app, a)
    BY <1>4, <1>6 DEF Answers
  <1>8. Run(a, wire)
    BY DEF Keeps
  <1> QED BY <1>1, <1>2, <1>3, <1>6, <1>7, <1>8, LoneStep

(* A turn under way starts, and its gate goes. *)
LEMMA StartTurnLone ==
    ASSUME Sessions = {Home}, Firm, Single, Lone, misled = {}, NEW t, StartTurn(t)
    PROVE  Lone'
  <1> DEFINE a == Started(app, t)
  <1>1. inbox = <<>> /\ inbox' = <<>> /\ t \in accepted /\ Keeps(a)
    BY DEF StartTurn
  <1>2. /\ app \in AppType /\ t \in Nat \ {None} /\ TurnSession(app, t) \in Sessions
        /\ t \notin app.done /\ Sound
    BY <1>1, TurnsKnown DEF Firm, TurnsRan, Ran
  <1>3. a \in AppType /\ Opened(app, a, t)
    BY <1>2, StartedData
  <1>0. Run(a, wire)
    BY <1>1 DEF Keeps
  <1> HIDE DEF a
  <1>4. app.gate[Home].turn = t /\ TurnSession(app, t) = Home
    BY <1>1, <1>2 DEF Single, Awaits
  <1>5. app.gate \in Gates /\ app.live \in Marks
    BY <1>2, Fields
  <1>6. a.gate[Home] = NoGate /\ a.live[Home] = t /\ a.out = app.out
    BY <1>2, <1>3, <1>4, <1>5 DEF Opened, Bound, Unsubmitted, Gates, Marks
  <1>7. Poised(a) /\ ~Armed(a)
    BY <1>2, <1>6 DEF Poised, Armed, NoGate
  <1>8. Answers(app, a)
    BY <1>6, <1>7 DEF Answers
  <1> QED BY <1>0, <1>1, <1>2, <1>3, <1>7, <1>8, LoneStep

(* A turn that runs, or was accepted, ends: it was no turn in flight, or it  *)
(* takes its gate with it.                                                  *)
LEMMA PoisedConcluded ==
    ASSUME Sessions = {Home}, NEW a \in AppType, Poised(a), NEW t \in Nat \ {None}, NEW b \in AppType,
           TurnSession(a, t) = Home, Concluded(a, b, t),
           \/ a.gate[Home].turn = t /\ a.live[Home] = None /\ t \notin a.done \cup a.switched
           \/ a.live[Home] = t
    PROVE  Poised(b) /\ Answers(a, b)
  <1> PICK c \in AppType : Finished(a, c, t) /\ (b = c \/ Drained(c, b))
    BY DEF Concluded
  <1>1. a.gate \in Gates /\ a.live \in Marks /\ a.sel = Home
    BY Fields
  <1>2. c.gate[Home] = IF a.gate[Home].turn = t THEN NoGate ELSE a.gate[Home]
    BY <1>1 DEF Finished, Gates
  <1>3. ~Armed(c)
    BY <1>2 DEF Poised, Armed, NoGate
  <1>4. c.run # "working" \/ c.live[Home] # None
    <2>1. CASE t \in a.done
      BY <2>1 DEF Finished, SameLatch
    <2>2. CASE t \notin a.done /\ a.live[Home] = None
      <3>1. c.run # "working"
        BY <1>1, <2>2 DEF Finished
      <3> QED BY <3>1
    <2>3. CASE t \notin a.done /\ a.live[Home] = t
      <3>1. c.run # "working" \/ c.live = a.live
        BY <1>1, <2>3 DEF Finished
      <3> QED BY <2>3, <3>1
    <2> QED BY <2>1, <2>2, <2>3
  <1>5. Poised(c)
    BY <1>3, <1>4 DEF Poised
  <1>6. Answers(a, c) /\ c.out = a.out
    BY <1>3 DEF Answers, Finished, Unsubmitted
  <1>7. CASE Drained(c, b)
    <2>1. Poised(b) /\ Answers(c, b)
      BY <1>5, <1>7, PoisedDrained
    <2> QED BY <1>3, <1>6, <2>1, AnswersThen
  <1> QED BY <1>5, <1>6, <1>7

LEMMA EndsLone ==
    ASSUME Sessions = {Home}, Firm, Single, Lone, misled = {}, NEW t,
           \/ RejectTurn(t) \/ Abort(t)
           \/ \E o \in {"success", "error", "idle"} : Complete(t, o)
    PROVE  Lone'
  <1>1. inbox = <<>> /\ inbox' = <<>> /\ t \in accepted \cup running
    BY DEF RejectTurn, Abort, Complete, Ends, Listens
  <1>2. /\ app \in AppType /\ t \in Nat \ {None} /\ TurnSession(app, t) \in Sessions /\ Sound
    BY <1>1, TurnsKnown DEF Firm
  <1>3. \E a : a \in AppType /\ Concluded(app, a, t) /\ Keeps(a)
    <2>1. ASSUME NEW o \in {"success", "error", "idle"}, Keeps(Commit(app, t, o))
          PROVE  \E a : a \in AppType /\ Concluded(app, a, t) /\ Keeps(a)
      BY <1>2, <2>1, CommitData
    <2>2. ASSUME NEW interrupt, Keeps(Fail(app, t, interrupt))
          PROVE  \E a : a \in AppType /\ Concluded(app, a, t) /\ Keeps(a)
      BY <1>2, <2>2, FailData
    <2> QED BY <2>1, <2>2 DEF RejectTurn, Abort, Complete
  <1> PICK a : a \in AppType /\ Concluded(app, a, t) /\ Keeps(a)
    BY <1>3
  <1>4. \/ app.gate[Home].turn = t /\ app.live[Home] = None /\ t \notin app.done \cup app.switched
        \/ app.live[Home] = t
    <2>1. TurnSession(app, t) = Home
      BY <1>2
    <2>2. CASE t \in accepted
      <3>1. t \notin app.done \cup app.switched
        BY <2>2 DEF Firm, TurnsRan, Ran
      <3>2. Awaits(app, t)
        BY <2>2 DEF Single
      <3> QED BY <2>1, <3>1, <3>2 DEF Awaits
    <2>3. CASE t \in running
      BY <2>1, <2>3 DEF Single, Shows
    <2> QED BY <1>1, <2>2, <2>3
  <1>5. Poised(app)
    BY <1>1, LonePoised
  <1>6. Poised(a) /\ Answers(app, a)
    BY <1>2, <1>3, <1>4, <1>5, PoisedConcluded
  <1>7. Run(a, wire)
    BY DEF Keeps
  <1> QED BY <1>1, <1>2, <1>3, <1>6, <1>7, LoneStep

(* A turn that is shown streams; of one that is over nothing shows. *)
LEMMA StreamLone ==
    ASSUME Sessions = {Home}, Firm, Single, Lone, misled = {}, NEW t, Stream(t)
    PROVE  Lone'
  <1> PICK a \in {Delta(app, t), Tool(app, t)} : a # app /\ Keeps(a)
    BY DEF Stream
  <1>1. inbox = <<>> /\ inbox' = <<>> /\ t \in running \cup (over \cap app.done)
    BY DEF Stream, Listens
  <1>2. /\ app \in AppType /\ Sound /\ t \in Nat \ {None} /\ TurnSession(app, t) \in Sessions
        /\ app.sel = Home
    BY <1>1, TurnsKnown, Fields DEF Firm
  <1>3. t \in running
    BY <1>1 DEF Delta, Tool
  <1>4. app.live[Home] = t /\ TurnSession(app, t) = Home
    BY <1>2, <1>3 DEF Single, Shows
  <1>5. Poised(app) /\ ~Armed(app)
    BY <1>1, <1>2, <1>4, LonePoised DEF Poised
  <1>6. a \in AppType /\ a.gate = app.gate /\ a.live = app.live /\ a.out = app.out
    <2>1. CASE a = Delta(app, t)
      <3> DEFINE b == Delta(app, t)
      <3>1. b \in AppType /\ (b = app \/ Withheld(app, b))
        BY <1>2, <1>4, DeltaData
      <3> HIDE DEF b
      <3> QED BY <2>1, <3>1 DEF Withheld, SameLatch, Unsubmitted, b
    <2>2. CASE a = Tool(app, t)
      <3> DEFINE b == Tool(app, t)
      <3>1. b \in AppType /\ Apart(app, b) /\ Unsubmitted(app, b) /\ b.gate = app.gate
        BY <1>2, ToolData
      <3> HIDE DEF b
      <3> QED BY <2>2, <3>1 DEF Apart, SameLatch, Unsubmitted, b
    <2> QED BY <2>1, <2>2
  <1>7. Poised(a) /\ ~Armed(a)
    BY <1>2, <1>4, <1>5, <1>6 DEF Poised, Armed
  <1>8. Answers(app, a)
    BY <1>6, <1>7 DEF Answers
  <1>9. Run(a, wire)
    BY DEF Keeps
  <1> QED BY <1>1, <1>2, <1>6, <1>7, <1>8, <1>9, LoneStep

(* No hydrate is under way to be answered. *)
LEMMA HydrateLone ==
    ASSUME Sound, Lone, misled = {}, NEW stale
    PROVE  ~AnswerHydrate(stale)
  <1> SUFFICES ASSUME Takes("hydrate") PROVE FALSE
    BY DEF AnswerHydrate
  <1>1. wire # <<>> /\ Head(wire).kind = "hydrate" /\ wire \in Seq(CmdType)
    BY TurnsKnown DEF Takes
  <1>2. 1 \in DOMAIN wire /\ Head(wire) = wire[1]
    BY <1>1
  <1> QED BY <1>1, <1>2 DEF Lone, Unhydrated

LEMMA LinkLone ==
    ASSUME Sound, Lone, misled = {}, LinkDies \/ LinkBoots \/ LinkOpens
    PROVE  Lone'
  <1>1. app' = app /\ inbox = <<>>
    BY DEF LinkDies, LinkBoots, LinkOpens, Listens
  <1>2. Poised(app) /\ wire \in Seq(CmdType)
    BY <1>1, LonePoised, TurnsKnown
  <1>3. CASE LinkDies
    <2> DEFINE ev == [i \in DOMAIN wire |-> [event |-> "cancelled", cmd |-> wire[i]]]
    <2>1. wire' = <<>> /\ inbox' = <<>> \o ev
      BY <1>1, <1>3 DEF LinkDies
    <2>2. /\ <<>> \o ev = ev /\ DOMAIN ev = DOMAIN wire
          /\ \A i \in DOMAIN ev : ev[i].cmd = wire[i]
      <3>1. \A i \in DOMAIN wire : [event |-> "cancelled", cmd |-> wire[i]] \in EventType
        BY <1>2 DEF EventType
      <3>2. DOMAIN wire = 1..Len(wire) /\ Len(wire) \in Nat
        BY <1>2
      <3>3. ev \in Seq(EventType)
        BY <3>1, <3>2
      <3> HIDE DEF ev
      <3>4. <<>> \o ev = ev
        BY <3>3, ConcatEmptySeq
      <3> QED BY <3>4 DEF ev
    <2> HIDE DEF ev
    <2>3. DOMAIN CmdsOf(inbox') = DOMAIN wire /\ \A i \in DOMAIN wire : CmdsOf(inbox')[i] = wire[i]
      BY <2>1, <2>2 DEF CmdsOf
    <2>4. Unhydrated(CmdsOf(inbox')) /\ (Armed(app) => Followed(CmdsOf(inbox')))
      BY <2>3 DEF Lone, Unhydrated, Followed
    <2>5. Unhydrated(wire') /\ Followed(wire')
      BY <2>1 DEF Unhydrated, Followed
    <2> QED BY <1>1, <1>2, <2>4, <2>5 DEF Lone, Poised
  <1>4. CASE LinkBoots \/ LinkOpens
    <2>1. PICK event \in {"epoch", "relaunched"} : inbox' = Append(<<>>, Signal(event))
      BY <1>1, <1>4 DEF LinkBoots, LinkOpens
    <2>2. wire' = wire
      BY <1>4 DEF LinkBoots, LinkOpens
    <2>3. \A i \in DOMAIN CmdsOf(inbox') : CmdsOf(inbox')[i].kind \in {"epoch", "relaunched"}
      <3>1. \A i \in DOMAIN inbox' : inbox'[i] = Signal(event)
        BY <2>1
      <3> QED BY <3>1 DEF CmdsOf, Signal, Cmd
    <2>4. Unhydrated(CmdsOf(inbox')) /\ Followed(CmdsOf(inbox'))
      BY <2>3 DEF Unhydrated, Followed
    <2> QED BY <1>1, <1>2, <2>2, <2>4 DEF Lone, Poised
  <1> QED BY <1>3, <1>4

(* The reconcile gives the gate back, idles a run state without a reply, and *)
(* submits at most one prompt.                                              *)
LEMMA PoisedRelaunched ==
    ASSUME Sessions = {Home}, NEW a \in AppType
    PROVE  LET b == Relaunched(a) IN b \in AppType /\ Poised(b) /\ Answers(a, b)
  <1> DEFINE b == Relaunched(a)
  <1>1. b \in AppType /\ \E c \in AppType : Reconciled(a, c) /\ Drains(c, b)
    BY RelaunchedData
  <1> SUFFICES Poised(b) /\ Answers(a, b)
    BY <1>1
  <1> HIDE DEF b
  <1> PICK c \in AppType : Reconciled(a, c) /\ Drains(c, b)
    BY <1>1
  <1>2. c.sel = Home /\ a.gate[Home] \in GateType /\ c.out = a.out
    BY Fields DEF Gates, Reconciled, Unsubmitted
  <1>3. ~Armed(c) /\ ~c.gate[Home].set
    BY <1>2 DEF Reconciled, Armed, NoGate, GateType
  <1> PICK d \in AppType, e \in AppType :
        /\ d = c \/ Drained(c, d)
        /\ \/ b = d /\ d.out # c.out
           \/ /\ d.out = c.out /\ Drained(e, b)
              /\ Apart(d, e) /\ Unsubmitted(d, e) /\ e.gate = d.gate /\ e.pre = d.pre
              /\ e.run = IF d.run = "working" /\ Live(d) = None THEN "idle" ELSE d.run
    BY DEF Drains
  <1>4. d = c \/ (Poised(d) /\ Answers(c, d))
    <2>1. CASE DrainBlocked(c)
      BY <2>1 DEF Drained
    <2>2. CASE ~DrainBlocked(c) /\ d # c
      <3>1. c.run # "working"
        BY <1>2, <1>3, <2>2 DEF DrainBlocked
      <3>2. Poised(c)
        BY <1>3, <3>1 DEF Poised
      <3> QED BY <2>2, <3>2, PoisedDrained
    <2> QED BY <2>1, <2>2
  <1>5. d.sel = Home /\ c.out \in Seq(CmdType)
    BY Fields DEF Outputs
  <1>6. CASE b = d /\ d.out # c.out
    <2>1. Poised(b) /\ Answers(c, b)
      BY <1>4, <1>6
    <2> QED BY <1>2, <1>3, <2>1, AnswersThen
  <1>7. CASE /\ d.out = c.out /\ Drained(e, b)
             /\ Apart(d, e) /\ Unsubmitted(d, e) /\ e.gate = d.gate /\ e.pre = d.pre
             /\ e.run = IF d.run = "working" /\ Live(d) = None THEN "idle" ELSE d.run
    <2>1. ~Armed(d)
      <3>1. ASSUME NEW x \in CmdType PROVE Append(c.out, x) # c.out
        <4>1. Len(Append(c.out, x)) = Len(c.out) + 1 /\ Len(c.out) \in Nat
          BY <1>5
        <4> QED BY <4>1
      <3> QED BY <1>3, <1>4, <1>7, <3>1 DEF Answers
    <2>2. ~Armed(e) /\ e.out = a.out
      BY <1>2, <1>7, <2>1 DEF Armed, Unsubmitted
    <2>3. Poised(e)
      BY <1>5, <1>7, <2>2 DEF Poised, Live, Apart, SameLatch
    <2>4. Poised(b) /\ Answers(e, b)
      BY <1>1, <1>7, <2>3, PoisedDrained
    <2> QED BY <2>2, <2>4, AnswersThen
  <1> QED BY <1>6, <1>7

(* A request cancelled by name: the start's answer re-stages the gate, and   *)
(* one that repaints the run state before it is no steer.                   *)
LEMMA CancelledLone ==
    ASSUME Sessions = {Home}, Firm, Lone, misled = {}, link = "down", NEW c \in CmdType,
           c.kind \in Requests, c.kind = "steer" => app.stash # <<>>,
           inbox # <<>>, c = Head(inbox).cmd, inbox' = Tail(inbox), Run(Cancelled(app, c), wire)
    PROVE  Lone'
  <1> DEFINE ib == CmdsOf(inbox)
             b == Cancelled(app, c)
  <1>1. /\ ib \in Seq(CmdType) /\ ib # <<>> /\ Head(ib) = c /\ CmdsOf(inbox') = Tail(ib)
    <2>1. inbox \in Seq(EventType)
      BY DEF Firm, Sound, LinesSound, Lines
    <2> QED BY <2>1, CmdsData
  <1>2. /\ Fit(app, app.turns) /\ app \in AppType /\ app.out = <<>> /\ wire = <<>>
        /\ app.turns \in TurnTables /\ app.gate[Home] \in GateType
    BY TurnsKnown, Fields DEF Firm, Phase, Gates
  <1> HIDE DEF ib
  <1>3. /\ Unhydrated(Tail(ib)) /\ c.kind # "hydrate"
        /\ Armed(app) => /\ Followed(Tail(ib)) /\ app.live[Home] = None
                         /\ c.kind = "interrupt" => Starting(Tail(ib))
                         /\ app.run = "working" \/ c.kind = "start" \/ Starting(Tail(ib))
        /\ app.run = "working" /\ app.live[Home] = None => Armed(app) /\ app.pre[Home] # "none"
    <2>1. Unhydrated(ib) /\ (Armed(app) => Followed(ib))
      BY DEF Lone, ib
    <2>2. c.kind # "hydrate"
      <3>1. 1 \in DOMAIN ib /\ Head(ib) = ib[1]
        BY <1>1
      <3> QED BY <1>1, <2>1, <3>1 DEF Unhydrated
    <2>3. Armed(app) => app.run = "working" \/ Starting(ib)
      BY DEF Lone, ib
    <2>4. Armed(app) => app.live[Home] = None
      BY DEF Lone
    <2>5. app.run = "working" /\ app.live[Home] = None => Armed(app) /\ app.pre[Home] # "none"
      BY DEF Lone
    <2> QED BY <1>1, <2>1, <2>2, <2>3, <2>4, <2>5, FollowedTail
  <1>4. b \in AppType /\ b.out = <<>> /\ b.live = app.live
        /\ \/ ~Armed(b) /\ b.run = "error"
           \/ c.kind = "steer" /\ b.gate = app.gate /\ b.run = app.run /\ b.pre = app.pre
           \/ c.kind = "interrupt" /\ b.gate = app.gate /\ b.run = "error"
    <2>1. CASE c.kind = "start"
      <3> DEFINE d == StartCancelled(app)
      <3>1. b = d
        BY <2>1 DEF Cancelled
      <3>2. d \in AppType /\ BackedOff(app, d, Sessions)
        BY <1>2, StartCancelledData
      <3> HIDE DEF b, d
      <3>3. Home \in Sessions
        OBVIOUS
      <3>4. d.gate[Home] = Backoff \/ (d.gate[Home] = app.gate[Home] /\ ~app.gate[Home].set)
        BY <3>2, <3>3 DEF BackedOff, Gated
      <3>5. d.gate[Home].turn = None
        BY <1>2, <3>4 DEF Backoff, GateType, NoGate
      <3> QED BY <1>2, <3>1, <3>2, <3>5 DEF BackedOff, Armed, Apart, SameLatch, Unsubmitted
    <2>2. CASE c.kind = "steer"
      <3> DEFINE d == SteerFailed(app)
      <3>1. b = d
        BY <2>2 DEF Cancelled
      <3>2. d \in AppType /\ Popped(app, d) /\ d.pre = app.pre /\ d.run = app.run
        BY <1>2, <2>2, SteerFailedData
      <3> HIDE DEF b, d
      <3> QED BY <1>2, <2>2, <3>1, <3>2 DEF Popped, SameLatch, Unsubmitted
    <2>3. CASE c.kind = "interrupt"
      <3> DEFINE d == Failed(app)
      <3>1. b = d
        BY <2>3 DEF Cancelled
      <3>2. d \in AppType /\ Apart(app, d) /\ Unsubmitted(app, d) /\ d.gate = app.gate
            /\ d.run = "error"
        BY <1>2, FailedData
      <3> HIDE DEF b, d
      <3> QED BY <1>2, <2>3, <3>1, <3>2 DEF Apart, SameLatch, Unsubmitted
    <2> QED BY <1>3, <2>1, <2>2, <2>3 DEF Requests
  <1> HIDE DEF b
  <1>5. Run(b, wire)
    BY DEF b
  <1>6. /\ app'.gate = b.gate /\ app'.live = b.live /\ app'.run = b.run /\ app'.pre = b.pre
        /\ wire' = <<>>
    BY <1>2, <1>4, <1>5, RunLatch DEF SameLatch
  <1>7. Followed(wire') /\ Unhydrated(wire')
    BY <1>6 DEF Followed, Unhydrated
  <1>8. CASE ~Armed(b) /\ b.run = "error"
    <2>1. ~Armed(app') /\ app'.run # "working"
      BY <1>6, <1>8 DEF Armed
    <2> QED BY <1>1, <1>3, <1>7, <2>1 DEF Lone
  <1>9. CASE c.kind = "steer" /\ b.gate = app.gate /\ b.run = app.run /\ b.pre = app.pre
    <2>1. /\ Armed(app') <=> Armed(app)
          /\ app'.run = app.run /\ app'.live = app.live /\ app'.pre = app.pre
      BY <1>4, <1>6, <1>9 DEF Armed
    <2> QED BY <1>1, <1>3, <1>7, <1>9, <2>1 DEF Lone
  <1>10. CASE c.kind = "interrupt" /\ b.gate = app.gate /\ b.run = "error"
    <2>1. (Armed(app') <=> Armed(app)) /\ app'.run = "error" /\ app'.live = app.live
      BY <1>4, <1>6, <1>10 DEF Armed
    <2> QED BY <1>1, <1>3, <1>7, <1>10, <2>1 DEF Lone
  <1> QED BY <1>4, <1>8, <1>9, <1>10

(* What the transport queued is read in order, the gate's answer last. *)
LEMMA ReadLone ==
    ASSUME Sessions = {Home}, Firm, Lone, misled = {}, ReadInbox
    PROVE  Lone'
  <1> DEFINE e == Head(inbox)
             a == CASE e.event = "cancelled" -> Cancelled(app, e.cmd)
                    [] e.event = "epoch" -> [app EXCEPT !.conn = @ + 1]
                    [] e.event = "relaunched" -> Relaunched(app)
  <1>1. /\ inbox # <<>> /\ inbox' = Tail(inbox) /\ Run(a, wire) /\ link' = link
    BY DEF ReadInbox, Keeps
  <1>2. /\ Fit(app, app.turns) /\ app \in AppType /\ app.out = <<>> /\ Phase /\ Sound
        /\ inbox \in Seq(EventType) /\ wire \in Seq(CmdType) /\ app.stash \in Stashes
        /\ Lines(inbox, wire, app.turns, app.stash) /\ app.turns \in TurnTables
    BY TurnsKnown, Fields DEF Firm, Sound, LinesSound, Lines
  <1>3. e = inbox[1] /\ 1 \in DOMAIN inbox /\ e \in EventType
    BY <1>1, <1>2, HeadTailProperties
  <1>4. e.event = EventOf(link) /\ link \in {"up", "down", "booting"}
    BY <1>2, <1>3 DEF Phase, Sound, BudgetSound
  <1>5. /\ e.cmd \in CmdType /\ SoundEvent(e)
        /\ e.cmd.kind = "steer" => app.stash # <<>>
    <2> HIDE DEF e
    <2>1. e = Head(inbox)
      BY DEF e
    <2>2. SoundEvent(e) /\ (e.cmd.kind = "steer" => app.stash # <<>>)
      BY <1>1, <1>2, <2>1, LinesRead
    <2> QED BY <1>3, <2>2 DEF EventType
  <1>6. link # "down" => inbox' = <<>>
    <2> SUFFICES ASSUME link # "down" PROVE inbox' = <<>>
      OBVIOUS
    <2>1. Len(inbox) \in Nat /\ Len(inbox) # 0 /\ Len(inbox) <= 1
      BY <1>1, <1>2 DEF Phase
    <2>2. \A n \in Nat : n # 0 /\ n <= 1 => n = 1
      OBVIOUS
    <2>3. Len(inbox) = 1
      BY <2>1, <2>2
    <2> QED BY <1>1, <1>2, <2>3
  <1>7. CASE link = "down"
    <2>1. e.event = "cancelled"
      BY <1>4, <1>7 DEF EventOf
    <2>2. Run(Cancelled(app, e.cmd), wire)
      BY <1>1, <2>1
    <2>3. e.cmd.kind \in Requests
      BY <1>5, <2>1 DEF SoundEvent
    <2> DEFINE c == e.cmd
    <2>4. c \in CmdType /\ c.kind \in Requests /\ (c.kind = "steer" => app.stash # <<>>)
          /\ c = Head(inbox).cmd /\ Run(Cancelled(app, c), wire)
      BY <1>5, <2>2, <2>3
    <2> HIDE DEF c, e
    <2> QED BY <1>1, <1>7, <2>4, CancelledLone
  <1>8. CASE link = "booting"
    <2> DEFINE b == [app EXCEPT !.conn = @ + 1]
    <2>1. e.event = "epoch"
      BY <1>4, <1>8 DEF EventOf
    <2>2. Run(b, wire)
      BY <1>1, <2>1
    <2>3. /\ b \in AppType /\ b.out = <<>> /\ b.gate = app.gate /\ b.live = app.live
          /\ b.run = app.run /\ b.pre = app.pre
      BY <1>2, EpochData DEF Unsubmitted
    <2> HIDE DEF b
    <2>4. ~Starting(CmdsOf(inbox))
      <3>1. e.cmd.kind = "epoch"
        BY <1>5, <2>1 DEF SoundEvent
      <3>2. DOMAIN inbox = {1}
        <4>1. Len(inbox) \in Nat /\ Len(inbox) # 0 /\ Len(inbox) <= 1 /\ DOMAIN inbox = 1..Len(inbox)
          BY <1>1, <1>2, <1>8 DEF Phase
        <4>2. \A n \in Nat : n # 0 /\ n <= 1 => 1..n = {1}
          OBVIOUS
        <4> QED BY <4>1, <4>2
      <3> HIDE DEF e
      <3> QED BY <1>3, <3>1, <3>2 DEF Starting, CmdsOf
    <2>5. Poised(app)
      BY <2>4 DEF Lone, Poised
    <2>6. Poised(b) /\ (Armed(b) <=> Armed(app))
      BY <2>3, <2>5, PoisedSame
    <2>7. Answers(app, b)
      BY <1>2, <2>3, <2>6 DEF Answers
    <2> QED BY <1>2, <1>6, <1>8, <2>2, <2>3, <2>6, <2>7, LoneStep
  <1>9. CASE link = "up"
    <2> DEFINE b == Relaunched(app)
    <2>1. e.event = "relaunched"
      BY <1>4, <1>9 DEF EventOf
    <2>2. Run(b, wire)
      BY <1>1, <2>1
    <2>3. b \in AppType /\ Poised(b) /\ Answers(app, b)
      BY <1>2, PoisedRelaunched
    <2> HIDE DEF b
    <2> QED BY <1>2, <1>6, <1>9, <2>2, <2>3, LoneStep
  <1> QED BY <1>4, <1>7, <1>8, <1>9

LEMMA NextLone ==
    ASSUME Sessions = {Home}, Firm, Single, Lone, [Next]_vars
    PROVE  Lone'
  <1> SUFFICES ASSUME misled' = {} PROVE Lone'
    BY DEF Lone
  <1>0. /\ misled = {} /\ ~RefuseStart /\ ~StartForSteer
        /\ \A s \in Sessions : ~StartOwnTurn(s)
        /\ \A kind \in {"error", "cap"} : ~OtherRequestFails(kind)
        /\ Sound
    BY MisledGrows DEF Firm
  <1>1. CASE User \/ Clock
    BY <1>0, <1>1, UserLone, AgesLone DEF Clock
  <1>2. CASE ServerSteps
    <2>1. CASE AcceptStart \/ DropStart \/ TakeInterrupt \/ AcceptSteer \/ RefuseSteer
      BY <1>0, <2>1, AnswerLone
    <2>2. CASE ConsumeSteer \/ \E t \in running : DropSteers(t)
      BY <1>0, <2>2, ReportLone
    <2>3. ~\E stale \in (over \cap app.done) \cup {None} : AnswerHydrate(stale)
      BY <1>0, HydrateLone
    <2>4. CASE \/ \E t \in accepted : RejectTurn(t)
               \/ \E t \in running : Abort(t)
               \/ \E t \in running, o \in {"success", "error", "idle"} : Complete(t, o)
      BY <1>0, <2>4, EndsLone
    <2>5. CASE \/ \E t \in accepted : StartTurn(t)
               \/ \E t \in running \cup over : Stream(t)
      BY <1>0, <2>5, StartTurnLone, StreamLone
    <2> QED BY <1>0, <1>2, <2>1, <2>2, <2>3, <2>4, <2>5 DEF ServerSteps
  <1>3. CASE LinkDies \/ LinkBoots \/ LinkOpens
    BY <1>0, <1>3, LinkLone
  <1>4. CASE ReadInbox
    BY <1>0, <1>4, ReadLone
  <1>5. CASE UNCHANGED vars
    <2>1. UNCHANGED <<app, wire, inbox, misled>>
      BY <1>5 DEF vars
    <2> QED BY <2>1 DEF Lone, Armed
  <1> QED BY <1>1, <1>2, <1>3, <1>4, <1>5 DEF Next

LEMMA InitLone == ASSUME Sessions = {Home} PROVE Init => Lone
  <1> SUFFICES ASSUME Init PROVE Lone
    OBVIOUS
  <1>1. /\ app.gate = [s \in Sessions |-> NoGate] /\ app.run = "idle" /\ wire = <<>> /\ inbox = <<>>
    BY DEF Init
  <1>2. ~Armed(app)
    BY <1>1 DEF Armed, NoGate
  <1>3. Unhydrated(wire) /\ Unhydrated(CmdsOf(inbox))
    BY <1>1 DEF Unhydrated, CmdsOf
  <1> QED BY <1>1, <1>2, <1>3 DEF Lone

LEMMA AlwaysSingle ==
    ASSUME ~BusyBoots, ~SlowStarts
    PROVE  Spec => []Single
  <1>1. Firm /\ Firm' /\ Single /\ [Next]_vars => Single'
    BY NextSingle
  <1> QED BY <1>1, InitSingle, AlwaysFirm, PTL DEF Spec

LEMMA AlwaysLone ==
    ASSUME ~BusyBoots, ~SlowStarts, Sessions = {Home}
    PROVE  Spec => []Lone
  <1>1. Firm /\ Single /\ Lone /\ [Next]_vars => Lone'
    BY NextLone
  <1> QED BY <1>1, InitLone, AlwaysFirm, AlwaysSingle, PTL DEF Spec

LEMMA SafeKept == Safe => (misled = {} => PromptKept)
  <1> SUFFICES ASSUME Safe, misled = {}, NEW p \in Prompts PROVE p \in answered \/ Held(p)
    BY DEF PromptKept
  <1>1. p \in answered \/ Copy(app, p)
    BY DEF Safe, Saved
  <1> QED BY <1>1 DEF Copy, Held, Holds

(* With one session, no prompt is lost: whatever the order of the answers,    *)
(* of the clocks and of the deaths of the child, the queue, the gate, the    *)
(* stash of steers or the retained ones hold every prompt the server has not *)
(* started, until the store is misled about a submission. A server that      *)
(* settles steers must outlive its client: the reconcile takes what it       *)
(* retained for consumed.                                                   *)
THEOREM NoPromptLost ==
    ASSUME ~BusyBoots, ~SlowStarts, Outlived, Sessions = {Home}
    PROVE  Spec => [](misled = {} => PromptKept)
  <1>1. Firm /\ Placed /\ Alive /\ Lone /\ Safe /\ [Next]_vars => Safe'
    BY NextSafe, LoneGuarded
  <1>2. Spec => []Safe
    BY <1>1, InitSafe, AlwaysFirm, AlwaysPlaced, AlwaysAlive, AlwaysLone, PTL DEF Spec
  <1> QED BY <1>2, SafeKept, PTL

-----------------------------------------------------------------------------
(* Servers that never mislead the store: they take no steers, start no turn  *)
(* of their own and send no error response, and the client stays below the   *)
(* cap. They may reject turns, drop requests and die.                        *)

Truthful ==
    \A v \in Servers : v.steering = "off" /\ v.own = 0 /\ Misleading \cap v.kinds = {}

Trusted == misled = {} /\ app.stash = <<>>

LEMMA StashStays ==
    ASSUME Sound, NEW a \in AppType, NEW w, Run(a, w), a.stash = app.stash
    PROVE  app'.stash = app.stash
  <1>1. SameSteers(a, app')
    BY TurnsKnown, RunSaves
  <1> QED BY <1>1 DEF SameSteers

LEMMA PlainStays ==
    ASSUME Sound, NEW a, Fit(a, app.turns), Plain(app, a), NEW w, Run(a, w)
    PROVE  app'.stash = app.stash
  <1>1. a \in AppType /\ a.stash = app.stash
    BY DEF Fit, Plain
  <1> QED BY <1>1, StashStays

LEMMA UserUnsteered ==
    ASSUME Sound, app.steering = "off", User \/ Clock
    PROVE  app'.stash = app.stash
  <1>1. app \in AppType /\ Fit(app, app.turns)
    BY TurnsKnown
  <1>2. \A a : Acts(a) => Run(a, wire)
    BY DEF Acts, Keeps
  <1>3. CASE TypePrompt
    <2> DEFINE p == Len(typed) + 1
               a == Prompt(app, p)
    <2>1. p \in PromptNo
      BY DEF Sound, BudgetSound, PromptNo, None
    <2>2. Run(a, wire)
      BY <1>2, <1>3 DEF TypePrompt
    <2> HIDE DEF p
    <2>3. a \in AppType /\ a.stash = app.stash
      BY <1>1, <2>1, PromptData DEF Steered, Staged, Sends, Apart, SameSteers
    <2> HIDE DEF a
    <2> QED BY <2>2, <2>3, StashStays
  <1>4. CASE UserInterrupts \/ SendPendingNow
    <2>1. Run(Interrupt(app), wire)
      BY <1>2, <1>4 DEF UserInterrupts, SendPendingNow
    <2> QED BY <1>1, <2>1, InterruptFit, PlainStays
  <1>5. ASSUME NEW s \in Sessions, UserSwitches(s) PROVE app'.stash = app.stash
    <2>1. Run(Switch(app, s), wire)
      BY <1>2, <1>5 DEF UserSwitches
    <2> QED BY <1>1, <2>1, SwitchFit, PlainStays
  <1>6. ASSUME NEW due \in BOOLEAN, Tick(due) PROVE app'.stash = app.stash
    <2>1. Run(TickOf(app, due), wire)
      BY <1>2, <1>6 DEF Tick
    <2> QED BY <1>1, <2>1, TickFit, PlainStays
  <1>7. ASSUME NEW s \in Sessions, MarkerAges(s) PROVE app'.stash = app.stash
    BY <1>1, <1>7, MarkerAgedData DEF MarkerAges, Apart, SameSteers
  <1>8. ASSUME NEW s \in Sessions, GateAges(s) PROVE app'.stash = app.stash
    BY <1>1, <1>8, GateAgedData DEF GateAges, Apart, SameSteers
  <1> QED BY <1>3, <1>4, <1>5, <1>6, <1>7, <1>8 DEF User, Clock

LEMMA ServerUnsteered ==
    ASSUME Sound, app.stash = <<>>, misled' = {}, [Next]_vars, ServerSteps
    PROVE  app'.stash = <<>>
  <1>1. Fit(app, app.turns) /\ app \in AppType /\ app.done \in SUBSET Nat
    BY TurnsKnown, Fields
  <1>2. ~AcceptSteer /\ ~RefuseSteer /\ ~StartForSteer
    <2>1. ~Takes("steer")
      BY TakesFacts
    <2> QED BY <2>1 DEF AcceptSteer, RefuseSteer, StartForSteer
  <1>3. CASE AcceptStart \/ DropStart \/ TakeInterrupt
    BY <1>3 DEF AcceptStart, DropStart, TakeInterrupt
  <1>4. CASE ConsumeSteer
    <2>1. Keeps(Echo(app, Head(inputs).prompt)) \/ Keeps(app)
      BY <1>4 DEF ConsumeSteer
    <2>2. CASE Keeps(app)
      BY <1>1, <2>2, StashStays DEF Keeps
    <2>3. CASE Keeps(Echo(app, Head(inputs).prompt))
      <3> DEFINE a == Echo(app, Head(inputs).prompt)
      <3>1. Fit(a, app.turns) /\ Plain(app, a)
        BY <1>1, EchoData, ReturnedFit
      <3> HIDE DEF a
      <3> QED BY <2>3, <3>1, PlainStays DEF Keeps, a
    <2> QED BY <2>1, <2>2, <2>3
  <1>5. ASSUME NEW t, DropSteers(t) PROVE app'.stash = <<>>
    <2> PICK ps : Keeps(SteersDropped(app, t, ps))
      BY <1>5 DEF DropSteers
    <2> DEFINE a == SteersDropped(app, t, ps)
    <2>1. Fit(a, app.turns) /\ Plain(app, a) /\ Run(a, wire)
      BY <1>1, SteersDroppedData, ReturnedFit DEF Keeps
    <2> HIDE DEF a
    <2> QED BY <2>1, PlainStays
  <1>6. ASSUME NEW stale, AnswerHydrate(stale) PROVE app'.stash = <<>>
    <2> DEFINE s == Head(wire).sess
               Mine(ts) == {t \in ts : t # None /\ TurnSession(app, t) = s}
               active == Mine(running \cup {stale})
               told == active \cap app.done
               t1 == CHOOSE t \in told : TRUE
               ended == Mine(over \ {stale})
               a == IF told # {} THEN Refresh(app, s, t1)
                    ELSE Hydrated(app, s, ended, active, answered)
    <2>1. Takes("hydrate") /\ Run(a, Tail(wire))
      BY <1>6 DEF AnswerHydrate
    <2>2. s \in Sessions
      BY <2>1, TakesFacts DEF CmdType
    <2>3. None \notin ended /\ told \subseteq app.done
      OBVIOUS
    <2> HIDE DEF ended, active, told
    <2>4. told # {} => t1 \in Nat
      BY <1>1, <2>3
    <2> HIDE DEF t1, s
    <2>5. Fit(a, app.turns) /\ Plain(app, a)
      BY <1>1, <2>2, <2>3, <2>4, RefreshFit, HydratedFit
    <2> HIDE DEF a
    <2> QED BY <2>1, <2>5, PlainStays
  <1>7. ASSUME NEW t, StartTurn(t) \/ RejectTurn(t) \/ Abort(t)
                      \/ \E o \in {"success", "error", "idle"} : Complete(t, o)
        PROVE  app'.stash = <<>>
    <2>1. t \in accepted \cup running
      BY <1>7 DEF StartTurn, RejectTurn, Abort, Complete, Ends
    <2>2. t \in DOMAIN app.turns
      BY <2>1, TurnFacts
    <2>3. \E a : Fit(a, app.turns) /\ Plain(app, a) /\ Keeps(a)
      BY <1>1, <1>7, <2>2, StartedFit, CommitFit, FailFit
         DEF StartTurn, RejectTurn, Abort, Complete
    <2> QED BY <2>3, PlainStays DEF Keeps
  <1>8. ASSUME NEW t \in running \cup over, Stream(t) PROVE app'.stash = <<>>
    <2> PICK a \in {Delta(app, t), Tool(app, t)} : Keeps(a)
      BY <1>8 DEF Stream
    <2>1. Fit(a, app.turns) /\ Plain(app, a)
      BY <1>1, TurnFacts, DeltaFit, ToolFit
    <2> QED BY <2>1, PlainStays DEF Keeps
  <1> QED BY <1>2, <1>3, <1>4, <1>5, <1>6, <1>7, <1>8, MisledGrows DEF ServerSteps

LEMMA ChildUnsteered ==
    ASSUME Sound, app.stash = <<>>, LinkDies \/ LinkBoots \/ LinkOpens \/ ReadInbox
    PROVE  app'.stash = <<>>
  <1>1. /\ Fit(app, app.turns) /\ app \in AppType /\ app.stash \in Stashes
        /\ Lines(inbox, wire, app.turns, app.stash)
    BY TurnsKnown, Fields DEF Sound, LinesSound
  <1>2. CASE LinkDies \/ LinkBoots \/ LinkOpens
    BY <1>2 DEF LinkDies, LinkBoots, LinkOpens
  <1>3. CASE ReadInbox
    <2> DEFINE e == Head(inbox)
               a == CASE e.event = "cancelled" -> Cancelled(app, e.cmd)
                      [] e.event = "epoch" -> [app EXCEPT !.conn = @ + 1]
                      [] e.event = "relaunched" -> Relaunched(app)
    <2>1. inbox # <<>> /\ Run(a, wire)
      BY <1>3 DEF ReadInbox, Keeps
    <2>2. e \in EventType /\ SoundEvent(e) /\ e.cmd.kind # "steer"
      BY <1>1, <2>1, LinesRead
    <2> HIDE DEF e
    <2>3. CASE e.event = "cancelled"
      <3>1. e.cmd \in CmdType /\ e.cmd.kind \in Requests \ {"steer"}
        BY <2>2, <2>3 DEF EventType, SoundEvent
      <3>2. a = Cancelled(app, e.cmd)
        BY <2>3
      <3>3. Fit(a, app.turns) /\ Plain(app, a)
        <4> HIDE DEF a
        <4> QED BY <1>1, <3>1, <3>2, CancelledFit
      <3> HIDE DEF a
      <3> QED BY <2>1, <3>3, PlainStays
    <2>4. CASE e.event = "epoch"
      <3> DEFINE b == [app EXCEPT !.conn = @ + 1]
      <3>1. a = b
        BY <2>4
      <3>2. b \in AppType /\ b.stash = app.stash
        BY <1>1, EpochData DEF SameSteers
      <3> HIDE DEF a, b
      <3> QED BY <2>1, <3>1, <3>2, StashStays
    <2>5. CASE e.event = "relaunched"
      <3>1. a = Relaunched(app)
        BY <2>5
      <3> HIDE DEF a
      <3>2. Fit(a, app.turns) /\ Plain(app, a)
        BY <1>1, <3>1, RelaunchedFit
      <3> QED BY <2>1, <3>2, PlainStays
    <2> QED BY <2>2, <2>3, <2>4, <2>5 DEF EventType
  <1> QED BY <1>2, <1>3

(* A server that never misleads never has: no step of it is such a one. *)
LEMMA StaysUnmisled ==
    ASSUME Truthful, Sound, Trusted, [Next]_vars
    PROVE  misled' = {}
  <1>1. server.own = 0 /\ own \in 0..server.own /\ Misleading \cap server.kinds = {}
    BY DEF Truthful, Sound, BudgetSound
  <1>2. \A s \in Sessions : ~StartOwnTurn(s)
    <2>1. ~(own < server.own)
      BY <1>1
    <2> QED BY <2>1 DEF StartOwnTurn
  <1>3. \A kind : Fault(kind) => misled' = {}
    BY <1>1 DEF Fault, Trusted
  <1>4. ~StartForSteer
    <2>1. ~Takes("steer")
      BY TakesFacts DEF Trusted
    <2> QED BY <2>1 DEF StartForSteer
  <1>5. misled = {}
    BY DEF Trusted
  <1>6. CASE User \/ Clock
    BY <1>5, <1>6 DEF User, Clock, TypePrompt, UserInterrupts, SendPendingNow, UserSwitches, Tick,
           Acts, MarkerAges, GateAges, budgetVars
  <1>7. CASE ServerSteps
    <2>1. CASE AcceptStart \/ DropStart \/ RefuseStart \/ AcceptSteer \/ RefuseSteer
               \/ TakeInterrupt \/ ConsumeSteer
      BY <1>3, <1>5, <2>1 DEF AcceptStart, DropStart, RefuseStart, AcceptSteer,
             RefuseSteer, TakeInterrupt, ConsumeSteer, budgetVars
    <2>2. CASE \/ \E stale \in (over \cap app.done) \cup {None} : AnswerHydrate(stale)
               \/ \E t \in accepted : StartTurn(t) \/ RejectTurn(t)
               \/ \E t \in running \cup over : Stream(t)
      BY <1>3, <1>5, <2>2 DEF AnswerHydrate, StartTurn, RejectTurn, Stream, budgetVars
    <2>3. CASE \/ \E t \in running : DropSteers(t) \/ Abort(t)
               \/ \E t \in running, o \in {"success", "error", "idle"} : Complete(t, o)
               \/ \E kind \in {"error", "cap"} : OtherRequestFails(kind)
      BY <1>3, <1>5, <2>3 DEF DropSteers, Abort, Complete, Ends, OtherRequestFails, budgetVars
    <2> QED BY <1>2, <1>4, <1>7, <2>1, <2>2, <2>3 DEF ServerSteps
  <1>8. CASE LinkDies \/ LinkBoots \/ LinkOpens \/ ReadInbox \/ UNCHANGED vars
    BY <1>3, <1>5, <1>8 DEF LinkDies, LinkBoots, LinkOpens, ReadInbox, budgetVars, vars
  <1> QED BY <1>6, <1>7, <1>8 DEF Next

LEMMA NextTrusted ==
    ASSUME Truthful, Sound, Trusted, [Next]_vars
    PROVE  Trusted'
  <1>1. misled' = {} /\ app.stash = <<>>
    BY StaysUnmisled DEF Trusted
  <1>2. app.steering = "off"
    BY DEF Truthful, Sound, BudgetSound, StoreSound
  <1>3. CASE User \/ Clock
    BY <1>1, <1>2, <1>3, UserUnsteered DEF Trusted
  <1>4. CASE ServerSteps
    BY <1>1, <1>4, ServerUnsteered DEF Trusted
  <1>5. CASE LinkDies \/ LinkBoots \/ LinkOpens \/ ReadInbox
    BY <1>1, <1>5, ChildUnsteered DEF Trusted
  <1>6. CASE UNCHANGED vars
    BY <1>1, <1>6 DEF vars, Trusted
  <1> QED BY <1>3, <1>4, <1>5, <1>6 DEF Next

(* With one session and servers that mislead nobody, no prompt is ever lost: *)
(* every prompt the user types stays in the queue or in the gate until a     *)
(* turn of it starts or the server rejects that turn, through any number of  *)
(* dropped requests and of deaths of the child.                              *)
THEOREM PromptsAreKept ==
    ASSUME ~BusyBoots, ~SlowStarts, Truthful, Sessions = {Home}
    PROVE  Spec => []PromptKept
  <1>1. Init => Trusted
    BY DEF Init, Trusted
  <1>2. Firm /\ Trusted /\ [Next]_vars => Trusted'
    BY NextTrusted DEF Firm
  <1>3. Spec => []Trusted
    BY <1>1, <1>2, AlwaysFirm, PTL DEF Spec
  <1>4. Outlived
    BY DEF Truthful, Outlived
  <1>5. Trusted /\ (misled = {} => PromptKept) => PromptKept
    BY DEF Trusted
  <1> QED BY <1>3, <1>4, <1>5, NoPromptLost, PTL

-----------------------------------------------------------------------------
(* Many sessions. While the child lives and drops no request, and the store  *)
(* is not misled, every gate in flight waits for a turn that is under way.   *)

Lasting == \A v \in Servers : {"death", "drop"} \cap v.kinds = {}

(* The gates in flight of a hold turns of X. *)
GatesIn(a, X) == \A s \in Sessions : a.gate[s].turn # None => a.gate[s].turn \in X

Expected == misled = {} => GatesIn(app, Starts(wire) \cup accepted)

(* What is new in b's table of turns is sent. *)
SendsNew(a, b) == DOMAIN b.turns \subseteq DOMAIN a.turns \cup Starts(b.out)

LEMMA PlainNew ==
    ASSUME NEW a \in AppType, NEW b \in AppType, a.out = <<>>, Plain(a, b)
    PROVE  SendsNew(a, b)
  <1>1. CASE b.turns = a.turns
    BY <1>1 DEF SendsNew
  <1>2. CASE \E p : Submits(a, b, p)
    <2> PICK p : Submits(a, b, p)
      BY <1>2
    <2> DEFINE t == Len(a.turns) + 1
               e == [sess |-> b.sel, prompt |-> p]
               c == Cmd("start", b.sel, t, p)
    <2>1. /\ b.turns = Append(a.turns, e) /\ b.out = <<c>> /\ p \in PromptNo
      BY DEF Submits
    <2>2. e \in TurnType
      BY <2>1, Fields DEF TurnType, PromptNo
    <2>3. DOMAIN b.turns = DOMAIN a.turns \cup {t}
      <3> HIDE DEF e
      <3>1. /\ a.turns \in TurnTables /\ b.turns \in TurnTables /\ Len(a.turns) \in Nat
            /\ Len(b.turns) = t /\ DOMAIN a.turns = 1..Len(a.turns)
            /\ DOMAIN b.turns = 1..Len(b.turns)
        BY <2>1, <2>2, Fields, TableFacts
      <3> QED BY <3>1
    <2>4. t \in Starts(b.out)
      <3>1. 1 \in DOMAIN b.out /\ b.out[1].kind = "start" /\ b.out[1].turn = t
        BY <2>1 DEF Cmd
      <3> QED BY <3>1 DEF Starts, StartPlaces
    <2> QED BY <2>3, <2>4 DEF SendsNew
  <1> QED BY <1>1, <1>2 DEF Plain, Unsubmitted

(* A handler that takes no prompt arms gates for new turns only. *)
LEMMA ShiftsGates ==
    ASSUME NEW a, NEW b, NEW X, GatesIn(a, X), Clean(a, X, {}),
           \A Y, Q : Shifts(a, b, Y, Q), SendsNew(a, b)
    PROVE  GatesIn(b, X \cup Starts(b.out)) /\ Clean(b, X, {})
  <1> DEFINE R == DOMAIN a.turns \ X
  <1>1. Clean(a, X, R)
    BY DEF Clean, GatesIn
  <1>2. Clean(b, X, R)
    BY <1>1 DEF Shifts
  <1>3. Clean(b, X, {})
    BY DEF Shifts
  <1> QED BY <1>2, <1>3 DEF Clean, GatesIn, SendsNew

(* The event loop takes a handler's result over. *)
LEMMA StepExpected ==
    ASSUME Sound, link = "up", NEW a \in AppType, NEW w \in Seq(CmdType), Run(a, w),
           GatesIn(a, Starts(w) \cup accepted' \cup Starts(a.out))
    PROVE  Expected'
  <1>1. wire' = w \o a.out /\ app'.gate = a.gate
    BY TurnsKnown, RunLatch
  <1>2. a.out \in Seq(CmdType)
    BY Fields DEF Outputs
  <1>3. Starts(wire') = Starts(w) \cup Starts(a.out)
    BY <1>1, <1>2, StartsConcat
  <1> QED BY <1>1, <1>3 DEF Expected, GatesIn

(* A handler that takes no prompt, and a request it may have answered.       *)
LEMMA ShiftsExpected ==
    ASSUME Firm, Placed, Expected, misled = {}, link = "up", accepted' = accepted,
           NEW a, Fit(a, app.turns), Plain(app, a), \A Y, Q : Shifts(app, a, Y, Q),
           NEW w \in Seq(CmdType), Starts(wire) \subseteq Starts(w), Run(a, w)
    PROVE  Expected'
  <1> DEFINE X == Starts(wire) \cup accepted
  <1>1. /\ app \in AppType /\ a \in AppType /\ app.out = <<>> /\ Sound
    BY TurnsKnown DEF Firm, Fit
  <1>2. Clean(app, X, {})
    BY PlacesLess DEF Placed, Clear, Stored, Clean
  <1>3. GatesIn(app, X)
    BY DEF Expected
  <1> HIDE DEF X
  <1>4. GatesIn(a, X \cup Starts(a.out))
    BY <1>1, <1>2, <1>3, PlainNew, ShiftsGates
  <1>5. GatesIn(a, Starts(w) \cup accepted' \cup Starts(a.out))
    BY <1>4 DEF GatesIn, X
  <1> QED BY <1>1, <1>5, StepExpected

(* The gates stay as they are, and so do the turns under way. *)
LEMMA StillExpected ==
    ASSUME Expected, misled = {}, Starts(wire) \cup accepted \subseteq Starts(wire') \cup accepted',
           \A s \in Sessions : app'.gate[s].turn = app.gate[s].turn
    PROVE  Expected'
  BY DEF Expected, GatesIn

(* The oldest request, which is no start, is answered. *)
LEMMA StartsStay ==
    ASSUME NEW w \in Seq(CmdType), w # <<>>
    PROVE  /\ Tail(w) \in Seq(CmdType) /\ Head(w) \in CmdType
           /\ Head(w).kind # "start" => Starts(w) \subseteq Starts(Tail(w))
           /\ Starts(w) \subseteq Starts(Tail(w)) \cup {Head(w).turn}
  <1> DEFINE v == Tail(w)
  <1>1. /\ Head(w) = w[1] /\ v \in Seq(CmdType) /\ Head(w) \in CmdType
        /\ \A i \in DOMAIN w : i = 1 \/ (i - 1 \in DOMAIN v /\ v[i - 1] = w[i])
    BY HeadTailProperties
  <1> HIDE DEF v
  <1>2. \A i \in StartPlaces(w) : i = 1 \/ w[i].turn \in Starts(v)
    BY <1>1 DEF StartPlaces, Starts
  <1>3. Head(w).kind # "start" => 1 \notin StartPlaces(w)
    BY <1>1 DEF StartPlaces
  <1>4. Starts(w) \subseteq Starts(v) \cup {w[1].turn}
    BY <1>2 DEF Starts
  <1>5. Head(w).kind # "start" => Starts(w) \subseteq Starts(v)
    BY <1>2, <1>3 DEF Starts
  <1> QED BY <1>1, <1>4, <1>5 DEF v

LEMMA ExpectedClean ==
    ASSUME Placed, Expected, misled = {}
    PROVE  LET X == Starts(wire) \cup accepted IN GatesIn(app, X) /\ Clean(app, X, {})
  BY PlacesLess DEF Placed, Clear, Stored, Expected

(* The gates stay as they are while a request is answered or an event read. *)
LEMMA SameExpected ==
    ASSUME Sound, Expected, misled = {}, link = "up", accepted' = accepted, NEW a \in AppType,
           \A s \in Sessions : a.gate[s].turn = app.gate[s].turn, NEW w \in Seq(CmdType),
           Starts(wire) \subseteq Starts(w), Run(a, w)
    PROVE  Expected'
  <1>1. GatesIn(a, Starts(w) \cup accepted' \cup Starts(a.out))
    BY DEF Expected, GatesIn
  <1> QED BY <1>1, StepExpected

(* The turn t has started or ended: its gate is gone. *)
LEMMA ReleasedGates ==
    ASSUME NEW a \in AppType, NEW c \in AppType, NEW t, NEW X, GatesIn(a, X), Clean(a, X, {}),
           Fewer(a, c),
           c.gate = [a.gate EXCEPT ![TurnSession(a, t)] = IF @.turn = t THEN NoGate ELSE @]
    PROVE  GatesIn(c, X \ {t}) /\ Clean(c, X \ {t}, {})
  <1>1. a.gate \in [Sessions -> GateType] /\ NoGate.turn = None
    BY Fields DEF Gates, NoGate
  <1>2. ASSUME NEW s \in Sessions, c.gate[s].turn # None
        PROVE  c.gate[s] = a.gate[s] /\ a.gate[s].turn # t
    <2>1. c.gate[s] = a.gate[s]
      BY <1>2 DEF Fewer
    <2>2. a.gate[s].turn = t => TurnSession(a, t) = s
      BY <1>2, <2>1 DEF Clean, TurnSession
    <2> QED BY <1>1, <1>2, <2>1, <2>2
  <1> QED BY <1>2 DEF GatesIn, Clean, Fewer

LEMMA TypeExpected ==
    ASSUME Firm, Placed, Expected, misled = {}, link = "up", TypePrompt
    PROVE  Expected'
  <1> DEFINE n == Len(typed) + 1
             a == Prompt(app, n)
             X == Starts(wire) \cup accepted
  <1>1. /\ app \in AppType /\ app.out = <<>> /\ wire \in Seq(CmdType) /\ Sound
        /\ app.sel \in Sessions /\ n \in PromptNo
    BY TurnsKnown, Fields DEF Firm, Sound, BudgetSound, PromptNo, None
  <1>2. Run(a, wire) /\ accepted' = accepted
    BY DEF TypePrompt, Acts, Keeps, serverVars
  <1> HIDE DEF n
  <1>3. a \in AppType /\ (Steered(app, a, n) \/ Staged(app, a, n) \/ Sends(app, a, n))
    BY <1>1, PromptData
  <1> HIDE DEF a
  <1>4. CASE a.gate = app.gate
    BY <1>1, <1>2, <1>3, <1>4, SameExpected
  <1>5. CASE Sends(app, a, n)
    <2> DEFINE t == Len(app.turns) + 1
               c == Cmd("start", app.sel, t, n)
    <2>1. /\ a.gate[app.sel] = InFlight(t, n) /\ a.out = <<c>>
          /\ \A s \in Sessions \ {app.sel} : a.gate[s] = app.gate[s]
      BY <1>1, <1>5 DEF Sends, Submitted, Elsewhere
    <2>2. t \in Starts(a.out)
      <3>1. 1 \in DOMAIN a.out /\ a.out[1].kind = "start" /\ a.out[1].turn = t
        BY <2>1 DEF Cmd
      <3> QED BY <3>1 DEF Starts, StartPlaces
    <2>3. a.gate[app.sel].turn = t
      BY <2>1 DEF InFlight
    <2>4. GatesIn(app, X)
      BY ExpectedClean
    <2>5. GatesIn(a, Starts(wire) \cup accepted' \cup Starts(a.out))
      BY <1>2, <2>1, <2>2, <2>3, <2>4 DEF GatesIn
    <2> QED BY <1>1, <1>2, <1>3, <2>5, StepExpected
  <1> QED BY <1>3, <1>4, <1>5 DEF Steered, Staged

LEMMA UserExpected ==
    ASSUME Firm, Placed, Expected, misled = {}, link = "up",
           User \/ \E due \in BOOLEAN : Tick(due)
    PROVE  Expected'
  <1>1. Fit(app, app.turns) /\ app \in AppType /\ wire \in Seq(CmdType)
    BY TurnsKnown DEF Firm
  <1>2. ASSUME NEW a, Acts(a), Fit(a, app.turns), Plain(app, a), \A Y, Q : Shifts(app, a, Y, Q)
        PROVE  Expected'
    <2>1. Run(a, wire) /\ accepted' = accepted
      BY <1>2 DEF Acts, Keeps, serverVars
    <2> QED BY <1>1, <1>2, <2>1, ShiftsExpected
  <1>3. CASE UserInterrupts \/ SendPendingNow
    <2>1. Acts(Interrupt(app))
      BY <1>3 DEF UserInterrupts, SendPendingNow
    <2> QED BY <1>1, <1>2, <2>1, InterruptFit, InterruptShifts
  <1>4. ASSUME NEW s \in Sessions, UserSwitches(s) PROVE Expected'
    <2>1. Acts(Switch(app, s))
      BY <1>4 DEF UserSwitches
    <2> QED BY <1>1, <1>2, <2>1, SwitchFit, SwitchShifts
  <1>5. ASSUME NEW due \in BOOLEAN, Tick(due) PROVE Expected'
    <2>1. Acts(TickOf(app, due))
      BY <1>5 DEF Tick
    <2> QED BY <1>1, <1>2, <2>1, TickFit, TickShifts
  <1> QED BY <1>3, <1>4, <1>5, TypeExpected DEF User

LEMMA AgesExpected ==
    ASSUME Firm, Expected, misled = {}, NEW s \in Sessions, MarkerAges(s) \/ GateAges(s)
    PROVE  Expected'
  <1>1. app \in AppType /\ app.gate \in Gates
    BY TurnsKnown, Fields DEF Firm
  <1>2. UNCHANGED <<wire, accepted>>
    BY DEF MarkerAges, GateAges, serverVars
  <1>3. \A x \in Sessions : app'.gate[x].turn = app.gate[x].turn
    <2>1. CASE MarkerAges(s)
      <3> DEFINE b == [app EXCEPT !.pre[s] = "aged"]
      <3>1. b.gate = app.gate
        BY <1>1, MarkerAgedData
      <3>2. app' = b
        BY <2>1 DEF MarkerAges
      <3> HIDE DEF b
      <3> QED BY <3>1, <3>2
    <2>2. CASE GateAges(s)
      <3> DEFINE b == [app EXCEPT !.gate[s].old = TRUE]
      <3>0. app.gate[s].set /\ app' = b
        BY <2>2 DEF GateAges
      <3>1. b.gate = [app.gate EXCEPT ![s] = [@ EXCEPT !.old = TRUE]]
        BY <1>1, <3>0, GateAgedData
      <3> HIDE DEF b
      <3>2. app.gate[s] \in [turn : Nat, prompt : Nat, old : BOOLEAN, set : BOOLEAN]
        BY <1>1 DEF Gates, GateType
      <3> QED BY <1>1, <3>0, <3>1, <3>2 DEF Gates
    <2> QED BY <2>1, <2>2
  <1> QED BY <1>2, <1>3, StillExpected

LEMMA AnswerExpected ==
    ASSUME Firm, Expected, misled = {},
           AcceptStart \/ TakeInterrupt \/ AcceptSteer \/ RefuseSteer
    PROVE  Expected'
  <1>1. app \in AppType /\ app.out = <<>> /\ wire \in Seq(CmdType) /\ Sound
    BY TurnsKnown DEF Firm
  <1>2. CASE AcceptStart
    <2>1. /\ app' = app /\ wire' = Tail(wire) /\ accepted' = accepted \cup {Head(wire).turn}
          /\ wire # <<>>
      BY <1>2 DEF AcceptStart, Takes
    <2>2. Starts(wire) \subseteq Starts(Tail(wire)) \cup {Head(wire).turn}
      BY <1>1, <2>1, StartsStay
    <2>3. Starts(wire) \cup accepted \subseteq Starts(wire') \cup accepted'
      BY <2>1, <2>2
    <2> QED BY <2>1, <2>3, StillExpected
  <1>3. CASE TakeInterrupt
    <2>1. /\ app' = app /\ wire' = Tail(wire) /\ accepted' = accepted
          /\ wire # <<>> /\ Head(wire).kind = "interrupt"
      BY <1>3 DEF TakeInterrupt, Takes, serverVars
    <2>2. Starts(wire) \subseteq Starts(Tail(wire))
      BY <1>1, <2>1, StartsStay
    <2>3. Starts(wire) \cup accepted \subseteq Starts(wire') \cup accepted'
      BY <2>1, <2>2
    <2> QED BY <2>1, <2>3, StillExpected
  <1>4. CASE AcceptSteer \/ RefuseSteer
    <2>1. /\ Takes("steer")
          /\ Run(SteeredInto(app), Tail(wire)) \/ Run(SteerFailed(app), Tail(wire))
      BY <1>4, SteerTaken
    <2>2. accepted' = accepted
      <3>1. CASE AcceptSteer
        BY <3>1 DEF AcceptSteer
      <3>2. CASE RefuseSteer
        BY <3>2 DEF RefuseSteer, serverVars
      <3> QED BY <1>4, <3>1, <3>2
    <2>3. link = "up" /\ wire # <<>> /\ Head(wire).kind = "steer" /\ app.stash # <<>>
      BY <1>1, <2>1, TakesFacts DEF Takes
    <2>4. \E a \in AppType : a.gate = app.gate /\ Run(a, Tail(wire))
      BY <1>1, <2>1, <2>3, SteeredIntoData, SteerFailedData DEF Popped
    <2>5. Tail(wire) \in Seq(CmdType) /\ Starts(wire) \subseteq Starts(Tail(wire))
      BY <1>1, <2>3, StartsStay
    <2> QED BY <1>1, <2>2, <2>3, <2>4, <2>5, SameExpected
  <1> QED BY <1>2, <1>3, <1>4

LEMMA HydrateExpected ==
    ASSUME Firm, Placed, Expected, misled = {}, NEW stale, AnswerHydrate(stale)
    PROVE  Expected'
  <1> DEFINE s == Head(wire).sess
             Mine(ts) == {t \in ts : t # None /\ TurnSession(app, t) = s}
             active == Mine(running \cup {stale})
             told == active \cap app.done
             t1 == CHOOSE t \in told : TRUE
             ended == Mine(over \ {stale})
             a == IF told # {} THEN Refresh(app, s, t1)
                  ELSE Hydrated(app, s, ended, active, answered)
  <1>1. /\ Takes("hydrate") /\ Run(a, Tail(wire)) /\ accepted' = accepted
    BY DEF AnswerHydrate, serverVars
  <1>2. s \in Sessions
    BY <1>1, TakesFacts DEF CmdType, Firm
  <1>3. told \subseteq app.done /\ ended \subseteq over /\ None \notin ended
    OBVIOUS
  <1> HIDE DEF ended, active, told
  <1>4. /\ Fit(app, app.turns) /\ app \in AppType /\ app.done \in SUBSET Nat
        /\ wire \in Seq(CmdType)
    BY <1>1, TurnsKnown, Fields DEF Firm
  <1>5. told # {} => t1 \in Nat
    BY <1>3, <1>4
  <1> HIDE DEF t1, s
  <1>6. Fit(a, app.turns) /\ Plain(app, a) /\ \A Y, Q : Shifts(app, a, Y, Q)
    <2>1. CASE told # {}
      <3> DEFINE b == Refresh(app, s, t1)
      <3>1. b \in AppType /\ Plain(app, b) /\ Fit(b, app.turns) /\ Fewer(app, b)
        BY <1>2, <1>4, <1>5, <2>1, RefreshData, RefreshFit, RefreshFewer
      <3>2. a = b
        BY <2>1
      <3> HIDE DEF a, b
      <3> QED BY <1>4, <3>1, <3>2, FewerShifts
    <2>2. CASE told = {}
      <3> DEFINE b == Hydrated(app, s, ended, active, answered)
      <3>1. Fit(b, app.turns) /\ Plain(app, b)
        BY <1>2, <1>3, <1>4, HydratedFit
      <3>2. \A Y, Q : Shifts(app, b, Y, Q)
        BY <1>2, <1>4, HydratedShifts
      <3>3. a = b
        BY <2>2
      <3> HIDE DEF a, b
      <3> QED BY <3>1, <3>2, <3>3
    <2> QED BY <2>1, <2>2
  <1> HIDE DEF a
  <1>7. link = "up" /\ Tail(wire) \in Seq(CmdType) /\ Starts(wire) \subseteq Starts(Tail(wire))
    BY <1>1, <1>4, StartsStay DEF Takes
  <1> QED BY <1>1, <1>6, <1>7, ShiftsExpected

LEMMA StartTurnExpected ==
    ASSUME Firm, Placed, Expected, misled = {}, NEW t, StartTurn(t)
    PROVE  Expected'
  <1> DEFINE a == Started(app, t)
             X == Starts(wire) \cup accepted
  <1>1. link = "up" /\ t \in accepted /\ accepted' = accepted \ {t} /\ Run(a, wire)
    BY DEF StartTurn, Keeps
  <1>2. /\ app \in AppType /\ t \in Nat \ {None} /\ TurnSession(app, t) \in Sessions
        /\ t \notin app.done /\ t \notin Starts(wire) /\ wire \in Seq(CmdType) /\ Sound
    BY <1>1, TurnsKnown DEF Firm, TurnsRan, Ran
  <1>3. /\ a \in AppType /\ Fewer(app, a)
        /\ a.gate = [app.gate EXCEPT ![TurnSession(app, t)] = IF @.turn = t THEN NoGate ELSE @]
    BY <1>2, StartedData, EventFewer
  <1> HIDE DEF a
  <1>4. GatesIn(app, X) /\ Clean(app, X, {})
    BY ExpectedClean
  <1>5. X \ {t} = Starts(wire) \cup accepted'
    BY <1>1, <1>2
  <1> HIDE DEF X
  <1>6. GatesIn(a, X \ {t})
    BY <1>2, <1>3, <1>4, ReleasedGates
  <1>7. GatesIn(a, Starts(wire) \cup accepted' \cup Starts(a.out))
    BY <1>5, <1>6 DEF GatesIn
  <1> QED BY <1>1, <1>2, <1>3, <1>7, StepExpected

(* A turn ends, one that ran or one that was accepted and never starts. *)
LEMMA EndsExpected ==
    ASSUME Firm, Placed, Expected, misled = {}, link = "up", NEW t,
           \/ RejectTurn(t) \/ Abort(t)
           \/ \E o \in {"success", "error", "idle"} : Complete(t, o)
    PROVE  Expected'
  <1> DEFINE X == Starts(wire) \cup accepted
  <1>1. \/ t \in running /\ accepted' = accepted
        \/ t \in accepted /\ accepted' = accepted \ {t}
    BY DEF RejectTurn, Abort, Complete, Ends
  <1>2. /\ app \in AppType /\ t \in Nat /\ t # None /\ t \in DOMAIN app.turns
        /\ TurnSession(app, t) \in Sessions
        /\ Fit(app, app.turns) /\ app.out = <<>> /\ Sound /\ wire \in Seq(CmdType)
    BY <1>1, TurnsKnown DEF Firm
  <1>3. \E a : Fit(a, app.turns) /\ Plain(app, a) /\ Concluded(app, a, t) /\ Keeps(a)
    <2>1. ASSUME NEW o \in {"success", "error", "idle"}, Keeps(Commit(app, t, o))
          PROVE  \E a : Fit(a, app.turns) /\ Plain(app, a) /\ Concluded(app, a, t) /\ Keeps(a)
      BY <1>2, <2>1, CommitFit, CommitData
    <2>2. ASSUME NEW interrupt, Keeps(Fail(app, t, interrupt))
          PROVE  \E a : Fit(a, app.turns) /\ Plain(app, a) /\ Concluded(app, a, t) /\ Keeps(a)
      BY <1>2, <2>2, FailFit, FailData
    <2> QED BY <2>1, <2>2 DEF RejectTurn, Abort, Complete
  <1> PICK a : Fit(a, app.turns) /\ Plain(app, a) /\ Concluded(app, a, t) /\ Keeps(a)
    BY <1>3
  <1>4. a \in AppType /\ Run(a, wire)
    BY DEF Fit, Keeps
  <1>5. /\ \A Y, Q : Shifts(app, a, Y, Q)
        /\ \E c \in AppType :
              /\ Fewer(app, c) /\ c.gate = [app.gate EXCEPT ![TurnSession(app, t)] =
                                               IF @.turn = t THEN NoGate ELSE @]
              /\ \A Y, Q : Shifts(c, a, Y, Q)
    BY <1>2, <1>4, ConcludedPlaces
  <1>6. CASE accepted' = accepted
    BY <1>2, <1>4, <1>5, <1>6, ShiftsExpected
  <1>7. CASE t \in accepted /\ accepted' = accepted \ {t}
    <2> PICK c \in AppType :
              /\ Fewer(app, c) /\ c.gate = [app.gate EXCEPT ![TurnSession(app, t)] =
                                               IF @.turn = t THEN NoGate ELSE @]
              /\ \A Y, Q : Shifts(c, a, Y, Q)
      BY <1>5
    <2>1. GatesIn(app, X) /\ Clean(app, X, {})
      BY ExpectedClean
    <2>2. X \ {t} = Starts(wire) \cup accepted'
      BY <1>7 DEF Firm, TurnsRan, Ran
    <2> HIDE DEF X
    <2>3. GatesIn(c, X \ {t}) /\ Clean(c, X \ {t}, {})
      BY <1>2, <2>1, ReleasedGates
    <2>4. SendsNew(c, a)
      BY <1>2, <1>4, PlainNew DEF Fewer, SendsNew
    <2>5. GatesIn(a, (X \ {t}) \cup Starts(a.out))
      BY <2>3, <2>4, ShiftsGates
    <2>6. GatesIn(a, Starts(wire) \cup accepted' \cup Starts(a.out))
      BY <2>2, <2>5
    <2> QED BY <1>2, <1>4, <2>6, StepExpected
  <1> QED BY <1>1, <1>6, <1>7

(* What the server reports of a running turn touches no gate. *)
LEMMA ReportExpected ==
    ASSUME Firm, Expected, misled = {}, link = "up",
           \/ ConsumeSteer \/ \E t \in running : DropSteers(t)
           \/ \E t \in running \cup over : Stream(t)
    PROVE  Expected'
  <1>1. /\ app \in AppType /\ Sound /\ wire \in Seq(CmdType)
        /\ \A t \in running \cup over : t \in Nat \ {None} /\ TurnSession(app, t) \in Sessions
    BY TurnsKnown DEF Firm
  <1>2. accepted' = accepted
    BY DEF ConsumeSteer, DropSteers, Stream, serverVars
  <1>3. \E a \in AppType : a.gate = app.gate /\ Run(a, wire)
    <2>1. CASE ConsumeSteer
      <3>1. Run(Echo(app, Head(inputs).prompt), wire) \/ Run(app, wire)
        BY <2>1 DEF ConsumeSteer, Keeps
      <3> QED BY <1>1, <3>1, EchoData DEF Returned
    <2>2. ASSUME NEW t \in running, DropSteers(t)
          PROVE  \E a \in AppType : a.gate = app.gate /\ Run(a, wire)
      <3>1. Run(SteersDropped(app, t, {inputs[i].prompt : i \in PendingInputs(t)}), wire)
        BY <2>2 DEF DropSteers, Keeps
      <3> QED BY <1>1, <3>1, SteersDroppedData DEF Returned
    <2>3. ASSUME NEW t \in running \cup over, Stream(t)
          PROVE  \E a \in AppType : a.gate = app.gate /\ Run(a, wire)
      <3>1. Run(Delta(app, t), wire) \/ Run(Tool(app, t), wire)
        BY <2>3 DEF Stream, Keeps
      <3>2. CASE Run(Delta(app, t), wire)
        <4> DEFINE a == Delta(app, t)
        <4>1. /\ a \in AppType /\ Run(a, wire)
              /\ a = app \/ Withheld(app, a) \/ (Bound(app, a, t) /\ a.gate = app.gate)
          BY <1>1, <3>2, DeltaData
        <4> HIDE DEF a
        <4> QED BY <4>1 DEF Withheld
      <3>3. CASE Run(Tool(app, t), wire)
        BY <1>1, <3>3, ToolData
      <3> QED BY <3>1, <3>2, <3>3
    <2> QED BY <2>1, <2>2, <2>3
  <1> PICK a \in AppType : a.gate = app.gate /\ Run(a, wire)
    BY <1>3
  <1> QED BY <1>1, <1>2, SameExpected

(* Until the store is misled, a turn a gate waits for is under way, so its   *)
(* session shows no other and, on screen, works.                            *)
LEMMA ExpectedGuarded ==
    ASSUME Placed, Single, Expected
    PROVE  Guarded
  <1> SUFFICES ASSUME misled = {}, NEW s \in Sessions, app.gate[s].turn # None
               PROVE  app.live[s] = None /\ (s = app.sel => app.run = "working")
    BY DEF Guarded
  <1>1. app.gate[s].turn \in Starts(wire) \cup accepted
    BY DEF Expected, GatesIn
  <1>2. TurnSession(app, app.gate[s].turn) = s
    BY ExpectedClean DEF Clean, TurnSession
  <1>3. Awaits(app, app.gate[s].turn)
    BY <1>1 DEF Single
  <1> QED BY <1>2, <1>3 DEF Awaits

LEMMA NextExpected ==
    ASSUME Lasting, Firm, Placed, Alive, Expected, [Next]_vars
    PROVE  Expected'
  <1> SUFFICES ASSUME misled' = {} PROVE Expected'
    BY DEF Expected
  <1>0. /\ misled = {} /\ ~RefuseStart /\ ~StartForSteer /\ \A s \in Sessions : ~StartOwnTurn(s)
        /\ \A kind \in {"error", "cap"} : ~OtherRequestFails(kind)
    BY MisledGrows
  <1>1. "death" \notin server.kinds /\ "drop" \notin server.kinds
    BY DEF Lasting, Firm, Sound, BudgetSound
  <1>2. link = "up" /\ inbox = <<>>
    BY <1>1 DEF Alive
  <1>3. ~DropStart /\ ~LinkDies /\ ~LinkBoots /\ ~LinkOpens /\ ~ReadInbox
    BY <1>1, <1>2 DEF DropStart, LinkDies, LinkBoots, LinkOpens, ReadInbox, Fault
  <1>4. CASE User \/ Clock
    BY <1>0, <1>2, <1>4, UserExpected, AgesExpected DEF Clock
  <1>5. CASE ServerSteps
    <2>1. CASE AcceptStart \/ TakeInterrupt \/ AcceptSteer \/ RefuseSteer
      BY <1>0, <2>1, AnswerExpected
    <2>2. CASE \/ ConsumeSteer \/ \E t \in running : DropSteers(t)
               \/ \E t \in running \cup over : Stream(t)
      BY <1>0, <1>2, <2>2, ReportExpected
    <2>3. CASE \E stale \in (over \cap app.done) \cup {None} : AnswerHydrate(stale)
      BY <1>0, <2>3, HydrateExpected
    <2>4. CASE \/ \E t \in accepted : RejectTurn(t)
               \/ \E t \in running : Abort(t)
               \/ \E t \in running, o \in {"success", "error", "idle"} : Complete(t, o)
      BY <1>0, <1>2, <2>4, EndsExpected
    <2>5. CASE \E t \in accepted : StartTurn(t)
      BY <1>0, <2>5, StartTurnExpected
    <2> QED BY <1>0, <1>3, <1>5, <2>1, <2>2, <2>3, <2>4, <2>5 DEF ServerSteps
  <1>6. CASE UNCHANGED vars
    <2>1. UNCHANGED <<app, wire, accepted>>
      BY <1>6 DEF vars
    <2> QED BY <1>0, <2>1 DEF Expected, GatesIn
  <1> QED BY <1>3, <1>4, <1>5, <1>6 DEF Next

LEMMA InitExpected == Init => Expected
  <1> SUFFICES ASSUME Init PROVE Expected
    OBVIOUS
  <1>1. app.gate = [s \in Sessions |-> NoGate]
    BY DEF Init
  <1> QED BY <1>1 DEF Expected, GatesIn, NoGate

(* With any sessions, no prompt is lost by the switches between them, by     *)
(* interrupts, refused steers or rejected turns, and in any order of the     *)
(* server's answers, until the store is misled; as long as the child lives   *)
(* and the server does not drop a turn/start. PRE_TOKEN_TURN_TTL and the     *)
(* switch back forget a dropped one, and the next prompt takes its gate.     *)
THEOREM NoPromptLostAnywhere ==
    ASSUME ~BusyBoots, ~SlowStarts, Lasting
    PROVE  Spec => [](misled = {} => PromptKept)
  <1>1. Outlived
    BY DEF Lasting, Outlived
  <1>2. Firm /\ Placed /\ Alive /\ Expected /\ [Next]_vars => Expected'
    BY NextExpected
  <1>3. Spec => []Expected
    BY <1>2, InitExpected, AlwaysFirm, AlwaysPlaced, AlwaysAlive, PTL DEF Spec
  <1>4. Firm /\ Placed /\ Alive /\ Single /\ Expected /\ Safe /\ [Next]_vars => Safe'
    BY <1>1, NextSafe, ExpectedGuarded
  <1>5. Spec => []Safe
    BY <1>3, <1>4, InitSafe, AlwaysFirm, AlwaysPlaced, AlwaysAlive, AlwaysSingle, PTL DEF Spec
  <1> QED BY <1>5, SafeKept, PTL
=============================================================================
