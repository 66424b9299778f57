------------------------- MODULE ProtocolBackendFate -------------------------
(***************************************************************************)
(* Proof that the transport keeps the promise of CommandFate for every      *)
(* limit, server and number of commands: no command of the store is put     *)
(* back after it was sent, or sent after it was reported, and none ends     *)
(* without an event but the open whose session is opened again.             *)
(*                                                                          *)
(* A command is in one place: a frame of send, the deferred queue, or the   *)
(* pending requests. Handlers nest, so the invariant also says where the    *)
(* frame of a command may be, and who reports the command if an Err pops    *)
(* that frame.                                                              *)
(***************************************************************************)
EXTENDS ProtocolBackendSafety

(* The frames whose command is neither queued nor sent, and the one that    *)
(* dials again for a command already tracked.                               *)
CarryOps == HoldOps \cup {"transmit"}

CarriedIds == {Id(i) : i \in {j \in DOMAIN stack : Op(j) \in CarryOps}}
CallerIds == {Id(i) : i \in {j \in DOMAIN stack : Op(j) = "returned"}}

(* A command of the store is in one frame; below it is the call of the      *)
(* event loop, which reports an Err, or a flush, above which there is none. *)
OneHolder ==
    \A i, j \in DOMAIN stack :
        Op(i) \in CarryOps /\ Op(j) \in CarryOps /\ Id(i) = Id(j) => i = j \/ Id(i) = 0
CallerLast ==
    \A i \in DOMAIN stack : Op(i) = "returned" =>
        /\ i = Len(stack) /\ Id(i) # 0
        /\ i > 1 => Op(i - 1) \in CarryOps /\ Id(i - 1) = Id(i)
Owned ==
    \A i \in DOMAIN stack : Op(i) \in CarryOps /\ Id(i) # 0 =>
        \/ i + 1 \in DOMAIN stack /\ Op(i + 1) = "returned" /\ Id(i + 1) = Id(i)
        \/ \E j \in DOMAIN stack : j > i /\ Op(j) = "flush"

(* Only the event loop pushes these, and onto an empty stack: below them    *)
(* nobody waits for a link with a request tracked.                          *)
EntryOps == {"clock", "poll"}
EntryFirst ==
    \A i, j \in DOMAIN stack : i < j /\ Op(i) \in EntryOps => Op(j) # "transmit"
Callers == OneHolder /\ CallerLast /\ Owned /\ EntryFirst

SentIds == RequestIds(pending)

(* Commands not yet issued are nowhere. *)
Known ==
    /\ CarriedIds \cup CallerIds \cup DeferredIds \cup SentIds \subseteq 0..issued
    /\ \A c \in 1..MaxCommands : c > issued => reports[c] = 0

(* The places of a command exclude each other, and what is held, waits or   *)
(* has failed has not been put anywhere else.                               *)
Apart ==
    /\ \A c \in HeldIds \ {0} : reports[c] = 0 /\ c \notin SentIds
    /\ \A c \in CarriedIds \ {0} : c \notin DeferredIds
    /\ \A c \in DeferredIds \ {0} : reports[c] = 0 /\ c \notin SentIds /\ ~Failing(c)
    /\ \A i, j \in DOMAIN deferred :
          deferred[i].id = deferred[j].id => i = j \/ deferred[i].id = 0

(* The command has its event, or somebody still has the command.            *)
Live(c) == reports[c] > 0 \/ c \in SentIds \cup DeferredIds \cup HeldIds \/ Failing(c)

(* No handler has a command that was dropped. *)
CarriedLive == \A c \in CarriedIds \ {0} : Live(c)

(* The request that a negotiation's deadline drops is no command's.         *)
HelloIds ==
    /\ hello <= nextId
    /\ \A r \in pending : r.id <= nextId /\ (r.id = hello => r.cmd.id = 0)

(* Everything a step needs to know of the places of the commands. *)
PlaceInv == Callers /\ Known /\ Apart /\ CarriedLive /\ HelloIds

(* The request that a barrier waits for is the open of its session.         *)
BarrierOpens ==
    /\ barrier.id <= nextId
    /\ \A r \in pending : r.id = barrier.id => IsOpen(r.cmd) /\ r.cmd.sess = barrier.sess
    /\ \A r, q \in pending : r.id = barrier.id /\ q.id = barrier.id => r = q

-----------------------------------------------------------------------------
(* The frames after a return. *)
LEMMA PopData ==
    ASSUME TypeOK, stack # <<>>, Return
    PROVE  /\ Len(stack) \in Nat \ {0} /\ DOMAIN stack = 1..Len(stack)
           /\ DOMAIN stack' = 1..(Len(stack) - 1) /\ Len(stack') = Len(stack) - 1
           /\ \A i \in 1..(Len(stack) - 1) : stack'[i] = stack[i + 1]
           /\ stack' = <<>> <=> Len(stack) = 1
  <1>1. stack \in Seq(Frame) /\ stack' = Tail(stack) /\ Tail(stack) \in Seq(Frame)
    BY HeadData DEF TypeOK, Return
  <1>2. /\ Len(stack) \in Nat \ {0} /\ DOMAIN stack = 1..Len(stack)
        /\ DOMAIN stack' = 1..(Len(stack) - 1) /\ Len(stack') = Len(stack) - 1
        /\ \A i \in 1..(Len(stack) - 1) : stack'[i] = stack[i + 1]
    BY <1>1, TailData
  <1>3. stack' = <<>> <=> Len(stack') = 0
    BY <1>1, EmptySeq
  <1> QED BY <1>2, <1>3

LEMMA Returned ==
    ASSUME TypeOK, Callers, stack # <<>>, Return
    PROVE  /\ Callers'
           /\ HeldIds' \subseteq HeldIds /\ CarriedIds' \subseteq CarriedIds
           /\ CallerIds' \subseteq CallerIds
           /\ \A c \in HeldIds : c \in HeldIds' \/ (Op(1) \in HoldOps /\ c = Id(1))
           /\ \A c \in CallerIds : c \in CallerIds' \/ (Op(1) = "returned" /\ c = Id(1))
           /\ Op(1) \in CarryOps /\ Id(1) # 0 => Id(1) \notin CarriedIds'
           /\ stack' # <<>> /\ Op(1)' = "returned" => Op(1) \in CarryOps /\ Id(1)' = Id(1)
           /\ Op(1) = "returned" => stack' = <<>> /\ CarriedIds = {}
           /\ Op(1) \in CarryOps /\ Id(1) # 0 =>
                 \/ stack' # <<>> /\ Op(1)' = "returned" /\ Id(1)' = Id(1)
                 \/ \E j \in DOMAIN stack : Op(j) = "flush"
  <1> DEFINE n == Len(stack)
  <1>1. /\ n \in Nat \ {0} /\ DOMAIN stack = 1..n
        /\ DOMAIN stack' = 1..(n - 1) /\ Len(stack') = n - 1
        /\ \A i \in 1..(n - 1) : stack'[i] = stack[i + 1]
        /\ stack' = <<>> <=> n = 1
    BY PopData
  <1>0. Len(stack) = n
    OBVIOUS
  <1> HIDE DEF n
  <1>2. \A i \in 1..(n - 1) : i + 1 \in 1..n /\ Op(i)' = Op(i + 1) /\ Id(i)' = Id(i + 1)
    BY <1>1 DEF Op, Id
  <1>3. \A i \in 1..n : i # 1 => i - 1 \in 1..(n - 1) /\ Op(i - 1)' = Op(i) /\ Id(i - 1)' = Id(i)
    <2> SUFFICES ASSUME NEW i \in 1..n, i # 1
                 PROVE  i - 1 \in 1..(n - 1) /\ Op(i - 1)' = Op(i) /\ Id(i - 1)' = Id(i)
      OBVIOUS
    <2>1. i - 1 \in 1..(n - 1) /\ (i - 1) + 1 = i
      BY <1>1
    <2> QED BY <1>2, <2>1
  <1>4. OneHolder'
    <2> SUFFICES ASSUME NEW i \in 1..(n - 1), NEW j \in 1..(n - 1), Op(i)' \in CarryOps,
                        Op(j)' \in CarryOps, Id(i)' = Id(j)'
                 PROVE  i = j \/ Id(i)' = 0
      BY <1>1 DEF OneHolder, CarryOps, HoldOps
    <2>1. i + 1 = j + 1 \/ Id(i + 1) = 0
      BY <1>1, <1>2 DEF Callers, OneHolder
    <2> QED BY <1>2, <2>1
  <1>5. CallerLast'
    <2> SUFFICES ASSUME NEW i \in 1..(n - 1), Op(i)' = "returned"
                 PROVE  /\ i = n - 1 /\ Id(i)' # 0
                        /\ i > 1 => Op(i - 1)' \in CarryOps /\ Id(i - 1)' = Id(i)'
      BY <1>1 DEF CallerLast, CarryOps, HoldOps
    <2>0. i + 1 \in 1..n /\ Op(i + 1) = "returned"
      BY <1>2
    <2>1. /\ i + 1 = n /\ Id(i + 1) # 0
          /\ i + 1 > 1 => Op(i + 1 - 1) \in CarryOps /\ Id(i + 1 - 1) = Id(i + 1)
      <3>1. \A k \in 1..n : Op(k) = "returned" =>
                /\ k = n /\ Id(k) # 0
                /\ k > 1 => Op(k - 1) \in CarryOps /\ Id(k - 1) = Id(k)
        BY <1>0, <1>1 DEF Callers, CallerLast
      <3> QED BY <2>0, <3>1
    <2>2. i + 1 > 1 /\ i + 1 - 1 = i /\ i \in 1..n
      BY <1>1
    <2>3. i > 1 => Op(i - 1)' = Op(i) /\ Id(i - 1)' = Id(i)
      BY <1>3, <2>2
    <2> QED BY <1>1, <1>2, <2>1, <2>2, <2>3
  <1>6. Owned'
    <2> SUFFICES ASSUME NEW i \in 1..(n - 1), Op(i)' \in CarryOps, Id(i)' # 0
                 PROVE  \/ i + 1 \in 1..(n - 1) /\ Op(i + 1)' = "returned" /\ Id(i + 1)' = Id(i)'
                        \/ \E j \in 1..(n - 1) : j > i /\ Op(j)' = "flush"
      BY <1>1 DEF Owned, CarryOps, HoldOps
    <2>1. CASE i + 1 + 1 \in 1..n /\ Op(i + 1 + 1) = "returned" /\ Id(i + 1 + 1) = Id(i + 1)
      <3>1. i + 1 \in 1..(n - 1)
        BY <1>1, <2>1
      <3> QED BY <1>2, <2>1, <3>1
    <2>2. ASSUME NEW j \in 1..n, j > i + 1, Op(j) = "flush"
          PROVE  \E k \in 1..(n - 1) : k > i /\ Op(k)' = "flush"
      <3>1. j # 1 /\ j - 1 > i
        BY <2>2
      <3> QED BY <1>3, <2>2, <3>1
    <2> QED BY <1>1, <1>2, <2>1, <2>2 DEF Callers, Owned
  <1>7. /\ HeldIds' \subseteq HeldIds /\ CarriedIds' \subseteq CarriedIds
        /\ CallerIds' \subseteq CallerIds
    BY <1>1, <1>2 DEF HeldIds, CarriedIds, CallerIds, HoldOps, CarryOps
  <1>8. /\ \A c \in HeldIds : c \in HeldIds' \/ (Op(1) \in HoldOps /\ c = Id(1))
        /\ \A c \in CallerIds : c \in CallerIds' \/ (Op(1) = "returned" /\ c = Id(1))
    <2>1. ASSUME NEW i \in 1..n, Op(i) \in HoldOps
          PROVE  Id(i) \in HeldIds' \/ (Op(1) \in HoldOps /\ Id(i) = Id(1))
      BY <1>1, <1>3, <2>1 DEF HeldIds, HoldOps
    <2>2. ASSUME NEW i \in 1..n, Op(i) = "returned"
          PROVE  Id(i) \in CallerIds' \/ (Op(1) = "returned" /\ Id(i) = Id(1))
      BY <1>1, <1>3, <2>2 DEF CallerIds
    <2> QED BY <1>1, <2>1, <2>2 DEF HeldIds, CallerIds
  <1>9. Op(1) \in CarryOps /\ Id(1) # 0 => Id(1) \notin CarriedIds'
    <2> SUFFICES ASSUME Op(1) \in CarryOps, Id(1) # 0, NEW i \in 1..(n - 1),
                        Op(i)' \in CarryOps, Id(i)' = Id(1)
                 PROVE  FALSE
      BY <1>1 DEF CarriedIds, CarryOps, HoldOps
    <2>1. Op(i + 1) \in CarryOps /\ Id(i + 1) = Id(1) /\ i + 1 \in 1..n /\ 1 \in 1..n /\ i + 1 # 1
      BY <1>1, <1>2
    <2> QED BY <1>1, <2>1 DEF Callers, OneHolder
  <1>10. stack' # <<>> /\ Op(1)' = "returned" => Op(1) \in CarryOps /\ Id(1)' = Id(1)
    <2> SUFFICES ASSUME n # 1, Op(1)' = "returned"
                 PROVE  Op(1) \in CarryOps /\ Id(1)' = Id(1)
      BY <1>1
    <2>1. 1 \in 1..(n - 1) /\ 1 + 1 = 2 /\ 2 \in 1..n /\ 2 > 1 /\ 2 - 1 = 1
      BY <1>1
    <2>2. Op(2) = "returned" /\ Id(1)' = Id(2)
      BY <1>2, <2>1
    <2> QED BY <1>1, <2>1, <2>2 DEF Callers, CallerLast
  <1>11. Op(1) = "returned" => stack' = <<>> /\ CarriedIds = {}
    <2> SUFFICES ASSUME Op(1) = "returned" PROVE stack' = <<>> /\ CarriedIds = {}
      OBVIOUS
    <2>0. 1 \in 1..n
      BY <1>1
    <2>1. n = 1
      BY <1>0, <1>1, <2>0 DEF Callers, CallerLast
    <2>2. \A i \in 1..n : i = 1
      BY <2>1
    <2> QED BY <1>1, <2>1, <2>2 DEF CarriedIds, CarryOps, HoldOps
  <1>12. Op(1) \in CarryOps /\ Id(1) # 0 =>
             \/ stack' # <<>> /\ Op(1)' = "returned" /\ Id(1)' = Id(1)
             \/ \E j \in DOMAIN stack : Op(j) = "flush"
    <2> SUFFICES ASSUME Op(1) \in CarryOps, Id(1) # 0
                 PROVE  \/ stack' # <<>> /\ Op(1)' = "returned" /\ Id(1)' = Id(1)
                        \/ \E j \in DOMAIN stack : Op(j) = "flush"
      OBVIOUS
    <2>1. CASE 1 + 1 \in 1..n /\ Op(1 + 1) = "returned" /\ Id(1 + 1) = Id(1)
      <3>1. 1 \in 1..(n - 1) /\ n # 1
        BY <1>1, <2>1
      <3>2. Op(1)' = "returned" /\ Id(1)' = Id(1)
        BY <1>2, <2>1, <3>1
      <3> QED BY <1>1, <3>1, <3>2
    <2> QED BY <1>1, <2>1 DEF Callers, Owned
  <1>13. EntryFirst'
    <2> SUFFICES ASSUME NEW i \in 1..(n - 1), NEW j \in 1..(n - 1), i < j, Op(i)' \in EntryOps
                 PROVE  Op(j)' # "transmit"
      BY <1>1 DEF EntryFirst, EntryOps
    <2>1. i + 1 \in 1..n /\ j + 1 \in 1..n /\ i + 1 < j + 1 /\ Op(i + 1) \in EntryOps
      BY <1>1, <1>2
    <2>2. \A k, l \in 1..n : k < l /\ Op(k) \in EntryOps => Op(l) # "transmit"
      BY <1>1 DEF Callers, EntryFirst
    <2> QED BY <1>2, <2>1, <2>2
  <1> QED
    BY <1>4, <1>5, <1>6, <1>7, <1>8, <1>9, <1>10, <1>11, <1>12, <1>13 DEF Callers

(* The frames after a call: f takes the place of the head, and carries on   *)
(* with its command at the bottom of f.                                     *)
Continues(f, m) ==
    /\ Op(1) \notin {"returned", "flush", "transmit"}
    /\ \A i \in 1..m : f[i].op # "returned"
    /\ \A i \in 1..m : f[i].op \in CarryOps /\ f[i].cmd.id # 0 =>
           i = m /\ Op(1) \in CarryOps /\ f[i].cmd.id = Id(1)
    /\ Op(1) \in CarryOps => f[m].op \in CarryOps /\ f[m].cmd.id = Id(1)
    /\ \A i \in 1..m : f[i].op \in EntryOps => i = m /\ Op(1) \in EntryOps

LEMMA CallAt ==
    ASSUME TypeOK, stack # <<>>, NEW f \in Seq(Frame), f # <<>>, Call(f),
           NEW m, m = Len(f), NEW n, n = Len(stack)
    PROVE  /\ n \in Nat \ {0} /\ m \in Nat \ {0} /\ DOMAIN stack = 1..n
           /\ DOMAIN stack' = 1..(m + n - 1) /\ Len(stack') = m + n - 1 /\ stack' # <<>>
           /\ \A i \in 1..m : stack'[i] = f[i]
           /\ \A i \in (m + 1)..(m + n - 1) : i - m + 1 \in 1..n /\ stack'[i] = stack[i - m + 1]
  <1>1. /\ stack \in Seq(Frame) /\ Tail(stack) \in Seq(Frame) /\ stack' = f \o Tail(stack)
        /\ n \in Nat \ {0} /\ m \in Nat \ {0} /\ DOMAIN stack = 1..n
    BY TailData, HeadData DEF TypeOK, Call
  <1>2. Len(Tail(stack)) = n - 1 /\ \A i \in 1..(n - 1) : Tail(stack)[i] = stack[i + 1]
    BY <1>1, TailData
  <1>3. /\ DOMAIN stack' = 1..(m + n - 1) /\ Len(stack') = m + n - 1
        /\ \A i \in 1..m : stack'[i] = f[i]
        /\ \A i \in (m + 1)..(m + n - 1) : stack'[i] = Tail(stack)[i - m]
    BY <1>1, <1>2, JoinData
  <1>4. \A i \in (m + 1)..(m + n - 1) :
           i - m + 1 \in 1..n /\ Tail(stack)[i - m] = stack[i - m + 1]
    BY <1>1, <1>2
  <1>5. stack' # <<>>
    BY <1>1, <1>3
  <1> QED BY <1>1, <1>3, <1>4, <1>5

LEMMA Called ==
    ASSUME TypeOK, Callers, stack # <<>>, NEW f \in Seq(Frame), f # <<>>, Call(f),
           NEW m, m = Len(f), Continues(f, m)
    PROVE  /\ Callers' /\ stack' # <<>> /\ Op(1)' # "returned"
           /\ CarriedIds' \subseteq CarriedIds \cup {0}
           /\ HeldIds' \subseteq HeldIds \cup {0}
           /\ CallerIds' = CallerIds
           /\ \A c \in HeldIds : c \in HeldIds' \/ (Op(1) \in HoldOps /\ c = Id(1) /\ f[m].op \notin HoldOps)
           /\ Op(1) \in CarryOps /\ Id(1) # 0 /\ f[m].op \notin HoldOps => Id(1) \notin HeldIds'
  <1> DEFINE n == Len(stack)
  <1>1. /\ n \in Nat \ {0} /\ m \in Nat \ {0} /\ DOMAIN stack = 1..n
        /\ DOMAIN stack' = 1..(m + n - 1) /\ Len(stack') = m + n - 1 /\ stack' # <<>>
        /\ \A i \in 1..m : stack'[i] = f[i]
        /\ \A i \in (m + 1)..(m + n - 1) : i - m + 1 \in 1..n /\ stack'[i] = stack[i - m + 1]
    BY CallAt, ZenonT(40)
  <1>0. Len(stack) = n
    OBVIOUS
  <1> HIDE DEF n
  <1>2. \A i \in 1..m : Op(i)' = f[i].op /\ Id(i)' = f[i].cmd.id
    BY <1>1 DEF Op, Id
  <1>3. \A i \in (m + 1)..(m + n - 1) :
           i - m + 1 \in 2..n /\ Op(i)' = Op(i - m + 1) /\ Id(i)' = Id(i - m + 1)
    BY <1>1 DEF Op, Id
  <1>4. \A i \in 1..(m + n - 1) : i \in 1..m \/ i \in (m + 1)..(m + n - 1)
    BY <1>1
  (* Where the frames below the head are now. *)
  <1>5. \A k \in 2..n : /\ k + m - 1 \in (m + 1)..(m + n - 1)
                        /\ Op(k + m - 1)' = Op(k) /\ Id(k + m - 1)' = Id(k)
    <2> SUFFICES ASSUME NEW k \in 2..n
                 PROVE  /\ k + m - 1 \in (m + 1)..(m + n - 1)
                        /\ Op(k + m - 1)' = Op(k) /\ Id(k + m - 1)' = Id(k)
      OBVIOUS
    <2>1. k + m - 1 \in (m + 1)..(m + n - 1) /\ (k + m - 1) - m + 1 = k
      BY <1>1
    <2> QED BY <1>3, <2>1
  (* A frame with a command of the store was there, or its command was. *)
  <1>6. \A i \in 1..(m + n - 1) : Op(i)' \in CarryOps /\ Id(i)' # 0 =>
           /\ i >= m /\ i - m + 1 \in 1..n
           /\ Op(i - m + 1) \in CarryOps /\ Id(i - m + 1) = Id(i)'
    <2> SUFFICES ASSUME NEW i \in 1..(m + n - 1), Op(i)' \in CarryOps, Id(i)' # 0
                 PROVE  /\ i >= m /\ i - m + 1 \in 1..n
                        /\ Op(i - m + 1) \in CarryOps /\ Id(i - m + 1) = Id(i)'
      OBVIOUS
    <2>1. CASE i \in 1..m
      <3>1. i = m /\ Op(1) \in CarryOps /\ Id(i)' = Id(1)
        BY <1>2, <2>1 DEF Continues
      <3>2. i - m + 1 = 1 /\ 1 \in 1..n
        BY <1>1, <3>1
      <3> QED BY <1>1, <3>1, <3>2
    <2>2. CASE i \in (m + 1)..(m + n - 1)
      BY <1>1, <1>3, <2>2
    <2> QED BY <1>4, <2>1, <2>2
  <1>7. \A i \in 1..(m + n - 1) : Op(i)' = "returned" =>
           i \in (m + 1)..(m + n - 1) /\ i - m + 1 \in 2..n /\ Op(i - m + 1) = "returned"
    BY <1>2, <1>3, <1>4 DEF Continues
  <1>8. OneHolder'
    <2> SUFFICES ASSUME NEW i \in 1..(m + n - 1), NEW j \in 1..(m + n - 1), Op(i)' \in CarryOps,
                        Op(j)' \in CarryOps, Id(i)' = Id(j)', Id(i)' # 0
                 PROVE  i = j
      BY <1>1 DEF OneHolder, CarryOps, HoldOps
    <2>1. i - m + 1 = j - m + 1
      BY <1>1, <1>6 DEF Callers, OneHolder
    <2> QED BY <1>1, <2>1
  <1>9. CallerLast'
    <2> SUFFICES ASSUME NEW i \in 1..(m + n - 1), Op(i)' = "returned"
                 PROVE  /\ i = m + n - 1 /\ Id(i)' # 0
                        /\ i > 1 => Op(i - 1)' \in CarryOps /\ Id(i - 1)' = Id(i)'
      BY <1>1 DEF CallerLast, CarryOps, HoldOps
    <2>1. i \in (m + 1)..(m + n - 1) /\ i - m + 1 \in 2..n /\ Op(i - m + 1) = "returned"
      BY <1>7
    <2>2. \A k \in 1..n : Op(k) = "returned" =>
              /\ k = n /\ Id(k) # 0
              /\ k > 1 => Op(k - 1) \in CarryOps /\ Id(k - 1) = Id(k)
      BY <1>0, <1>1 DEF Callers, CallerLast
    <2>3. i - m + 1 \in 1..n /\ i - m + 1 > 1
      BY <1>1, <2>1
    <2>4. /\ i - m + 1 = n /\ Id(i - m + 1) # 0 /\ n > 1
          /\ Op(n - 1) \in CarryOps /\ Id(n - 1) = Id(n)
      BY <2>1, <2>2, <2>3
    <2>5. Id(i)' = Id(n) /\ i = m + n - 1
      BY <1>1, <1>3, <2>1, <2>4
    <2>6. Op(i - 1)' \in CarryOps /\ Id(i - 1)' = Id(n)
      <3>1. CASE n = 2
        <4>1. i - 1 = m /\ n - 1 = 1 /\ m \in 1..m
          BY <1>1, <2>5, <3>1
        <4>2. f[m].op \in CarryOps /\ f[m].cmd.id = Id(1)
          BY <2>4, <4>1 DEF Continues
        <4> QED BY <1>2, <2>4, <4>1, <4>2
      <3>2. CASE n # 2
        <4>0. n - 1 \in 2..n
          BY <1>1, <2>4, <3>2
        <4>. PICK k \in 2..n : k = n - 1
          BY <4>0
        <4>1. k + m - 1 = i - 1
          BY <1>1, <2>5
        <4>2. Op(k) \in CarryOps /\ Id(k) = Id(n)
          BY <2>4
        <4>3. Op(k + m - 1)' = Op(k) /\ Id(k + m - 1)' = Id(k)
          BY <1>5, <4>1
        <4>4. Op(i - 1)' = Op(k + m - 1)' /\ Id(i - 1)' = Id(k + m - 1)'
          BY <4>1
        <4> QED BY <4>2, <4>3, <4>4
      <3> QED BY <3>1, <3>2
    <2> QED BY <2>4, <2>5, <2>6
  <1>10. Owned'
    <2> SUFFICES ASSUME NEW i \in 1..(m + n - 1), Op(i)' \in CarryOps, Id(i)' # 0
                 PROVE  \/ /\ i + 1 \in 1..(m + n - 1) /\ Op(i + 1)' = "returned"
                           /\ Id(i + 1)' = Id(i)'
                        \/ \E j \in 1..(m + n - 1) : j > i /\ Op(j)' = "flush"
      BY <1>1 DEF Owned, CarryOps, HoldOps
    <2> DEFINE k == i - m + 1
    <2>1. i >= m /\ k \in 1..n /\ Op(k) \in CarryOps /\ Id(k) = Id(i)'
      BY <1>6
    <2>2. i = k + m - 1
      BY <1>1
    <2> HIDE DEF k
    <2>3. CASE k + 1 \in 1..n /\ Op(k + 1) = "returned" /\ Id(k + 1) = Id(k)
      <3>1. k + 1 \in 2..n /\ (k + 1) + m - 1 = i + 1
        BY <1>1, <2>1, <2>2, <2>3
      <3>2. i + 1 \in (m + 1)..(m + n - 1) /\ Op(i + 1)' = Op(k + 1) /\ Id(i + 1)' = Id(k + 1)
        BY <1>5, <3>1
      <3>3. i + 1 \in 1..(m + n - 1)
        BY <1>1, <3>2
      <3> QED BY <2>1, <2>3, <3>2, <3>3
    <2>4. ASSUME NEW j \in 1..n, j > k, Op(j) = "flush"
          PROVE  \E l \in 1..(m + n - 1) : l > i /\ Op(l)' = "flush"
      <3>1. j \in 2..n
        BY <2>1, <2>4
      <3>2. j + m - 1 \in (m + 1)..(m + n - 1) /\ Op(j + m - 1)' = "flush"
        BY <1>5, <2>4, <3>1
      <3>3. j + m - 1 \in 1..(m + n - 1) /\ j + m - 1 > i
        BY <1>1, <2>1, <2>2, <2>4, <3>2
      <3> QED BY <3>2, <3>3
    <2> QED BY <1>1, <2>1, <2>3, <2>4 DEF Callers, Owned
  <1>11. Op(1)' # "returned"
    BY <1>1, <1>2 DEF Continues
  <1>12. CarriedIds' \subseteq CarriedIds \cup {0}
    BY <1>1, <1>6 DEF CarriedIds, CarryOps, HoldOps
  <1>13. HeldIds' \subseteq HeldIds \cup {0}
    <2> SUFFICES ASSUME NEW i \in 1..(m + n - 1), Op(i)' \in HoldOps, Id(i)' # 0
                 PROVE  Id(i)' \in HeldIds
      BY <1>1 DEF HeldIds, HoldOps
    <2>1. CASE i \in 1..m
      <3>1. Op(1) \in CarryOps /\ Op(1) # "transmit" /\ Id(i)' = Id(1)
        BY <1>2, <2>1 DEF Continues, CarryOps
      <3> QED BY <1>1, <3>1 DEF HeldIds, CarryOps
    <2>2. CASE i \in (m + 1)..(m + n - 1)
      BY <1>1, <1>3, <2>2 DEF HeldIds
    <2> QED BY <1>4, <2>1, <2>2
  <1>14. CallerIds' = CallerIds
    <2>1. ASSUME NEW i \in 1..(m + n - 1), Op(i)' = "returned" PROVE Id(i)' \in CallerIds
      BY <1>1, <1>3, <1>7, <2>1 DEF CallerIds
    <2>2. ASSUME NEW k \in 1..n, Op(k) = "returned" PROVE Id(k) \in CallerIds'
      <3>1. k \in 2..n
        BY <1>1, <2>2 DEF Continues
      <3>2. k + m - 1 \in 1..(m + n - 1) /\ Op(k + m - 1)' = "returned" /\ Id(k + m - 1)' = Id(k)
        BY <1>1, <1>5, <2>2, <3>1
      <3> QED BY <1>1, <3>2 DEF CallerIds
    <2> QED BY <1>1, <2>1, <2>2 DEF CallerIds
  <1>15. \A c \in HeldIds : c \in HeldIds' \/ (Op(1) \in HoldOps /\ c = Id(1) /\ f[m].op \notin HoldOps)
    <2> SUFFICES ASSUME NEW k \in 1..n, Op(k) \in HoldOps
                 PROVE  \/ Id(k) \in HeldIds'
                        \/ Op(1) \in HoldOps /\ Id(k) = Id(1) /\ f[m].op \notin HoldOps
      BY <1>1 DEF HeldIds
    <2>1. CASE k = 1
      <3>1. f[m].cmd.id = Id(1) /\ m \in 1..m /\ m \in 1..(m + n - 1)
        BY <1>1, <2>1 DEF Continues, CarryOps
      <3> QED BY <1>1, <1>2, <2>1, <3>1 DEF HeldIds, HoldOps
    <2>2. CASE k # 1
      <3>1. k \in 2..n
        BY <2>2
      <3>2. k + m - 1 \in 1..(m + n - 1) /\ Op(k + m - 1)' = Op(k) /\ Id(k + m - 1)' = Id(k)
        BY <1>1, <1>5, <3>1
      <3> QED BY <1>1, <3>2 DEF HeldIds, HoldOps
    <2> QED BY <2>1, <2>2
  <1>16. Op(1) \in CarryOps /\ Id(1) # 0 /\ f[m].op \notin HoldOps => Id(1) \notin HeldIds'
    <2> SUFFICES ASSUME Op(1) \in CarryOps, Id(1) # 0, f[m].op \notin HoldOps,
                        NEW i \in 1..(m + n - 1), Op(i)' \in HoldOps, Id(i)' = Id(1)
                 PROVE  FALSE
      BY <1>1 DEF HeldIds, HoldOps
    <2>1. /\ i >= m /\ i - m + 1 \in 1..n
          /\ Op(i - m + 1) \in CarryOps /\ Id(i - m + 1) = Id(1)
      BY <1>6 DEF CarryOps
    <2>0. \A j, k \in 1..n : Op(j) \in CarryOps /\ Op(k) \in CarryOps /\ Id(j) = Id(k)
                                 => j = k \/ Id(j) = 0
      BY <1>1 DEF Callers, OneHolder
    <2>2. i - m + 1 = 1 /\ 1 \in 1..n
      BY <1>1, <2>0, <2>1
    <2>3. i = m /\ m \in 1..m
      BY <1>1, <2>2
    <2> QED BY <1>2, <2>3
  <1>17. EntryFirst'
    <2> SUFFICES ASSUME NEW i \in 1..(m + n - 1), NEW j \in 1..(m + n - 1), i < j,
                        Op(i)' \in EntryOps
                 PROVE  Op(j)' # "transmit"
      BY <1>1 DEF EntryFirst, EntryOps
    <2>1. \A k, l \in 1..n : k < l /\ Op(k) \in EntryOps => Op(l) # "transmit"
      BY <1>1 DEF Callers, EntryFirst
    <2>2. /\ i >= m /\ i - m + 1 \in 1..n /\ Op(i - m + 1) \in EntryOps
      <3>1. CASE i \in 1..m
        <4>1. i = m /\ Op(1) \in EntryOps
          BY <1>2, <3>1 DEF Continues
        <4>2. i - m + 1 = 1 /\ 1 \in 1..n
          BY <1>1, <4>1
        <4> QED BY <1>1, <4>1, <4>2
      <3>2. CASE i \in (m + 1)..(m + n - 1)
        BY <1>1, <1>3, <3>2
      <3> QED BY <1>4, <3>1, <3>2
    <2>3. j \in (m + 1)..(m + n - 1) /\ i - m + 1 < j - m + 1
      BY <1>1, <2>2
    <2>4. j - m + 1 \in 1..n /\ Op(j)' = Op(j - m + 1)
      BY <1>3, <2>3
    <2> QED BY <2>1, <2>2, <2>3, <2>4
  <1> QED
    BY <1>1, <1>8, <1>9, <1>10, <1>11, <1>12, <1>13, <1>14, <1>15, <1>16, <1>17 DEF Callers

-----------------------------------------------------------------------------
(* The commands in C get events of their own. *)
Reported(C) ==
    \A c \in 1..MaxCommands : /\ c \in C => reports'[c] > reports[c]
                              /\ c \notin C => reports'[c] = reports[c]

(* What a step does to the fate of every command.                           *)
Progress ==
    /\ \A c \in 1..MaxCommands : reports'[c] >= reports[c]
    /\ \A c \in SentIds \ {0} : c \in SentIds' \/ reports'[c] > 0 \/ ~Live(c)'
    /\ \A c \in 1..issued : /\ Live(c) => Live(c)' \/ c \in RememberedIds
                            /\ Live(c)' => Live(c)
    /\ \A c \in 1..issued' : c > issued => Live(c)'
    /\ \A r \in pending' \ pending : r.cmd.id # 0 => reports[r.cmd.id] = 0
    /\ issued' = issued \/ (issued' = issued + 1 /\ UNCHANGED <<pending, reports>>)

LEMMA IdData ==
    ASSUME TypeOK
    PROVE  /\ issued \in Nat /\ issued <= MaxCommands /\ MaxCommands \in Nat
           /\ hello \in Nat /\ nextId \in Nat
           /\ CarriedIds \subseteq 0..MaxCommands /\ HeldIds \subseteq CarriedIds
           /\ CallerIds \subseteq 0..MaxCommands
           /\ DeferredIds \subseteq 0..MaxCommands /\ SentIds \subseteq 0..MaxCommands
           /\ \A c \in 1..MaxCommands : reports[c] \in Nat
           /\ \A r \in pending : r.id \in Nat \ {0} /\ r.cmd.id \in SentIds
  <1>1. /\ issued \in Nat /\ issued <= MaxCommands /\ MaxCommands \in Nat
        /\ hello \in Nat /\ nextId \in Nat
        /\ \A c \in 1..MaxCommands : reports[c] \in Nat
    BY BackendAssumption DEF TypeOK, BackendAssumption
  <1>2. \A i \in DOMAIN stack : Id(i) \in 0..MaxCommands
    <2> SUFFICES ASSUME NEW i \in DOMAIN stack PROVE Id(i) \in 0..MaxCommands
      OBVIOUS
    <2>1. stack[i] \in Frame
      BY DEF TypeOK
    <2>2. stack[i].cmd \in Command
      BY <2>1 DEF Frame
    <2> QED BY <2>2 DEF Id, Command
  <1>3. \A i \in DOMAIN deferred : deferred[i].id \in 0..MaxCommands
    <2> SUFFICES ASSUME NEW i \in DOMAIN deferred PROVE deferred[i].id \in 0..MaxCommands
      OBVIOUS
    <2>1. deferred[i] \in Command
      BY DEF TypeOK
    <2> QED BY <2>1 DEF Command
  <1>4. \A r \in pending : r.id \in Nat \ {0} /\ r.cmd.id \in 0..MaxCommands
    BY DEF TypeOK, Request, Command
  <1>5. HeldIds \subseteq CarriedIds
    BY DEF HeldIds, CarriedIds, CarryOps
  <1>6. CarriedIds \subseteq 0..MaxCommands /\ CallerIds \subseteq 0..MaxCommands
    BY <1>2 DEF CarriedIds, CallerIds
  <1>7. DeferredIds \subseteq 0..MaxCommands
    BY <1>3 DEF DeferredIds
  <1>8. SentIds \subseteq 0..MaxCommands /\ \A r \in pending : r.cmd.id \in SentIds
    BY <1>4 DEF SentIds, RequestIds
  <1> QED BY <1>1, <1>4, <1>5, <1>6, <1>7, <1>8

(* No handler has a command that was dropped, after a step that drops none  *)
(* and gives no handler a command that was dropped.                         *)
LEMMA LiveCarried ==
    ASSUME TypeOK, PlaceInv, \A c \in 1..issued : Live(c) => Live(c)',
           \A c \in CarriedIds' \ {0} : c \in CarriedIds \/ (c \in 1..issued /\ Live(c))
    PROVE  CarriedLive'
  <1> SUFFICES ASSUME NEW c \in CarriedIds' \ {0} PROVE Live(c)'
    BY DEF CarriedLive
  <1>1. CASE c \in CarriedIds
    <2>1. c \in 0..issued /\ c # 0 /\ issued \in Nat
      BY <1>1, IdData DEF PlaceInv, Known
    <2>2. c \in 1..issued
      BY <2>1
    <2>3. Live(c)
      BY <1>1 DEF PlaceInv, CarriedLive
    <2> QED BY <2>2, <2>3
  <1>2. CASE c \in 1..issued /\ Live(c)
    BY <1>2
  <1> QED BY <1>1, <1>2

(* The numbers of requests after a step. *)
RequestsFollow ==
    \/ pending' \subseteq pending /\ UNCHANGED <<hello, nextId>>
    \/ pending' \subseteq pending /\ hello' = 0 /\ nextId' = nextId
    \/ pending' = {} /\ hello' = 0 /\ nextId' = 0

(* A step that settles the commands in C, whatever it does to the stack:    *)
(* they were sent, or waited in a queue that is dropped, or h was the       *)
(* command of the handler that ends.  Those in D are dropped without an     *)
(* event.                                                                   *)
LEMMA Settled ==
    ASSUME TypeOK, TypeOK', PlaceInv, Callers',
           HeldIds' \subseteq HeldIds \cup {0}, CarriedIds' \subseteq CarriedIds \cup {0},
           CallerIds' \subseteq CallerIds,
           NEW C, NEW h \in CarriedIds \cup {0}, h = 0 \/ h \notin HeldIds', Reported(C),
           C \subseteq SentIds \cup DeferredIds \cup {h, 0},
           NEW D, D \subseteq RememberedIds, \A c \in D \ {0} : c \notin CarriedIds' /\ ~Failing(c)',
           RequestsFollow, SentIds \subseteq SentIds' \cup C \cup D \cup {0},
           \/ deferred' = deferred /\ C \subseteq SentIds \cup {h, 0}
           \/ deferred' = <<>> /\ DeferredIds \subseteq C \cup {0},
           issued' = issued,
           \A c \in HeldIds : c \in HeldIds' \cup C \cup {0} \/ Failing(c)',
           \A c \in 1..MaxCommands : ~Failing(c) /\ (Failing(c)' => c \in CarriedIds)
    PROVE  PlaceInv' /\ Progress
  <1>1. /\ issued \in Nat /\ issued <= MaxCommands /\ MaxCommands \in Nat
        /\ hello \in Nat /\ nextId \in Nat
        /\ CarriedIds \subseteq 0..MaxCommands /\ HeldIds \subseteq CarriedIds
        /\ DeferredIds \subseteq 0..MaxCommands /\ SentIds \subseteq 0..MaxCommands
        /\ \A c \in 1..MaxCommands : reports[c] \in Nat
        /\ \A r \in pending : r.id \in Nat \ {0} /\ r.cmd.id \in SentIds
    BY IdData
  <1>2. \A c \in 1..MaxCommands : reports'[c] \in Nat
    BY DEF TypeOK
  <1>3. pending' \subseteq pending /\ SentIds' \subseteq SentIds
    BY DEF RequestsFollow, SentIds, RequestIds
  <1>4. /\ DeferredIds' \subseteq DeferredIds
        /\ deferred' = deferred => DeferredIds' = DeferredIds
        /\ deferred' = <<>> => DeferredIds' = {}
    BY DEF DeferredIds
  <1>5. \A c \in DeferredIds' \ {0} : c \notin C
    BY <1>4 DEF PlaceInv, Apart
  <1>6. Known'
    <2>1. C \subseteq 0..issued
      BY <1>1 DEF PlaceInv, Known
    <2>0. 0 \in 0..issued
      BY <1>1
    <2>2. CarriedIds' \cup CallerIds' \cup DeferredIds' \cup SentIds' \subseteq 0..issued
      BY <1>3, <1>4, <2>0 DEF PlaceInv, Known
    <2>3. \A c \in 1..MaxCommands : c > issued => reports'[c] = 0
      <3> SUFFICES ASSUME NEW c \in 1..MaxCommands, c > issued PROVE reports'[c] = 0
        OBVIOUS
      <3>1. c \notin C
        BY <1>1, <2>1
      <3> QED BY <3>1 DEF Reported, PlaceInv, Known
    <2> QED BY <2>2, <2>3 DEF Known
  <1>7. Apart'
    <2>1. \A c \in HeldIds' \ {0} : reports'[c] = 0 /\ c \notin SentIds'
      <3> SUFFICES ASSUME NEW c \in HeldIds' \ {0} PROVE reports'[c] = 0 /\ c \notin SentIds'
        OBVIOUS
      <3>1. c \in HeldIds /\ c \in 1..MaxCommands /\ c # h
        BY <1>1
      <3>2. c \notin C /\ reports[c] = 0 /\ c \notin SentIds
        BY <1>1, <3>1 DEF PlaceInv, Apart
      <3> QED BY <1>3, <3>1, <3>2 DEF Reported
    <2>2. \A c \in CarriedIds' \ {0} : c \notin DeferredIds'
      BY <1>4 DEF PlaceInv, Apart
    <2>3. \A c \in DeferredIds' \ {0} : reports'[c] = 0 /\ c \notin SentIds' /\ ~Failing(c)'
      <3> SUFFICES ASSUME NEW c \in DeferredIds' \ {0}
                   PROVE  reports'[c] = 0 /\ c \notin SentIds' /\ ~Failing(c)'
        OBVIOUS
      <3>1. /\ c \in DeferredIds /\ c \in 1..MaxCommands /\ c \notin C
            /\ reports[c] = 0 /\ c \notin SentIds /\ c \notin CarriedIds
        BY <1>1, <1>4, <1>5 DEF PlaceInv, Apart
      <3> QED BY <1>3, <3>1 DEF Reported
    <2>4. \A i, j \in DOMAIN deferred' :
             deferred'[i].id = deferred'[j].id => i = j \/ deferred'[i].id = 0
      <3>1. CASE deferred' = deferred
        BY <3>1 DEF PlaceInv, Apart
      <3>2. CASE deferred' = <<>>
        BY <3>2
      <3> QED BY <3>1, <3>2
    <2> QED BY <2>1, <2>2, <2>3, <2>4 DEF Apart
  <1>0. \A c \in 1..issued : c \in 1..MaxCommands /\ c # 0
    BY <1>1
  <1>8. \A c \in 1..issued : Live(c) => Live(c)' \/ c \in D
    <2> SUFFICES ASSUME NEW c \in 1..issued, Live(c), c \notin D
                 PROVE  reports'[c] > 0 \/ c \in SentIds' \cup DeferredIds' \cup HeldIds' \/ Failing(c)'
      BY DEF Live
    <2>1. c \in 1..MaxCommands /\ reports[c] \in Nat /\ reports'[c] \in Nat /\ ~Failing(c)
      BY <1>1, <1>2
    <2>2. (c \in C => reports'[c] > reports[c]) /\ (c \notin C => reports'[c] = reports[c])
      BY <2>1 DEF Reported
    <2>3. reports[c] > 0 \/ c \in SentIds \cup DeferredIds \cup HeldIds
      BY <2>1 DEF Live
    <2>4. CASE reports[c] > 0 \/ c \in C
      BY <2>1, <2>2, <2>4
    <2>5. CASE c \notin C /\ c \in SentIds
      BY <2>5
    <2>6. CASE c \notin C /\ c \in DeferredIds
      BY <1>4, <2>6
    <2>7. CASE c \notin C /\ c \in HeldIds
      BY <2>7
    <2> QED BY <2>3, <2>4, <2>5, <2>6, <2>7
  <1>11. \A c \in 1..issued : Live(c)' => Live(c)
    <2> SUFFICES ASSUME NEW c \in 1..issued, Live(c)'
                 PROVE  Live(c)
      OBVIOUS
    <2>1. c \in 1..MaxCommands /\ c # 0
      BY <1>0
    <2>2. c \in CarriedIds => Live(c)
      BY <2>1 DEF PlaceInv, CarriedLive
    <2>3. c \in C => Live(c)
      <3>1. c \in C => c \in SentIds \cup DeferredIds \/ c \in CarriedIds
        BY <2>1
      <3> QED BY <2>2, <3>1 DEF Live
    <2>4. c \notin C => reports'[c] = reports[c]
      BY <2>1 DEF Reported
    <2>5. c \in HeldIds' => c \in CarriedIds
      BY <1>1, <2>1
    <2>6. Failing(c)' => c \in CarriedIds
      BY <2>1
    <2>7. reports'[c] > 0 \/ c \in SentIds' \cup DeferredIds' \cup HeldIds' \/ Failing(c)'
      BY DEF Live
    <2>8. c \in SentIds \cup DeferredIds => Live(c)
      BY DEF Live
    <2>9. reports[c] > 0 => Live(c)
      BY DEF Live
    <2> QED BY <1>3, <1>4, <2>2, <2>3, <2>4, <2>5, <2>6, <2>7, <2>8, <2>9
  <1>12. CarriedLive'
    <2> SUFFICES ASSUME NEW c \in CarriedIds' \ {0} PROVE Live(c)'
      BY DEF CarriedLive
    <2>1. c \in CarriedIds \ {0} /\ c \notin D
      OBVIOUS
    <2>2. c \in 1..issued
      BY <1>1, <2>1 DEF PlaceInv, Known
    <2>3. Live(c)
      BY <2>1 DEF PlaceInv, CarriedLive
    <2> QED BY <1>8, <2>1, <2>2, <2>3
  <1>9. HelloIds'
    BY <1>1 DEF RequestsFollow, HelloIds, PlaceInv
  <1>10. Progress
    <2>1. \A c \in 1..MaxCommands : reports'[c] >= reports[c]
      BY <1>1, <1>2 DEF Reported
    <2>2. \A c \in SentIds \ {0} : c \in SentIds' \/ reports'[c] > 0 \/ ~Live(c)'
      <3> SUFFICES ASSUME NEW c \in SentIds \ {0}, c \notin SentIds', ~(reports'[c] > 0)
                   PROVE  ~Live(c)'
        OBVIOUS
      <3>0. c \in 0..MaxCommands /\ c # 0
        BY <1>1
      <3>1. c \in 1..MaxCommands /\ reports'[c] \in Nat /\ reports[c] \in Nat
        BY <1>1, <1>2, <3>0
      <3>2. c \notin C
        BY <3>1 DEF Reported
      <3>3. c \in D
        BY <3>2
      <3>4. c \notin DeferredIds' /\ c \notin HeldIds' /\ ~Failing(c)'
        <4>1. c \notin DeferredIds /\ c \notin HeldIds
          BY DEF PlaceInv, Apart
        <4> QED BY <1>4, <3>3, <4>1
      <3> QED BY <3>4 DEF Live
    <2>3. \A c \in 1..issued : /\ Live(c) => Live(c)' \/ c \in RememberedIds
                               /\ Live(c)' => Live(c)
      BY <1>8, <1>11
    <2>4. \A c \in 1..issued' : c > issued => Live(c)'
      BY <1>1
    <2>5. \A r \in pending' \ pending : r.cmd.id # 0 => reports[r.cmd.id] = 0
      BY <1>3
    <2> QED BY <2>1, <2>2, <2>3, <2>4, <2>5 DEF Progress
  <1> QED BY <1>6, <1>7, <1>9, <1>10, <1>12 DEF PlaceInv

(* The command of a handler that ends, if it carries one. *)
Ending == IF Op(1) \in CarryOps THEN Id(1) ELSE 0

LEMMA EndedByReturn ==
    ASSUME TypeOK, TypeOK', SafeInv, PlaceInv, stack # <<>>, Return, Op(1) # "returned",
           NEW C, Reported(C), C \subseteq SentIds \cup DeferredIds \cup {Ending, 0},
           NEW D, D \subseteq RememberedIds, \A c \in D \ {0} : c \notin CarriedIds,
           RequestsFollow, SentIds \subseteq SentIds' \cup C \cup D \cup {0},
           \/ deferred' = deferred /\ C \subseteq SentIds \cup {Ending, 0}
           \/ deferred' = <<>> /\ DeferredIds \subseteq C \cup {0},
           issued' = issued,
           Op(1) \in HoldOps => Ending \in C \/ (raised /\ raised')
    PROVE  PlaceInv' /\ Progress
  <1>. DEFINE h == Ending
  <1>1. /\ Callers'
        /\ HeldIds' \subseteq HeldIds /\ CarriedIds' \subseteq CarriedIds
        /\ CallerIds' \subseteq CallerIds
        /\ \A c \in HeldIds : c \in HeldIds' \/ (Op(1) \in HoldOps /\ c = Id(1))
        /\ Op(1) \in CarryOps /\ Id(1) # 0 => Id(1) \notin CarriedIds'
        /\ stack' # <<>> /\ Op(1)' = "returned" => Op(1) \in CarryOps /\ Id(1)' = Id(1)
        /\ Op(1) \in CarryOps /\ Id(1) # 0 =>
              \/ stack' # <<>> /\ Op(1)' = "returned" /\ Id(1)' = Id(1)
              \/ \E j \in DOMAIN stack : Op(j) = "flush"
    BY Returned DEF PlaceInv
  <1>2. 1 \in DOMAIN stack /\ (Op(1) \in CarryOps => Id(1) \in CarriedIds)
    <2>1. 1 \in DOMAIN stack
      BY TailData DEF TypeOK
    <2> QED BY <2>1 DEF CarriedIds
  <1>3. h \in CarriedIds \cup {0}
    BY <1>2 DEF Ending
  <1>4. h = 0 \/ h \notin HeldIds'
    BY <1>1 DEF Ending, HeldIds, CarriedIds, CarryOps
  <1>5. \A c \in HeldIds : c \in HeldIds' \cup C \cup {0} \/ Failing(c)'
    <2> SUFFICES ASSUME NEW c \in HeldIds, c \notin HeldIds' \cup C \cup {0}
                 PROVE  Failing(c)'
      OBVIOUS
    <2>1. Op(1) \in HoldOps /\ Op(1) \in CarryOps /\ c = Id(1) /\ c = Ending /\ raised /\ raised'
      BY <1>1 DEF Ending, CarryOps
    <2>2. ~\E j \in DOMAIN stack : Op(j) = "flush"
      BY <2>1 DEF SafeInv, FrameInv, FlushFrames
    <2> QED BY <1>1, <2>1, <2>2 DEF Failing
  <1>6. \A c \in 1..MaxCommands : ~Failing(c) /\ (Failing(c)' => c \in CarriedIds)
    BY <1>1, <1>2 DEF Failing
  <1>7. HeldIds' \subseteq HeldIds \cup {0} /\ CarriedIds' \subseteq CarriedIds \cup {0}
    BY <1>1
  <1>8. C \subseteq SentIds \cup DeferredIds \cup {h, 0}
    OBVIOUS
  <1>9. \/ deferred' = deferred /\ C \subseteq SentIds \cup {h, 0}
        \/ deferred' = <<>> /\ DeferredIds \subseteq C \cup {0}
    OBVIOUS
  <1>10. \A c \in D \ {0} : c \notin CarriedIds' /\ ~Failing(c)'
    BY <1>1, <1>2 DEF Failing
  <1> HIDE DEF h
  <1> QED BY <1>1, <1>3, <1>4, <1>5, <1>6, <1>7, <1>8, <1>9, <1>10, Settled

LEMMA SettledByReturn ==
    ASSUME TypeOK, TypeOK', SafeInv, PlaceInv, stack # <<>>, Return, Op(1) # "returned",
           NEW C, Reported(C), C \subseteq SentIds \cup DeferredIds \cup {Ending, 0},
           RequestsFollow, SentIds \subseteq SentIds' \cup C \cup {0},
           \/ deferred' = deferred /\ C \subseteq SentIds \cup {Ending, 0}
           \/ deferred' = <<>> /\ DeferredIds \subseteq C \cup {0},
           issued' = issued,
           Op(1) \in HoldOps => Ending \in C \/ (raised /\ raised')
    PROVE  PlaceInv' /\ Progress
  <1> DEFINE D == {}
  <1>1. /\ D \subseteq RememberedIds /\ \A c \in D \ {0} : c \notin CarriedIds
        /\ SentIds \subseteq SentIds' \cup C \cup D \cup {0}
    OBVIOUS
  <1> HIDE DEF D
  <1> QED BY <1>1, EndedByReturn

LEMMA SettledByCall ==
    ASSUME TypeOK, TypeOK', PlaceInv, stack # <<>>, NEW f \in Seq(Frame), f # <<>>, Call(f),
           NEW m, m = Len(f), Continues(f, m), Op(1) \in HoldOps => f[m].op \in HoldOps,
           NEW C \in SUBSET SentIds, Reported(C), RequestsFollow,
           SentIds \subseteq SentIds' \cup C \cup {0},
           deferred' = deferred, issued' = issued
    PROVE  PlaceInv' /\ Progress
  <1>1. /\ Callers' /\ stack' # <<>> /\ Op(1)' # "returned"
        /\ CarriedIds' \subseteq CarriedIds \cup {0}
        /\ HeldIds' \subseteq HeldIds \cup {0}
        /\ CallerIds' = CallerIds
        /\ \A c \in HeldIds : c \in HeldIds' \/ (Op(1) \in HoldOps /\ c = Id(1) /\ f[m].op \notin HoldOps)
    BY Called DEF PlaceInv
  <1>2. 0 \in CarriedIds \cup {0} /\ C \subseteq SentIds \cup DeferredIds \cup {0, 0}
    OBVIOUS
  <1>3. \A c \in 1..MaxCommands : ~Failing(c) /\ (Failing(c)' => c \in CarriedIds)
    BY <1>1 DEF Failing, Continues
  <1>4. \A c \in HeldIds : c \in HeldIds' \cup C \cup {0} \/ Failing(c)'
    BY <1>1
  <1>5. \/ deferred' = deferred /\ C \subseteq SentIds \cup {0, 0}
        \/ deferred' = <<>> /\ DeferredIds \subseteq C \cup {0}
    OBVIOUS
  <1> DEFINE D == {}
  <1>6. /\ D \subseteq RememberedIds /\ \A c \in D \ {0} : c \notin CarriedIds' /\ ~Failing(c)'
        /\ SentIds \subseteq SentIds' \cup C \cup D \cup {0}
    OBVIOUS
  <1> HIDE DEF D
  <1> QED BY <1>1, <1>2, <1>3, <1>4, <1>5, <1>6, Settled

LEMMA ReportData ==
    ASSUME TypeOK, NEW C
    PROVE  /\ Report(C) => Reported(C)
           /\ UNCHANGED reports => Reported({})
           /\ \A reqs, again, lockedOut : MarkDisconnected(reqs, again, lockedOut) =>
                 Reported(DeferredIds \cup RequestIds(reqs) \cup again)
  <1>1. reports \in [1..MaxCommands -> Nat]
    BY DEF TypeOK
  <1>2. Report(C) => Reported(C)
    BY <1>1 DEF Report, Reported
  <1>3. UNCHANGED reports => Reported({})
    BY DEF Reported
  <1>4. ASSUME NEW reqs, NEW again, NEW lockedOut, MarkDisconnected(reqs, again, lockedOut)
        PROVE  Reported(DeferredIds \cup RequestIds(reqs) \cup again)
    <2>1. \A c \in 1..MaxCommands :
             reports'[c] = reports[c]
                 + (IF c \in DeferredIds \cup RequestIds(reqs) THEN 1 ELSE 0)
                 + (IF c \in again THEN 1 ELSE 0)
      BY <1>1, <1>4 DEF MarkDisconnected
    <2> SUFFICES ASSUME NEW c \in 1..MaxCommands
                 PROVE  /\ c \in DeferredIds \cup RequestIds(reqs) \cup again => reports'[c] > reports[c]
                        /\ c \notin DeferredIds \cup RequestIds(reqs) \cup again => reports'[c] = reports[c]
      BY DEF Reported
    <2>2. reports[c] \in Nat
      BY <1>1
    <2> QED BY <2>1, <2>2
  <1> QED BY <1>2, <1>3, <1>4

-----------------------------------------------------------------------------
(* A handler that returns and leaves the commands where they are, or lets   *)
(* an Err pass.                                                             *)
LEMMA QuietPlaces ==
    ASSUME TypeOK, TypeOK', SafeInv, PlaceInv,
           \/ ClockQuiet \/ AlreadyConnected \/ NothingToReopen \/ ReopenSent
           \/ TransmitsLate \/ FlushEnds \/ PollsNothing \/ ReadsNotification
           \/ FirstDialReturns \/ Booted \/ DialRefused \/ DialFails \/ Unwind
    PROVE  PlaceInv' /\ Progress
  <1>1. /\ Return /\ stack # <<>> /\ Op(1) # "returned"
        /\ UNCHANGED <<hello, nextId, pending, deferred, issued, reports>>
        /\ Op(1) \in HoldOps => raised /\ raised'
    BY HeadData, TailData
       DEF TypeOK, Running, Op, Return, Raise, HoldOps, linkVars, barrierVars, scopeVars,
           requestVars, userVars, ClockQuiet, AlreadyConnected, NothingToReopen, ReopenSent,
           TransmitsLate, FlushEnds, PollsNothing, ReadsNotification, ReadsFrame,
           FirstDialReturns, Booted, DialRefused, DialFails, Unwind
  <1>2. Reported({})
    BY <1>1, ReportData
  <1>3. RequestsFollow /\ SentIds' = SentIds
    BY <1>1 DEF RequestsFollow, SentIds, RequestIds
  <1>4. {} \subseteq SentIds \cup DeferredIds \cup {Ending, 0} /\ {} \subseteq SentIds \cup {Ending, 0}
    OBVIOUS
  <1> QED BY <1>1, <1>2, <1>3, <1>4, SettledByReturn

(* An answer, or a skipped frame, which cancels every request.              *)
LEMMA AnswerPlaces ==
    ASSUME TypeOK, TypeOK', SafeInv, PlaceInv, Running("poll"), Return,
           UNCHANGED <<hello, nextId, deferred, issued>>,
           NEW reqs \in SUBSET pending, pending' = pending \ reqs, Report(RequestIds(reqs))
    PROVE  PlaceInv' /\ Progress
  <1>1. stack # <<>> /\ Op(1) = "poll"
    BY RunningData
  <1> DEFINE C == RequestIds(reqs)
  <1>2. Reported(C)
    BY ReportData
  <1>3. C \subseteq SentIds /\ RequestsFollow /\ SentIds \subseteq SentIds' \cup C \cup {0}
    BY DEF RequestsFollow, SentIds, RequestIds
  <1> HIDE DEF C
  <1>4. C \subseteq SentIds \cup DeferredIds \cup {Ending, 0} /\ C \subseteq SentIds \cup {Ending, 0}
    BY <1>3
  <1> QED BY <1>1, <1>2, <1>3, <1>4, SettledByReturn DEF HoldOps

(* A handler that refuses its command. *)
LEMMA RefusalPlaces ==
    ASSUME TypeOK, TypeOK', SafeInv, PlaceInv, NEW op \in HoldOps, Running(op), Return,
           UNCHANGED <<hello, nextId, pending, deferred, issued>>, ReportOne(Head(stack).cmd)
    PROVE  PlaceInv' /\ Progress
  <1>0. stack # <<>> /\ Op(1) = op /\ stack[1] = Head(stack)
    BY RunningData
  <1>1. stack # <<>> /\ Op(1) = op /\ Op(1) \in CarryOps /\ stack[1] = Head(stack)
    BY <1>0 DEF CarryOps
  <1> DEFINE C == {Head(stack).cmd.id}
  <1>2. C = {Ending}
    BY <1>1 DEF Ending, Id
  <1>3. Reported(C)
    BY ReportData DEF ReportOne
  <1> HIDE DEF C
  <1>4. RequestsFollow /\ SentIds' = SentIds
    BY <1>1 DEF RequestsFollow, SentIds, RequestIds
  <1>5. /\ C \subseteq SentIds \cup DeferredIds \cup {Ending, 0} /\ C \subseteq SentIds \cup {Ending, 0}
        /\ Op(1) # "returned" /\ Ending \in C
    BY <1>1, <1>2 DEF HoldOps
  <1> QED BY <1>1, <1>3, <1>4, <1>5, SettledByReturn

(* A handler that loses the link: whatever was deferred or outstanding is    *)
(* cancelled, except what is in D; `again` names the command the handler     *)
(* was about to send, or one that is answered all the same.                 *)
Losing(reqs, again, D) ==
    /\ \A r \in reqs : r.cmd.id \in SentIds \cup {Ending, 0}
    /\ \A r \in pending : r \in reqs \/ r.cmd.id \in again \cup D \cup {0}
    /\ again \subseteq SentIds \cup {Ending, 0} /\ (Op(1) \in HoldOps => Ending \in again)
    /\ D \subseteq RememberedIds /\ \A c \in D \ {0} : c \notin CarriedIds

LEMMA LossPlaces ==
    ASSUME TypeOK, TypeOK', SafeInv, PlaceInv, stack # <<>>, Return, Op(1) # "returned",
           NEW reqs, NEW again, NEW lockedOut, issued' = issued,
           MarkDisconnected(reqs, again, lockedOut), NEW D, Losing(reqs, again, D)
    PROVE  PlaceInv' /\ Progress
  <1> DEFINE C == DeferredIds \cup RequestIds(reqs) \cup again
  <1>1. Reported(C) /\ pending' = {} /\ hello' = 0 /\ nextId' = 0 /\ deferred' = <<>>
    BY ReportData DEF MarkDisconnected
  <1>2. RequestsFollow
    BY <1>1 DEF RequestsFollow
  <1>3. SentIds \subseteq SentIds' \cup C \cup D \cup {0}
    BY DEF Losing, SentIds, RequestIds
  <1>4. C \subseteq SentIds \cup DeferredIds \cup {Ending, 0} /\ DeferredIds \subseteq C \cup {0}
    BY DEF Losing, RequestIds
  <1>5. Op(1) \in HoldOps => Ending \in C
    BY DEF Losing
  <1>6. D \subseteq RememberedIds /\ \A c \in D \ {0} : c \notin CarriedIds
    BY DEF Losing
  <1> HIDE DEF C
  <1> QED BY <1>1, <1>2, <1>3, <1>4, <1>5, <1>6, EndedByReturn

(* The connection is lost, and every request gets its event. *)
LEMMA CancelPlaces ==
    ASSUME TypeOK, TypeOK', SafeInv, PlaceInv, stack # <<>>, Return, Op(1) # "returned",
           NEW reqs, NEW again, NEW lockedOut, issued' = issued,
           MarkDisconnected(reqs, again, lockedOut),
           \A r \in reqs : r.cmd.id \in SentIds \cup {Ending, 0},
           \A r \in pending : r \in reqs \/ r.cmd.id \in again \cup {0},
           again \subseteq SentIds \cup {Ending, 0}, Op(1) \in HoldOps => Ending \in again
    PROVE  PlaceInv' /\ Progress
  <1> DEFINE D == {}
  <1>1. Losing(reqs, again, D)
    BY DEF Losing
  <1> HIDE DEF D
  <1> QED BY <1>1, LossPlaces

(* The scope is in doubt: the open in flight is dropped, or answered.        *)
LEMMA DoubtPlaces ==
    ASSUME TypeOK, TypeOK', SafeInv, PlaceInv, BarrierOpens, stack # <<>>, Return,
           Op(1) \in EntryOps, issued' = issued, barrier # NoBarrier,
           NEW answered, \A c \in answered : \E r \in pending : r.id = barrier.id /\ r.cmd.id = c,
           FailSessionOpenBarrier(answered)
    PROVE  PlaceInv' /\ Progress
  <1> DEFINE reqs == {r \in pending : r.id # barrier.id}
             D == {r.cmd.id : r \in {q \in pending : q.id = barrier.id}}
  <1>1. MarkDisconnected(reqs, answered, FALSE)
    BY DEF FailSessionOpenBarrier
  <1>2. D \subseteq RememberedIds
    BY DEF RememberedIds, BarrierOpens, SafeInv, BarrierCoversCandidate
  <1>3. \A c \in D \ {0} : c \notin CarriedIds
    <2> SUFFICES ASSUME NEW c \in D \ {0}, NEW i \in DOMAIN stack, Op(i) \in CarryOps, Id(i) = c
                 PROVE  FALSE
      BY DEF CarriedIds
    <2>1. c \in SentIds
      BY DEF SentIds, RequestIds
    <2>2. Op(i) = "transmit"
      BY <2>1 DEF PlaceInv, Apart, HeldIds, CarryOps
    <2>3. 1 \in DOMAIN stack /\ DOMAIN stack = 1..Len(stack)
      BY TailData DEF TypeOK
    <2>4. 1 < i
      BY <2>2, <2>3 DEF EntryOps
    <2> QED BY <2>2, <2>3, <2>4 DEF PlaceInv, Callers, EntryFirst
  <1>4. /\ \A r \in reqs : r.cmd.id \in SentIds \cup {Ending, 0}
        /\ \A r \in pending : r \in reqs \/ r.cmd.id \in answered \cup D \cup {0}
        /\ answered \subseteq SentIds \cup {Ending, 0}
    BY DEF SentIds, RequestIds
  <1>5. Op(1) # "returned" /\ (Op(1) \in HoldOps => Ending \in answered)
    BY DEF EntryOps, HoldOps
  <1>6. Losing(reqs, answered, D)
    BY <1>2, <1>3, <1>4, <1>5 DEF Losing
  <1> HIDE DEF reqs, D
  <1> QED BY <1>1, <1>5, <1>6, LossPlaces

LEMMA LossCases ==
    ASSUME TypeOK, TypeOK', SafeInv, PlaceInv, BarrierOpens,
           \/ OpenExpires \/ HelloSendFails \/ ReadFindsNoLink \/ TransmitFails
           \/ TransmitFailsLate \/ ReconnectForTransmitFails
           \/ \E lockedOut \in BOOLEAN : ReadsLinkEnd(lockedOut)
           \/ \E r \in pending : OpenGarbled(r)
    PROVE  PlaceInv' /\ Progress
  <1>0. \A r \in pending : r.cmd.id \in SentIds
    BY DEF SentIds, RequestIds
  <1>1. ASSUME NEW lockedOut, stack # <<>>, Return, Op(1) \notin HoldOps \cup {"returned"},
               issued' = issued, MarkDisconnected(pending, {}, lockedOut)
        PROVE  PlaceInv' /\ Progress
    <2>1. /\ \A r \in pending : r.cmd.id \in SentIds \cup {Ending, 0}
          /\ \A r \in pending : r \in pending \/ r.cmd.id \in {} \cup {0}
          /\ {} \subseteq SentIds \cup {Ending, 0} /\ (Op(1) \in HoldOps => Ending \in {})
      BY <1>0, <1>1
    <2> QED BY <1>1, <2>1, CancelPlaces
  <1>7. CASE OpenExpires
    <2>1. /\ Running("clock") /\ Return /\ issued' = issued /\ barrier # NoBarrier
          /\ FailSessionOpenBarrier({})
      BY <1>7 DEF OpenExpires
    <2>2. stack # <<>> /\ Op(1) = "clock"
      BY <2>1, RunningData
    <2>3. Op(1) \in EntryOps
      BY <2>2 DEF EntryOps
    <2> QED BY <2>1, <2>2, <2>3, DoubtPlaces
  <1>2. CASE HelloSendFails \/ ReadFindsNoLink
    <2>1. /\ stack # <<>> /\ Return /\ Op(1) \notin HoldOps \cup {"returned"} /\ issued' = issued
          /\ MarkDisconnected(pending, {}, FALSE)
      BY <1>2, HeadData, TailData
         DEF TypeOK, Op, Running, Return, Raise, HoldOps, HelloSendFails, ReadFindsNoLink
    <2> QED BY <1>1, <2>1
  <1>3. ASSUME NEW lockedOut \in BOOLEAN, ReadsLinkEnd(lockedOut) PROVE PlaceInv' /\ Progress
    <2>1. /\ stack # <<>> /\ Return /\ Op(1) \notin HoldOps \cup {"returned"} /\ issued' = issued
          /\ MarkDisconnected(pending, {}, lockedOut)
      BY <1>3, HeadData, TailData DEF TypeOK, Op, Running, HoldOps, ReadsLinkEnd
    <2> QED BY <1>1, <2>1
  <1>4. ASSUME NEW r \in pending, OpenGarbled(r) PROVE PlaceInv' /\ Progress
    <2>1. /\ Running("poll") /\ Return /\ issued' = issued /\ r.id = barrier.id
          /\ \E answered \in {{}, {r.cmd.id}} : FailSessionOpenBarrier(answered)
      BY <1>4 DEF OpenGarbled, AnswersOpen
    <2>2. stack # <<>> /\ Op(1) = "poll"
      BY <2>1, RunningData
    <2>3. Op(1) \in EntryOps /\ barrier # NoBarrier
      <3>1. r.id # 0
        BY IdData
      <3> QED BY <2>1, <2>2, <3>1 DEF EntryOps, NoBarrier
    <2>4. PICK answered \in {{}, {r.cmd.id}} : FailSessionOpenBarrier(answered)
      BY <2>1
    <2>5. \A c \in answered : \E q \in pending : q.id = barrier.id /\ q.cmd.id = c
      BY <2>1
    <2> QED BY <2>1, <2>2, <2>3, <2>4, <2>5, DoubtPlaces
  <1> DEFINE c == Head(stack).cmd
             sent == [id |-> nextId + 1, cmd |-> c]
  <1>5. CASE TransmitFails
    <2>1. /\ stack # <<>> /\ Return /\ Op(1) = "admit" /\ issued' = issued /\ stack[1].cmd = c
          /\ MarkDisconnected(pending \cup {sent}, {c.id}, FALSE)
      BY <1>5, HeadData, TailData DEF TypeOK, Op, Running, TransmitFails
    <2>2. c.id = Ending
      BY <2>1 DEF Ending, Id, CarryOps, HoldOps
    <2>3. sent.cmd.id = Ending
      BY <2>2
    <2> HIDE DEF c, sent
    <2> DEFINE reqs == pending \cup {sent}
               again == {c.id}
    <2>4. /\ \A r \in reqs : r.cmd.id \in SentIds \cup {Ending, 0}
          /\ \A r \in pending : r \in reqs \/ r.cmd.id \in again \cup {0}
          /\ again \subseteq SentIds \cup {Ending, 0} /\ Ending \in again /\ Op(1) # "returned"
      BY <1>0, <2>1, <2>2, <2>3
    <2>5. MarkDisconnected(reqs, again, FALSE)
      BY <2>1
    <2> HIDE DEF reqs, again
    <2> QED BY <2>1, <2>4, <2>5, CancelPlaces
  <1>6. CASE TransmitFailsLate \/ ReconnectForTransmitFails
    <2>1. PICK reqs \in SUBSET pending :
             /\ stack # <<>> /\ Return /\ Op(1) = "transmit" /\ issued' = issued /\ stack[1].cmd = c
             /\ MarkDisconnected(reqs, {c.id}, FALSE)
             /\ reqs = pending \/ reqs = {r \in pending : r.cmd # c}
      <3>1. stack # <<>> /\ Return /\ Op(1) = "transmit" /\ issued' = issued /\ stack[1].cmd = c
        BY <1>6, HeadData, TailData
           DEF TypeOK, Op, Running, TransmitFailsLate, ReconnectForTransmitFails
      <3>2. \/ MarkDisconnected(pending, {c.id}, FALSE)
            \/ MarkDisconnected({r \in pending : r.cmd # c}, {c.id}, FALSE)
        BY <1>6 DEF TransmitFailsLate, ReconnectForTransmitFails
      <3> HIDE DEF c
      <3> QED BY <3>1, <3>2
    <2>2. c.id = Ending
      BY <2>1 DEF Ending, Id, CarryOps
    <2> HIDE DEF c
    <2>4. /\ \A r \in reqs : r.cmd.id \in SentIds \cup {Ending, 0}
          /\ \A r \in pending : r \in reqs \/ r.cmd.id \in {c.id} \cup {0}
          /\ {c.id} \subseteq SentIds \cup {Ending, 0} /\ Ending \in {c.id} /\ Op(1) # "returned"
      BY <1>0, <2>1, <2>2
    <2> QED BY <2>1, <2>4, CancelPlaces
  <1> QED BY <1>2, <1>3, <1>4, <1>5, <1>6, <1>7

(* Reads that answer or cancel requests without a call. *)
LEMMA AnswerCases ==
    ASSUME TypeOK, TypeOK', SafeInv, PlaceInv,
           ReadsSkip \/ \E r \in pending, ans \in Answers : PlainAnswer(r, ans)
    PROVE  PlaceInv' /\ Progress
  <1>1. CASE ReadsSkip
    <2>1. /\ Running("poll") /\ Return /\ UNCHANGED <<hello, nextId, deferred, issued>>
          /\ pending' = pending \ pending /\ Report(RequestIds(pending))
      BY <1>1 DEF ReadsSkip, barrierVars
    <2> QED BY <2>1, AnswerPlaces
  <1>2. ASSUME NEW r \in pending, NEW ans \in Answers, PlainAnswer(r, ans)
        PROVE  PlaceInv' /\ Progress
    <2>1. /\ Running("poll") /\ Return /\ UNCHANGED <<hello, nextId, deferred, issued>>
          /\ pending' = pending \ {r} /\ ReportOne(r.cmd)
      BY <1>2 DEF PlainAnswer, ReadsAnswer, ReadsFrame, barrierVars
    <2>2. RequestIds({r}) = {r.cmd.id}
      BY DEF RequestIds
    <2> QED BY <2>1, <2>2, AnswerPlaces DEF ReportOne
  <1> QED BY <1>1, <1>2

-----------------------------------------------------------------------------
(* A handler whose command joins the queue, at its end or at its head.      *)
LEMMA JoinsQueue ==
    ASSUME TypeOK, NEW c \in Command, c.id = 0 \/ c.id \notin DeferredIds,
           \A i, j \in DOMAIN deferred : deferred[i].id = deferred[j].id => i = j \/ deferred[i].id = 0,
           deferred' = Append(deferred, c) \/ deferred' = <<c>> \o deferred
    PROVE  /\ DeferredIds' = DeferredIds \cup {c.id}
           /\ \A i, j \in DOMAIN deferred' :
                 deferred'[i].id = deferred'[j].id => i = j \/ deferred'[i].id = 0
  <1> DEFINE n == Len(deferred)
  <1>1. deferred \in Seq(Command) /\ n \in Nat /\ DOMAIN deferred = 1..n
    BY DEF TypeOK
  <1>2. ASSUME NEW at \in 1..(n + 1), NEW shift \in {0, 1}, DOMAIN deferred' = 1..(n + 1),
               deferred'[at] = c,
               \A i \in 1..(n + 1) : i # at => i - shift \in 1..n /\ deferred'[i] = deferred[i - shift],
               \A i \in 1..n : i + shift \in 1..(n + 1) /\ i + shift # at
        PROVE  /\ DeferredIds' = DeferredIds \cup {c.id}
               /\ \A i, j \in DOMAIN deferred' :
                     deferred'[i].id = deferred'[j].id => i = j \/ deferred'[i].id = 0
    <2> HIDE DEF n
    <2>1. \A i \in 1..(n + 1) : i # at => deferred'[i].id \in DeferredIds
      BY <1>1, <1>2 DEF DeferredIds
    <2>2. \A i \in 1..n : deferred'[i + shift] = deferred[i]
      <3> SUFFICES ASSUME NEW i \in 1..n PROVE deferred'[i + shift] = deferred[i]
        OBVIOUS
      <3>1. i + shift \in 1..(n + 1) /\ i + shift # at /\ (i + shift) - shift = i
        BY <1>1, <1>2
      <3> QED BY <1>2, <3>1
    <2>3. DeferredIds' \subseteq DeferredIds \cup {c.id}
      BY <1>2, <2>1 DEF DeferredIds
    <2>4. DeferredIds \subseteq DeferredIds'
      <3> SUFFICES ASSUME NEW i \in 1..n PROVE deferred[i].id \in DeferredIds'
        BY <1>1 DEF DeferredIds
      <3>1. i + shift \in DOMAIN deferred' /\ deferred'[i + shift].id = deferred[i].id
        BY <1>2, <2>2
      <3> QED BY <3>1 DEF DeferredIds
    <2>5. c.id \in DeferredIds'
      BY <1>2 DEF DeferredIds
    <2>6. ASSUME NEW i \in 1..(n + 1), NEW j \in 1..(n + 1), deferred'[i].id = deferred'[j].id
          PROVE  i = j \/ deferred'[i].id = 0
      <3>1. CASE i = at \/ j = at
        BY <1>2, <2>1, <2>6, <3>1
      <3>2. CASE i # at /\ j # at
        <4>1. i - shift = j - shift \/ deferred[i - shift].id = 0
          BY <1>1, <1>2, <2>6, <3>2
        <4> QED BY <1>2, <3>2, <4>1
      <3> QED BY <3>1, <3>2
    <2> QED BY <1>2, <2>3, <2>4, <2>5, <2>6
  <1>3. CASE deferred' = Append(deferred, c)
    <2>1. /\ DOMAIN deferred' = 1..(n + 1) /\ deferred'[n + 1] = c
          /\ \A i \in 1..(n + 1) : i # n + 1 => i - 0 \in 1..n /\ deferred'[i] = deferred[i - 0]
      BY <1>1, <1>3
    <2>2. /\ n + 1 \in 1..(n + 1) /\ 0 \in {0, 1}
          /\ \A i \in 1..n : i + 0 \in 1..(n + 1) /\ i + 0 # n + 1
      BY <1>1
    <2> HIDE DEF n
    <2> QED BY <1>2, <2>1, <2>2
  <1>4. CASE deferred' = <<c>> \o deferred
    <2>0. <<c>> \in Seq(Command) /\ Len(<<c>>) = 1 /\ <<c>>[1] = c
      OBVIOUS
    <2>1. /\ DOMAIN deferred' = 1..(n + 1) /\ deferred'[1] = c
          /\ \A i \in 1..(n + 1) : i # 1 => i - 1 \in 1..n /\ deferred'[i] = deferred[i - 1]
      <3>1. /\ <<c>> \o deferred \in Seq(Command) /\ Len(<<c>> \o deferred) = 1 + n
            /\ \A i \in 1..(1 + n) :
                  (<<c>> \o deferred)[i] = IF i <= 1 THEN <<c>>[i] ELSE deferred[i - 1]
        BY <1>1, <2>0, ConcatProperties
      <3> QED BY <1>1, <1>4, <2>0, <3>1
    <2>2. /\ 1 \in 1..(n + 1) /\ 1 \in {0, 1}
          /\ \A i \in 1..n : i + 1 \in 1..(n + 1) /\ i + 1 # 1
      BY <1>1
    <2> HIDE DEF n
    <2> QED BY <1>2, <2>1, <2>2
  <1> QED BY <1>3, <1>4

LEMMA QueuePlaces ==
    ASSUME TypeOK, TypeOK', SafeInv, PlaceInv, NEW op \in HoldOps, Running(op), Return,
           UNCHANGED <<hello, nextId, pending, issued, reports, raised>>,
           \/ deferred' = Append(deferred, Head(stack).cmd)
           \/ deferred' = <<Head(stack).cmd>> \o deferred
    PROVE  PlaceInv' /\ Progress
  <1> DEFINE c == Head(stack).cmd
             h == c.id
  <1>0. stack # <<>> /\ Op(1) = op /\ stack[1].cmd = c /\ raised = FALSE /\ c \in Command
    BY RunningData
  <1>1. /\ Op(1) \in HoldOps /\ Op(1) \in CarryOps /\ Op(1) # "returned" /\ Id(1) = h
        /\ 1 \in DOMAIN stack
    BY <1>0, TailData DEF CarryOps, HoldOps, Id, TypeOK
  <1>2. h \in HeldIds /\ h \in CarriedIds
    BY <1>1 DEF HeldIds, CarriedIds
  <1>3. h = 0 \/ h \notin DeferredIds
    BY <1>2 DEF PlaceInv, Apart
  <1>4. /\ DeferredIds' = DeferredIds \cup {h}
        /\ \A i, j \in DOMAIN deferred' :
              deferred'[i].id = deferred'[j].id => i = j \/ deferred'[i].id = 0
    <2>1. \A i, j \in DOMAIN deferred :
             deferred[i].id = deferred[j].id => i = j \/ deferred[i].id = 0
      BY DEF PlaceInv, Apart
    <2>2. deferred' = Append(deferred, c) \/ deferred' = <<c>> \o deferred
      OBVIOUS
    <2> HIDE DEF c
    <2> QED BY <1>0, <1>3, <2>1, <2>2, JoinsQueue
  <1>5. /\ Callers'
        /\ HeldIds' \subseteq HeldIds /\ CarriedIds' \subseteq CarriedIds
        /\ CallerIds' \subseteq CallerIds
        /\ \A c1 \in HeldIds : c1 \in HeldIds' \/ c1 = Id(1)
        /\ Id(1) # 0 => Id(1) \notin CarriedIds'
    BY <1>0, <1>1, Returned DEF PlaceInv
  <1> HIDE DEF h
  <1>6. SentIds' = SentIds /\ HelloIds'
    BY DEF SentIds, RequestIds, HelloIds, PlaceInv
  <1>7. Known'
    BY <1>2, <1>4, <1>5, <1>6 DEF PlaceInv, Known
  <1>8. Apart'
    <2>1. \A d \in HeldIds' \ {0} : reports'[d] = 0 /\ d \notin SentIds'
      BY <1>5, <1>6 DEF PlaceInv, Apart
    <2>2. \A d \in CarriedIds' \ {0} : d \notin DeferredIds'
      BY <1>1, <1>4, <1>5 DEF PlaceInv, Apart
    <2>3. \A d \in DeferredIds' \ {0} : reports'[d] = 0 /\ d \notin SentIds' /\ ~Failing(d)'
      BY <1>0, <1>2, <1>4, <1>6 DEF PlaceInv, Apart, Failing
    <2> QED BY <1>4, <2>1, <2>2, <2>3 DEF Apart
  <1>9. \A d \in 1..issued : Live(d)' <=> Live(d)
    <2> SUFFICES ASSUME NEW d \in 1..issued
                 PROVE  d \in DeferredIds' \cup HeldIds' <=> d \in DeferredIds \cup HeldIds
      BY <1>0, <1>6 DEF Live, Failing
    <2> QED BY <1>1, <1>2, <1>4, <1>5
  <1>11. CarriedLive'
    BY <1>5, <1>9, LiveCarried
  <1>10. Progress
    <2>1. \A d \in 1..MaxCommands : reports[d] \in Nat
      BY IdData
    <2> QED BY <1>6, <1>9, <2>1, IdData DEF Progress
  <1> QED BY <1>5, <1>6, <1>7, <1>8, <1>10, <1>11 DEF PlaceInv

(* A request goes out for the command h of a handler, or for none. *)
LEMMA Tracked ==
    ASSUME TypeOK, TypeOK', PlaceInv, Callers',
           HeldIds' \subseteq HeldIds \cup {0}, CarriedIds' \subseteq CarriedIds \cup {0},
           CallerIds' \subseteq CallerIds, raised = FALSE, raised' = FALSE,
           NEW h, h = 0 \/ (h \in HeldIds /\ h \notin HeldIds'),
           \A c \in HeldIds : c \in HeldIds' \cup {h, 0},
           NEW r, pending' = pending \cup {r}, r.id = nextId + 1, r.cmd.id = h, nextId' = r.id,
           hello' = hello \/ (hello' = r.id /\ h = 0),
           UNCHANGED <<deferred, issued, reports>>
    PROVE  PlaceInv' /\ Progress
  <1>1. /\ issued \in Nat /\ issued <= MaxCommands /\ MaxCommands \in Nat
        /\ hello \in Nat /\ nextId \in Nat /\ HeldIds \subseteq CarriedIds
        /\ CarriedIds \subseteq 0..MaxCommands
        /\ \A c \in 1..MaxCommands : reports[c] \in Nat
        /\ \A q \in pending : q.id \in Nat \ {0}
    BY IdData
  <1>2. SentIds' = SentIds \cup {h} /\ DeferredIds' = DeferredIds
    BY DEF SentIds, RequestIds, DeferredIds
  <1>3. Known'
    <2>0. 0 \in 0..issued
      BY <1>1
    <2>1. 0 \in 0..issued /\ h \in 0..issued
      BY <1>1, <2>0 DEF PlaceInv, Known
    <2> QED BY <1>2, <2>1 DEF PlaceInv, Known
  <1>4. Apart'
    <2>1. \A c \in HeldIds' \ {0} : reports'[c] = 0 /\ c \notin SentIds'
      BY <1>2 DEF PlaceInv, Apart
    <2>2. \A c \in CarriedIds' \ {0} : c \notin DeferredIds'
      BY <1>2 DEF PlaceInv, Apart
    <2>3. \A c \in DeferredIds' \ {0} : reports'[c] = 0 /\ c \notin SentIds' /\ ~Failing(c)'
      BY <1>1, <1>2 DEF PlaceInv, Apart, Failing
    <2> QED BY <2>1, <2>2, <2>3 DEF PlaceInv, Apart
  <1>5. \A c \in 1..issued : Live(c)' <=> Live(c)
    <2> SUFFICES ASSUME NEW c \in 1..issued
                 PROVE  c \in SentIds' \cup HeldIds' <=> c \in SentIds \cup HeldIds
      BY <1>2 DEF Live, Failing
    <2>1. c # 0
      OBVIOUS
    <2> QED BY <1>2, <2>1
  <1>8. CarriedLive'
    BY <1>5, LiveCarried
  <1>6. HelloIds'
    <2>1. hello' <= nextId'
      BY <1>1 DEF PlaceInv, HelloIds
    <2>2. \A q \in pending' : q.id <= nextId' /\ (q.id = hello' => q.cmd.id = 0)
      BY <1>1 DEF PlaceInv, HelloIds
    <2> QED BY <2>1, <2>2 DEF HelloIds
  <1>7. Progress
    <2>1. \A q \in pending' \ pending : q.cmd.id # 0 => reports[q.cmd.id] = 0
      BY DEF PlaceInv, Apart
    <2> QED BY <1>1, <1>2, <1>5, <2>1 DEF Progress
  <1> QED BY <1>3, <1>4, <1>6, <1>7, <1>8 DEF PlaceInv

LEMMA HeldCases ==
    ASSUME TypeOK, TypeOK', SafeInv, PlaceInv,
           GateRefuses \/ AdmitRejects \/ AdmitDefers \/ Requeue
    PROVE  PlaceInv' /\ Progress
  <1> DEFINE c == Head(stack).cmd
  <1>1. CASE GateRefuses \/ AdmitRejects
    <2>1. PICK op \in HoldOps : /\ Running(op) /\ Return /\ ReportOne(c)
                                /\ UNCHANGED <<hello, nextId, pending, deferred, issued>>
      <3>1. "gate" \in HoldOps /\ "admit" \in HoldOps
        BY DEF HoldOps
      <3> QED BY <1>1, <3>1 DEF GateRefuses, AdmitRejects, barrierVars, requestVars
    <2> QED BY <2>1, RefusalPlaces
  <1>2. CASE AdmitDefers \/ Requeue
    <2>1. PICK op \in HoldOps : /\ Running(op) /\ Return
                                /\ UNCHANGED <<hello, nextId, pending, issued, raised>>
                                /\ \/ ReportOne(c) /\ UNCHANGED deferred
                                   \/ deferred' = Append(deferred, c) /\ UNCHANGED reports
                                   \/ deferred' = <<c>> \o deferred /\ UNCHANGED reports
      <3>1. "admit" \in HoldOps /\ "requeue" \in HoldOps
        BY DEF HoldOps
      <3>2. CASE AdmitDefers
        BY <3>1, <3>2 DEF AdmitDefers, Defer, requestVars
      <3>3. CASE Requeue
        BY <3>1, <3>3 DEF Requeue, requestVars
      <3> QED BY <1>2, <3>2, <3>3
    <2>2. CASE ReportOne(c) /\ UNCHANGED deferred
      BY <2>1, <2>2, RefusalPlaces
    <2>3. CASE ~(ReportOne(c) /\ UNCHANGED deferred)
      BY <2>1, <2>3, QueuePlaces
    <2> QED BY <2>2, <2>3
  <1> QED BY <1>1, <1>2

LEMMA TrackCases ==
    ASSUME TypeOK, TypeOK', SafeInv, PlaceInv, Transmits \/ HelloSent \/ TransmitReconnects
    PROVE  PlaceInv' /\ Progress
  <1> DEFINE c == Head(stack).cmd
             h == c.id
             r == [id |-> nextId + 1, cmd |-> c]
  <1>1. 1 \in DOMAIN stack \/ stack = <<>>
    BY TailData DEF TypeOK
  <1>2. CASE Transmits
    <2>1. /\ stack # <<>> /\ Return /\ Op(1) = "admit" /\ Id(1) = h
          /\ raised = FALSE /\ raised' = FALSE
          /\ pending' = pending \cup {r} /\ nextId' = r.id
          /\ UNCHANGED <<hello, deferred, issued, reports>>
      BY <1>2, RunningData DEF Transmits, Track, Id
    <2>2. r.id = nextId + 1 /\ r.cmd.id = h
      OBVIOUS
    <2> HIDE DEF c, h, r
    <2>3. h \in HeldIds /\ Op(1) \in CarryOps
      BY <1>1, <2>1 DEF HeldIds, HoldOps, CarryOps
    <2>4. /\ Callers'
          /\ HeldIds' \subseteq HeldIds /\ CarriedIds' \subseteq CarriedIds
          /\ CallerIds' \subseteq CallerIds
          /\ \A d \in HeldIds : d \in HeldIds' \/ d = Id(1)
          /\ Id(1) # 0 => Id(1) \notin CarriedIds'
      BY <2>1, <2>3, Returned DEF PlaceInv
    <2>5. h = 0 \/ (h \in HeldIds /\ h \notin HeldIds')
      BY <2>1, <2>3, <2>4 DEF HeldIds, CarriedIds, CarryOps
    <2>6. /\ HeldIds' \subseteq HeldIds \cup {0} /\ CarriedIds' \subseteq CarriedIds \cup {0}
          /\ \A d \in HeldIds : d \in HeldIds' \cup {h, 0}
      BY <2>1, <2>4
    <2> QED BY <2>1, <2>2, <2>4, <2>5, <2>6, Tracked
  <1>3. CASE TransmitReconnects
    <2> DEFINE a == Fr("connect")
               b == FrCmd("transmit", c)
               f == <<a, b>>
    <2>1. /\ stack # <<>> /\ Call(f) /\ Op(1) = "admit" /\ Id(1) = h
          /\ raised = FALSE /\ raised' = FALSE /\ c \in Command
          /\ pending' = pending \cup {r} /\ nextId' = r.id
          /\ UNCHANGED <<hello, deferred, issued, reports>>
      BY <1>3, RunningData DEF TransmitReconnects, Track, Id
    <2>2. r.id = nextId + 1 /\ r.cmd.id = h
      OBVIOUS
    <2>3. /\ a \in Frame /\ a.op = "connect"
          /\ b \in Frame /\ b.op = "transmit" /\ b.cmd.id = h
      BY <2>1, FrameData DEF Ops, Fr, FrCmd
    <2> HIDE DEF c, h, r, a, b
    <2>4. /\ f \in Seq(Frame) /\ f # <<>> /\ 2 = Len(f) /\ f[1] = a /\ f[2] = b
          /\ \A i \in 1..2 : i = 1 \/ i = 2
      BY <2>3, TwoFrames
    <2> HIDE DEF f
    <2>5. Continues(f, 2) /\ f[2].op \notin HoldOps /\ Op(1) \in CarryOps
      BY <2>1, <2>3, <2>4 DEF Continues, CarryOps, HoldOps, EntryOps
    <2>6. /\ Callers' /\ CarriedIds' \subseteq CarriedIds \cup {0}
          /\ HeldIds' \subseteq HeldIds \cup {0} /\ CallerIds' = CallerIds
          /\ \A d \in HeldIds : d \in HeldIds' \/ d = Id(1)
          /\ Id(1) # 0 => Id(1) \notin HeldIds'
      BY <2>1, <2>4, <2>5, Called DEF PlaceInv
    <2>7. h \in HeldIds
      BY <1>1, <2>1 DEF HeldIds, HoldOps
    <2>8. h = 0 \/ (h \in HeldIds /\ h \notin HeldIds')
      BY <2>1, <2>6, <2>7
    <2>9. \A d \in HeldIds : d \in HeldIds' \cup {h, 0}
      BY <2>1, <2>6
    <2> QED BY <2>1, <2>2, <2>6, <2>8, <2>9, Tracked
  <1>4. CASE HelloSent
    <2> DEFINE q == [id |-> nextId + 1, cmd |-> HelloCommand]
    <2>1. /\ stack # <<>> /\ Return /\ Op(1) = "hello" /\ raised = FALSE /\ raised' = FALSE
          /\ pending' = pending \cup {q} /\ nextId' = q.id /\ hello' = q.id
          /\ UNCHANGED <<deferred, issued, reports>>
      BY <1>4, RunningData DEF HelloSent, userVars
    <2>2. q.id = nextId + 1 /\ q.cmd.id = 0
      BY DEF HelloCommand, Cmd
    <2> HIDE DEF q
    <2>3. /\ Callers'
          /\ HeldIds' \subseteq HeldIds /\ CarriedIds' \subseteq CarriedIds
          /\ CallerIds' \subseteq CallerIds
          /\ \A d \in HeldIds : d \in HeldIds' \/ (Op(1) \in HoldOps /\ d = Id(1))
      BY <2>1, Returned DEF PlaceInv
    <2>4. /\ HeldIds' \subseteq HeldIds \cup {0} /\ CarriedIds' \subseteq CarriedIds \cup {0}
          /\ \A d \in HeldIds : d \in HeldIds' \cup {0, 0}
      BY <2>1, <2>3 DEF HoldOps
    <2> QED BY <2>1, <2>2, <2>3, <2>4, Tracked
  <1> QED BY <1>2, <1>3, <1>4

(* The call of the event loop ends; an Err becomes the command's event. *)
LEMMA CallerPlaces ==
    ASSUME TypeOK, TypeOK', SafeInv, PlaceInv, SendReturns
    PROVE  PlaceInv' /\ Progress
  <1> DEFINE C == IF raised THEN {Head(stack).cmd.id} ELSE {}
  <1>1. /\ stack # <<>> /\ Return /\ Op(1) = "returned" /\ stack[1] = Head(stack)
        /\ raised' = FALSE /\ Report(C)
        /\ UNCHANGED <<hello, nextId, pending, deferred, issued>>
        /\ 1 \in DOMAIN stack
    BY TailData DEF SendReturns, barrierVars, requestVars, Op, TypeOK
  <1>2. C = (IF raised THEN {Id(1)} ELSE {}) /\ Id(1) \in CallerIds
    BY <1>1 DEF Id, CallerIds
  <1>3. Reported(C)
    BY <1>1, ReportData
  <1>4. /\ Callers' /\ CallerIds' \subseteq CallerIds
        /\ HeldIds' \subseteq HeldIds /\ CarriedIds' \subseteq CarriedIds
        /\ CarriedIds = {} /\ Id(1) # 0
    BY <1>1, Returned DEF PlaceInv, Callers, CallerLast
  <1> HIDE DEF C
  <1>5. /\ issued \in Nat /\ issued <= MaxCommands /\ MaxCommands \in Nat
        /\ HeldIds \subseteq CarriedIds
        /\ CallerIds \subseteq 0..MaxCommands /\ DeferredIds \subseteq 0..MaxCommands
        /\ \A c \in 1..MaxCommands : reports[c] \in Nat
    BY IdData
  <1>6. SentIds' = SentIds /\ DeferredIds' = DeferredIds /\ HelloIds'
    BY <1>1 DEF SentIds, RequestIds, DeferredIds, HelloIds, PlaceInv
  <1>7. \A c : Failing(c) <=> c \in C
    BY <1>1, <1>2 DEF Failing
  <1>8. Known'
    <2>1. \A c \in 1..MaxCommands : c > issued => c \notin C
      BY <1>2, <1>5 DEF PlaceInv, Known
    <2> QED BY <1>1, <1>3, <1>4, <1>6, <2>1 DEF PlaceInv, Known, Reported
  <1>9. Apart'
    <2>1. \A d \in DeferredIds' \ {0} : reports'[d] = 0 /\ d \notin SentIds' /\ ~Failing(d)'
      BY <1>1, <1>3, <1>5, <1>6, <1>7 DEF PlaceInv, Apart, Reported, Failing
    <2>2. HeldIds' = {} /\ CarriedIds' = {}
      BY <1>4, <1>5
    <2> QED BY <1>1, <2>1, <2>2 DEF PlaceInv, Apart
  <1>10. \A c \in 1..issued : Live(c)' <=> Live(c)
    <2> SUFFICES ASSUME NEW c \in 1..issued PROVE Live(c)' <=> Live(c)
      OBVIOUS
    <2>1. c \in 1..MaxCommands /\ reports[c] \in Nat
      BY <1>5
    <2>2. (c \in C => reports'[c] > reports[c]) /\ (c \notin C => reports'[c] = reports[c])
      BY <1>3, <2>1 DEF Reported
    <2>3. reports'[c] \in Nat
      BY <2>1 DEF TypeOK
    <2>4. ~Failing(c)' /\ c \notin HeldIds /\ c \notin HeldIds'
      BY <1>1, <1>4, <1>5 DEF Failing
    <2>5. reports'[c] > 0 <=> reports[c] > 0 \/ Failing(c)
      BY <1>7, <2>1, <2>2, <2>3
    <2> QED BY <1>6, <2>4, <2>5 DEF Live
  <1>12. CarriedLive'
    BY <1>4, <1>10, LiveCarried
  <1>11. Progress
    <2>1. \A c \in 1..MaxCommands : reports'[c] \in Nat
      BY DEF TypeOK
    <2>2. \A c \in 1..MaxCommands : reports'[c] >= reports[c]
      BY <1>3, <1>5, <2>1 DEF Reported
    <2> QED BY <1>1, <1>5, <1>6, <1>10, <2>2 DEF Progress
  <1> QED BY <1>4, <1>6, <1>8, <1>9, <1>11, <1>12 DEF PlaceInv

-----------------------------------------------------------------------------
(* The frames of a call that carry nothing, or the command of the backend.  *)
Bare(f) ==
    /\ f.op \notin EntryOps \cup {"returned", "transmit"}
    /\ f.op \in CarryOps => f.cmd.id = 0

(* Or that the event loop itself pushes. *)
Plain(f) == Bare(f) \/ f.op \in EntryOps

LEMMA BareData ==
    /\ \A op \in Ops \ (EntryOps \cup {"returned", "transmit"}) :
          Bare(Fr(op)) /\ \A p : Bare(FrPlan(op, p))
    /\ \A c \in Command : c.id = 0 => FrCmd("gate", c) \in Frame /\ Bare(FrCmd("gate", c))
    /\ {CapsCommand, ResolveCommand} \subseteq {c \in Command : c.id = 0}
    /\ \A s \in Sessions :
          {OpenCommand(s), ReopenCommand(s)} \subseteq {c \in Command : c.id = 0}
  <1>1. \A op \in Ops \ (EntryOps \cup {"returned", "transmit"}) :
           Bare(Fr(op)) /\ \A p : Bare(FrPlan(op, p))
    BY DEF Bare, Fr, FrPlan, NoCommand, Cmd
  <1>2. \A c \in Command : c.id = 0 => FrCmd("gate", c) \in Frame /\ Bare(FrCmd("gate", c))
    BY FrameData DEF Bare, FrCmd, Ops, EntryOps
  <1>3. {CapsCommand, ResolveCommand} \subseteq {c \in Command : c.id = 0}
    BY CommandData DEF CapsCommand, ResolveCommand, Cmd
  <1>4. \A s \in Sessions :
           {OpenCommand(s), ReopenCommand(s)} \subseteq {c \in Command : c.id = 0}
    <2>1. \A s : OpenCommand(s).id = 0 /\ ReopenCommand(s).id = 0
      BY DEF OpenCommand, ReopenCommand, Cmd
    <2> QED BY <2>1, CommandData
  <1> QED BY <1>1, <1>2, <1>3, <1>4

(* A handler that carries no command and calls others that carry none. *)
LEMMA BareCall ==
    ASSUME TypeOK, TypeOK', PlaceInv, stack # <<>>, NEW f \in Seq(Frame), f # <<>>, Call(f),
           Op(1) \notin CarryOps \cup {"returned", "flush"},
           \A i \in 1..Len(f) : Bare(f[i]),
           NEW C \in SUBSET SentIds, Reported(C), RequestsFollow,
           SentIds \subseteq SentIds' \cup C \cup {0},
           deferred' = deferred, issued' = issued
    PROVE  PlaceInv' /\ Progress
  <1> DEFINE m == Len(f)
  <1>1. Continues(f, m)
    BY DEF Continues, Bare, CarryOps, EntryOps
  <1>2. Op(1) \in HoldOps => f[m].op \in HoldOps
    BY DEF CarryOps
  <1>3. m = Len(f)
    OBVIOUS
  <1> HIDE DEF m
  <1> QED BY <1>1, <1>2, <1>3, SettledByCall

(* A call that leaves the requests and the events as they are. *)
LEMMA QuietCall ==
    ASSUME TypeOK, TypeOK', PlaceInv, stack # <<>>, NEW f \in Seq(Frame), f # <<>>, Call(f),
           Op(1) \notin CarryOps \cup {"returned", "flush"}, \A i \in 1..Len(f) : Bare(f[i]),
           UNCHANGED <<hello, nextId, pending, deferred, issued, reports>>
    PROVE  PlaceInv' /\ Progress
  <1>1. Reported({}) /\ {} \in SUBSET SentIds /\ RequestsFollow
        /\ SentIds \subseteq SentIds' \cup {} \cup {0}
    BY ReportData DEF RequestsFollow, SentIds, RequestIds
  <1> QED BY <1>1, BareCall

LEMMA BareOne ==
    ASSUME NEW a \in Frame, Bare(a)
    PROVE  <<a>> \in Seq(Frame) /\ <<a>> # <<>> /\ \A i \in 1..Len(<<a>>) : Bare(<<a>>[i])
  <1> DEFINE f == <<a>>
  <1>1. f \in Seq(Frame) /\ f # <<>> /\ Len(f) = 1 /\ f[1] = a
    BY OneFrame
  <1> HIDE DEF f
  <1>2. \A i \in 1..Len(f) : Bare(f[i])
    BY <1>1
  <1> QED BY <1>1, <1>2 DEF f

LEMMA BareTwo ==
    ASSUME NEW a \in Frame, NEW b \in Frame, Bare(a), Bare(b)
    PROVE  /\ <<a, b>> \in Seq(Frame) /\ <<a, b>> # <<>>
           /\ \A i \in 1..Len(<<a, b>>) : Bare(<<a, b>>[i])
           /\ <<a>> \o <<b>> = <<a, b>>
  <1> DEFINE f == <<a, b>>
  <1>1. f \in Seq(Frame) /\ f # <<>> /\ Len(f) = 2 /\ f[1] = a /\ f[2] = b
        /\ \A i \in 1..2 : i = 1 \/ i = 2
    BY TwoFrames
  <1>3. <<a>> \o <<b>> = f
    BY JoinTwo
  <1> HIDE DEF f
  <1>2. \A i \in 1..Len(f) : Bare(f[i])
    BY <1>1
  <1> QED BY <1>1, <1>2, <1>3 DEF f

(* The frames of one replayed open. *)
LEMMA OpenNextIsBare ==
    ASSUME NEW p \in Plan, OpenNext(p)
    PROVE  \E f \in Seq(Frame) : f # <<>> /\ Call(f) /\ \A i \in 1..Len(f) : Bare(f[i])
  <1>1. PICK s \in PlanHeads(p) : Call(SendFrames(ReopenCommand(s)) \o <<Fr("opened")>>)
    BY DEF OpenNext
  <1> DEFINE a == FrCmd("gate", ReopenCommand(s))
             b == Fr("opened")
  <1>2. a \in Frame /\ Bare(a) /\ b \in Frame /\ Bare(b)
    BY BareData, PlanData, FrameData DEF Ops, EntryOps
  <1>3. Call(<<a>> \o <<b>>)
    BY <1>1 DEF SendFrames
  <1> HIDE DEF a, b
  <1> QED BY <1>2, <1>3, BareTwo

LEMMA ReplayCases ==
    ASSUME TypeOK, TypeOK', PlaceInv,
           Dials \/ RefreshCapabilities \/ ReplayResolve \/ ReopenStarts
    PROVE  PlaceInv' /\ Progress
  <1>1. /\ stack # <<>> /\ Op(1) \notin CarryOps \cup {"returned", "flush"}
        /\ UNCHANGED <<hello, nextId, pending, deferred, issued, reports>>
    BY HeadData, TailData
       DEF TypeOK, Running, Op, CarryOps, HoldOps, barrierVars, requestVars, userVars, Dials,
           RefreshCapabilities, ReplayResolve, ReopenStarts
  <1>2. Head(stack).plan \in Plan
    BY <1>1, HeadData DEF TypeOK
  <1>3. \E f \in Seq(Frame) : f # <<>> /\ Call(f) /\ \A i \in 1..Len(f) : Bare(f[i])
    <2>1. CASE Dials
      <3> DEFINE a == Fr("hello")
                 b == Fr("caps")
                 c == FrPlan("reopen", IF reported THEN ReopenPlan ELSE NoPlan)
                 f == (IF Stdio THEN <<a>> ELSE <<>>) \o (IF refreshCaps THEN <<b>> ELSE <<>>) \o <<c>>
      <3>1. Call(f)
        BY <2>1 DEF Dials
      <3>2. (IF reported THEN ReopenPlan ELSE NoPlan) \in Plan
        BY BackendAssumption, PlanData DEF ReopenPlan, Plan, Target, TypeOK, BackendAssumption
      <3>3. a \in Frame /\ Bare(a) /\ b \in Frame /\ Bare(b) /\ c \in Frame /\ Bare(c)
        BY <3>2, FrameData, BareData DEF Ops, EntryOps
      <3>4. Stdio \in BOOLEAN /\ refreshCaps \in BOOLEAN
        BY BackendAssumption DEF BackendAssumption, TypeOK
      <3> HIDE DEF a, b, c
      <3>5. f \in Seq(Frame) /\ f # <<>> /\ \A i \in 1..Len(f) : f[i] \in {a, b, c}
        BY <3>3, <3>4, DialFrames
      <3> HIDE DEF f
      <3> QED BY <3>1, <3>3, <3>5
    <2>2. CASE RefreshCapabilities
      <3> DEFINE a == FrCmd("gate", CapsCommand)
      <3>1. a \in Frame /\ Bare(a)
        BY BareData
      <3>2. Call(<<a>>)
        BY <2>2 DEF RefreshCapabilities, SendFrames
      <3> HIDE DEF a
      <3> QED BY <3>1, <3>2, BareOne
    <2>3. CASE ReplayResolve
      <3> DEFINE a == FrCmd("gate", ResolveCommand)
                 b == FrPlan("reopenNow", Head(stack).plan)
      <3>1. a \in Frame /\ Bare(a) /\ b \in Frame /\ Bare(b)
        BY <1>2, BareData, FrameData DEF Ops, EntryOps
      <3>2. Call(<<a>> \o <<b>>)
        BY <2>3 DEF ReplayResolve, SendFrames
      <3> HIDE DEF a, b
      <3> QED BY <3>1, <3>2, BareTwo
    <2>4. CASE ReopenStarts
      BY <1>2, <2>4, OpenNextIsBare DEF ReopenStarts
    <2> QED BY <2>1, <2>2, <2>3, <2>4
  <1> QED BY <1>1, <1>3, QuietCall

(* send calls ensure_connected, or an open, before it goes on with its      *)
(* command.                                                                 *)
LEMMA SendCases ==
    ASSUME TypeOK, TypeOK', PlaceInv, GatePasses \/ AdmitOpensFirst
    PROVE  PlaceInv' /\ Progress
  <1> DEFINE c == Head(stack).cmd
  <1>1. /\ stack # <<>> /\ Op(1) \in {"gate", "admit"} /\ Id(1) = c.id /\ c \in Command
        /\ UNCHANGED <<hello, nextId, pending, deferred, issued, reports>>
    BY HeadData, TailData
       DEF TypeOK, Running, Op, Id, barrierVars, requestVars, userVars, GatePasses, AdmitOpensFirst
  <1>2. \E f \in Seq(Frame), m \in {1, 2} :
           /\ f # <<>> /\ Call(f) /\ Len(f) = m
           /\ f[m].op \in HoldOps /\ f[m].cmd.id = c.id
           /\ m = 2 => Bare(f[1])
    <2>1. CASE GatePasses
      <3> DEFINE a == Fr("connect")
                 b == FrCmd("admit", c)
      <3>1. a \in Frame /\ Bare(a) /\ b \in Frame /\ b.op \in HoldOps /\ b.cmd.id = c.id
        BY <1>1, BareData, FrameData DEF Ops, EntryOps, FrCmd, HoldOps
      <3>2. Call((IF up THEN <<>> ELSE <<a>>) \o <<b>>)
        BY <2>1 DEF GatePasses
      <3> HIDE DEF a, b, c
      <3>3. CASE up
        <4> DEFINE f == <<b>>
        <4>1. Call(f)
          BY <3>1, <3>2, <3>3, JoinTwo
        <4>2. f \in Seq(Frame) /\ f # <<>> /\ Len(f) = 1 /\ f[1] = b
          BY <3>1, OneFrame
        <4> HIDE DEF f
        <4> QED BY <3>1, <4>1, <4>2
      <3>4. CASE ~up
        <4> DEFINE f == <<a, b>>
        <4>1. Call(f)
          BY <3>1, <3>2, <3>4, JoinTwo
        <4>2. f \in Seq(Frame) /\ f # <<>> /\ Len(f) = 2 /\ f[1] = a /\ f[2] = b
          BY <3>1, TwoFrames
        <4> HIDE DEF f
        <4> QED BY <3>1, <4>1, <4>2
      <3> QED BY <3>3, <3>4
    <2>2. CASE AdmitOpensFirst
      <3> DEFINE a == FrCmd("gate", OpenCommand(c.sess))
                 b == FrCmd("requeue", c)
                 f == <<a, b>>
      <3>1. c.sess \in Sessions
        BY <1>1, <2>2 DEF AdmitOpensFirst, UnknownHydrate, Command, SessionKinds
      <3>2. a \in Frame /\ Bare(a) /\ b \in Frame /\ b.op \in HoldOps /\ b.cmd.id = c.id
        BY <1>1, <3>1, BareData, FrameData DEF Ops, EntryOps, FrCmd, HoldOps
      <3>3. Call(<<a>> \o <<b>>)
        BY <2>2 DEF AdmitOpensFirst, SendFrames
      <3> HIDE DEF a, b, c
      <3>4. f \in Seq(Frame) /\ f # <<>> /\ Len(f) = 2 /\ f[1] = a /\ f[2] = b /\ Call(f)
        BY <3>2, <3>3, TwoFrames, JoinTwo
      <3> HIDE DEF f
      <3> QED BY <3>2, <3>4
    <2> QED BY <2>1, <2>2
  <1> HIDE DEF c
  <1>3. PICK f \in Seq(Frame), m \in {1, 2} :
           /\ f # <<>> /\ Call(f) /\ m = Len(f)
           /\ f[m].op \in HoldOps /\ f[m].cmd.id = c.id
           /\ m = 2 => Bare(f[1])
    BY <1>2
  <1>4. \A i \in 1..m : i = m \/ (i = 1 /\ m = 2)
    BY <1>3
  <1>5. Continues(f, m)
    BY <1>1, <1>3, <1>4 DEF Continues, Bare, CarryOps, HoldOps, EntryOps
  <1>6. Reported({}) /\ {} \in SUBSET SentIds /\ RequestsFollow
        /\ SentIds \subseteq SentIds' \cup {} \cup {0}
    BY <1>1, ReportData DEF RequestsFollow, SentIds, RequestIds
  <1> QED BY <1>1, <1>3, <1>5, <1>6, SettledByCall

(* An answer after which the backend sends, or releases, what waited; or    *)
(* the deadline of a negotiation.                                           *)
LEMMA AnswerCallCases ==
    ASSUME TypeOK, TypeOK', PlaceInv,
           \/ HelloExpires
           \/ \E r \in pending : OpenConfirmedMidChain(r) \/ OpenConfirmedLast(r) \/ OpenRejected(r)
           \/ \E r \in pending, ans \in Answers : HelloAnswered(r, ans)
    PROVE  PlaceInv' /\ Progress
  <1>1. CASE HelloExpires
    <2> DEFINE a == Fr("flush")
               b == Head(stack)
    <2>1. /\ stack # <<>> /\ Op(1) = "clock" /\ b = stack[1] /\ b \in Frame
          /\ hello' = 0 /\ pending' = {r \in pending : r.id # hello} /\ stack' = <<a>> \o stack
          /\ UNCHANGED <<nextId, deferred, issued, reports>>
      BY <1>1, RunningData, HeadData DEF TypeOK, HelloExpires, userVars
    <2>2. a \in Frame /\ Bare(a) /\ b.op = "clock"
      BY <2>1, FrameData, BareData DEF Ops, EntryOps, Op
    <2>3. Call(<<a, b>>)
      BY <2>1, <2>2, PushIsCall DEF TypeOK, Call
    <2>4. Op(1) \in EntryOps /\ Op(1) \notin HoldOps
      BY <2>1 DEF EntryOps, HoldOps
    <2>5. /\ Reported({}) /\ {} \in SUBSET SentIds /\ RequestsFollow
          /\ SentIds \subseteq SentIds' \cup {} \cup {0}
      BY <2>1, ReportData DEF RequestsFollow, SentIds, RequestIds, PlaceInv, HelloIds
    <2> DEFINE f == <<a, b>>
    <2> HIDE DEF a, b
    <2>6. f \in Seq(Frame) /\ f # <<>> /\ Len(f) = 2 /\ f[1] = a /\ f[2] = b /\ Call(f)
      BY <2>1, <2>2, <2>3, TwoFrames
    <2> HIDE DEF f
    <2>7. Continues(f, 2)
      <3>1. \A i \in 1..2 : i = 1 \/ i = 2
        OBVIOUS
      <3> QED BY <2>1, <2>2, <2>4, <2>6, <3>1 DEF Continues, Bare, CarryOps, HoldOps, EntryOps
    <2> QED BY <2>1, <2>4, <2>5, <2>6, <2>7, SettledByCall
  <1>2. ASSUME NEW r \in pending, Running("poll"), pending' = pending \ {r}, ReportOne(r.cmd),
               UNCHANGED <<nextId, deferred, issued>>, hello' = hello \/ hello' = 0,
               \E f \in Seq(Frame) : f # <<>> /\ Call(f) /\ \A i \in 1..Len(f) : Bare(f[i])
        PROVE  PlaceInv' /\ Progress
    <2>0. stack # <<>> /\ Op(1) = "poll"
      BY <1>2, RunningData
    <2>1. stack # <<>> /\ Op(1) \notin CarryOps \cup {"returned", "flush"}
      BY <2>0 DEF CarryOps, HoldOps
    <2>2. Reported({r.cmd.id})
      BY <1>2, ReportData DEF ReportOne
    <2>3. /\ {r.cmd.id} \in SUBSET SentIds /\ RequestsFollow
          /\ SentIds \subseteq SentIds' \cup {r.cmd.id} \cup {0}
      BY <1>2 DEF RequestsFollow, SentIds, RequestIds
    <2> QED BY <1>2, <2>1, <2>2, <2>3, BareCall
  <1>3. Fr("flush") \in Frame /\ Bare(Fr("flush"))
    BY FrameData, BareData DEF Ops, EntryOps
  <1>4. Call(<<Fr("flush")>>) =>
           \E f \in Seq(Frame) : f # <<>> /\ Call(f) /\ \A i \in 1..Len(f) : Bare(f[i])
    BY <1>3, BareOne
  <1>5. ASSUME NEW r \in pending, OpenConfirmedMidChain(r) PROVE PlaceInv' /\ Progress
    <2>1. chain \in Plan /\ OpenNext(chain)
      BY <1>5 DEF TypeOK, OpenConfirmedMidChain
    <2>2. \E f \in Seq(Frame) : f # <<>> /\ Call(f) /\ \A i \in 1..Len(f) : Bare(f[i])
      BY <2>1, OpenNextIsBare
    <2> QED BY <1>2, <1>5, <2>2 DEF OpenConfirmedMidChain, OpenConfirmed, ReadsAnswer, ReadsFrame
  <1>6. ASSUME NEW r \in pending, OpenConfirmedLast(r) PROVE PlaceInv' /\ Progress
    BY <1>2, <1>4, <1>6 DEF OpenConfirmedLast, OpenConfirmed, ReadsAnswer, ReadsFrame
  <1>7. ASSUME NEW r \in pending, OpenRejected(r) PROVE PlaceInv' /\ Progress
    BY <1>2, <1>4, <1>7 DEF OpenRejected, ReadsAnswer, ReadsFrame
  <1>8. ASSUME NEW r \in pending, NEW ans \in Answers, HelloAnswered(r, ans)
        PROVE  PlaceInv' /\ Progress
    BY <1>2, <1>4, <1>8 DEF HelloAnswered, ReadsAnswer, ReadsFrame
  <1> QED BY <1>1, <1>5, <1>6, <1>7, <1>8

(* A stack that carries no command of the store. *)
LEMMA BareStack ==
    /\ (\A i \in DOMAIN stack : Plain(stack[i])) =>
          Callers /\ HeldIds \subseteq {0} /\ CarriedIds \subseteq {0} /\ CallerIds = {}
    /\ (\A i \in DOMAIN stack' : Plain(stack'[i])) =>
          Callers' /\ HeldIds' \subseteq {0} /\ CarriedIds' \subseteq {0} /\ CallerIds' = {}
  <1>1. ASSUME \A i \in DOMAIN stack : Plain(stack[i])
        PROVE  Callers /\ HeldIds \subseteq {0} /\ CarriedIds \subseteq {0} /\ CallerIds = {}
    <2>1. \A i \in DOMAIN stack : /\ Op(i) \notin {"returned", "transmit"}
                                  /\ Op(i) \in CarryOps => Id(i) = 0
      BY <1>1 DEF Plain, Bare, EntryOps, CarryOps, HoldOps, Op, Id
    <2>2. Callers
      BY <2>1 DEF Callers, OneHolder, CallerLast, Owned, EntryFirst
    <2>3. CarriedIds \subseteq {0} /\ HeldIds \subseteq CarriedIds /\ CallerIds = {}
      BY <2>1 DEF CarriedIds, HeldIds, CallerIds, CarryOps
    <2> QED BY <2>2, <2>3
  <1>2. ASSUME \A i \in DOMAIN stack' : Plain(stack'[i])
        PROVE  Callers' /\ HeldIds' \subseteq {0} /\ CarriedIds' \subseteq {0} /\ CallerIds' = {}
    <2>1. \A i \in DOMAIN stack' : /\ Op(i)' \notin {"returned", "transmit"}
                                   /\ Op(i)' \in CarryOps => Id(i)' = 0
      BY <1>2 DEF Plain, Bare, EntryOps, CarryOps, HoldOps, Op, Id
    <2>2. Callers'
      BY <2>1 DEF Callers, OneHolder, CallerLast, Owned, EntryFirst, EntryOps, CarryOps, HoldOps
    <2>3. CarriedIds' \subseteq {0} /\ HeldIds' \subseteq CarriedIds' /\ CallerIds' = {}
      BY <2>1 DEF CarriedIds, HeldIds, CallerIds, CarryOps, HoldOps
    <2> QED BY <2>2, <2>3
  <1> QED BY <1>1, <1>2

LEMMA BareJoin ==
    ASSUME NEW f \in Seq(Frame), NEW g \in Seq(Frame),
           \A i \in 1..Len(f) : Plain(f[i]), \A i \in 1..Len(g) : Plain(g[i])
    PROVE  f \o g \in Seq(Frame) /\ \A i \in 1..Len(f \o g) : Plain((f \o g)[i])
  <1> DEFINE h == f \o g
             n == Len(f)
             m == Len(g)
  <1>1. h \in Seq(Frame) /\ Len(h) = n + m /\ n \in Nat /\ m \in Nat
        /\ \A i \in 1..(n + m) : h[i] = IF i <= n THEN f[i] ELSE g[i - n]
    BY ConcatProperties
  <1>2. \A i \in 1..n : Plain(f[i])
    OBVIOUS
  <1>3. \A i \in 1..m : Plain(g[i])
    OBVIOUS
  <1> HIDE DEF h, n, m
  <1>4. \A i \in 1..Len(h) : Plain(h[i])
    <2> SUFFICES ASSUME NEW i \in 1..(n + m) PROVE Plain(h[i])
      BY <1>1
    <2>1. i \in 1..n \/ (~(i <= n) /\ i - n \in 1..m)
      BY <1>1
    <2>2. CASE i \in 1..n
      <3>1. h[i] = f[i]
        BY <1>1, <2>2
      <3> QED BY <1>2, <2>2, <3>1
    <2>3. CASE ~(i <= n) /\ i - n \in 1..m
      <3>1. h[i] = g[i - n]
        BY <1>1, <2>3
      <3> QED BY <1>3, <2>3, <3>1
    <2> QED BY <2>1, <2>2, <2>3
  <1> QED BY <1>1, <1>4 DEF h

LEMMA PlaceInit == Init => PlaceInv
  <1> SUFFICES ASSUME Init PROVE PlaceInv
    OBVIOUS
  <1> DEFINE a == <<Fr("connect"), Fr("firstDial")>>
             b == SendFrames(CapsCommand)
             c == IF LaunchSession # NoSession THEN SendFrames(OpenCommand(LaunchSession)) ELSE <<>>
             d == <<Fr("booted")>>
  <1>1. a \in Seq(Frame) /\ \A i \in 1..Len(a) : Plain(a[i])
    <2>1. /\ Fr("connect") \in Frame /\ Bare(Fr("connect"))
          /\ Fr("firstDial") \in Frame /\ Bare(Fr("firstDial"))
      BY FrameData, BareData DEF Ops, EntryOps
    <2> QED BY <2>1, BareTwo DEF Plain
  <1>2. b \in Seq(Frame) /\ \A i \in 1..Len(b) : Plain(b[i])
    BY BareData, BareOne DEF SendFrames, Plain
  <1>3. c \in Seq(Frame) /\ \A i \in 1..Len(c) : Plain(c[i])
    <2>1. CASE LaunchSession # NoSession
      <3> DEFINE g == FrCmd("gate", OpenCommand(LaunchSession))
      <3>1. g \in Frame /\ Bare(g)
        BY <2>1, BareData, BackendAssumption DEF BackendAssumption
      <3>2. c = <<g>>
        BY <2>1 DEF SendFrames
      <3> HIDE DEF c, g
      <3> QED BY <3>1, <3>2, BareOne DEF Plain
    <2>2. CASE LaunchSession = NoSession
      <3>1. c = <<>>
        BY <2>2
      <3> HIDE DEF c
      <3> QED BY <3>1
    <2> QED BY <2>1, <2>2
  <1>4. d \in Seq(Frame) /\ \A i \in 1..Len(d) : Plain(d[i])
    BY FrameData, BareData, BareOne DEF Ops, EntryOps, Plain
  <1>5. stack = ((a \o b) \o c) \o d
    BY DEF Init
  <1> HIDE DEF a, b, c, d
  <1> DEFINE u == a \o b
             v == u \o c
  <1>6. u \in Seq(Frame) /\ \A i \in 1..Len(u) : Plain(u[i])
    BY <1>1, <1>2, BareJoin
  <1>7. stack = v \o d
    BY <1>5
  <1> HIDE DEF u
  <1>8. v \in Seq(Frame) /\ \A i \in 1..Len(v) : Plain(v[i])
    BY <1>3, <1>6, BareJoin
  <1> HIDE DEF v
  <1>9. stack \in Seq(Frame) /\ \A i \in 1..Len(stack) : Plain(stack[i])
    BY <1>4, <1>7, <1>8, BareJoin
  <1>10. \A i \in DOMAIN stack : Plain(stack[i])
    BY <1>9
  <1>11. Callers /\ HeldIds \subseteq {0} /\ CarriedIds \subseteq {0} /\ CallerIds = {}
    BY <1>10, BareStack
  <1>12. /\ issued = 0 /\ reports = [i \in 1..MaxCommands |-> 0] /\ pending = {} /\ deferred = <<>>
         /\ hello = 0 /\ nextId = 0
    BY DEF Init
  <1>13. SentIds = {} /\ DeferredIds = {} /\ DOMAIN deferred = {}
    BY <1>12 DEF SentIds, RequestIds, DeferredIds
  <1> QED BY <1>11, <1>12, <1>13 DEF PlaceInv, Known, Apart, CarriedLive, HelloIds

-----------------------------------------------------------------------------
(* A stack of bare frames replaces one that held no command of the store.   *)
LEMMA BareReplaces ==
    ASSUME TypeOK, TypeOK', PlaceInv, HeldIds \subseteq {0}, \A i \in DOMAIN stack' : Plain(stack'[i]),
           \A c \in 1..MaxCommands : ~Failing(c), issued' = issued, RequestsFollow,
           NEW C, Reported(C), C \subseteq SentIds \cup DeferredIds \cup {0},
           SentIds \subseteq SentIds' \cup C \cup {0},
           \/ deferred' = deferred /\ C \subseteq SentIds \cup {0}
           \/ deferred' = <<>> /\ DeferredIds \subseteq C \cup {0}
    PROVE  PlaceInv' /\ Progress
  <1>1. Callers' /\ HeldIds' \subseteq {0} /\ CarriedIds' \subseteq {0} /\ CallerIds' = {}
    BY BareStack
  <1>2. \A c \in 1..MaxCommands : ~Failing(c)'
    <2> SUFFICES ASSUME NEW c \in 1..MaxCommands, Failing(c)' PROVE FALSE
      OBVIOUS
    <2>1. 1 \in DOMAIN stack'
      BY DEF Failing, TypeOK
    <2> QED BY <2>1 DEF Failing, Plain, Bare, EntryOps, Op
  <1>3. C \subseteq SentIds \cup DeferredIds \cup {0, 0} /\ 0 \in CarriedIds \cup {0}
    OBVIOUS
  <1>4. \/ deferred' = deferred /\ C \subseteq SentIds \cup {0, 0}
        \/ deferred' = <<>> /\ DeferredIds \subseteq C \cup {0}
    OBVIOUS
  <1>5. /\ HeldIds' \subseteq HeldIds \cup {0} /\ CarriedIds' \subseteq CarriedIds \cup {0}
        /\ CallerIds' \subseteq CallerIds
        /\ \A c \in HeldIds : c \in HeldIds' \cup C \cup {0} \/ Failing(c)'
        /\ \A c \in 1..MaxCommands : ~Failing(c) /\ (Failing(c)' => c \in CarriedIds)
    BY <1>1, <1>2
  <1> DEFINE D == {}
  <1>6. /\ D \subseteq RememberedIds /\ (\A c \in D \ {0} : c \notin CarriedIds' /\ ~Failing(c)')
        /\ SentIds \subseteq SentIds' \cup C \cup D \cup {0}
    OBVIOUS
  <1> HIDE DEF D
  <1> QED BY <1>1, <1>3, <1>4, <1>5, <1>6, Settled

LEMMA BootCases ==
    ASSUME TypeOK, TypeOK', SafeInv, PlaceInv, FirstDialFailsReadonly \/ BootstrapFails
    PROVE  PlaceInv' /\ Progress
  <1>1. /\ stack # <<>> /\ Op(1) \in {"firstDial", "booted"} /\ raised' = FALSE /\ issued' = issued
        /\ stack' \in {<<>>, <<Fr("halt")>>}
        /\ DOMAIN stack = 1..Len(stack) /\ Len(stack) \in Nat \ {0}
    BY HeadData, TailData DEF TypeOK, Op, FirstDialFailsReadonly, BootstrapFails, userVars
  <1>2. \A i \in DOMAIN stack : Op(i) \notin {"returned", "flush"}
    <2>1. CASE Op(1) = "booted"
      <3>1. 1 = Len(stack)
        BY <1>1, <2>1 DEF SafeInv, FrameInv, BootFrames
      <3>2. \A i \in 1..Len(stack) : i = 1
        <4>1. \A i \in 1..1 : i = 1
          OBVIOUS
        <4> QED BY <3>1, <4>1
      <3> QED BY <1>1, <2>1, <3>2
    <2>2. CASE Op(1) = "firstDial"
      <3>1. \A j \in 1+1..Len(stack) : Op(j) \in {"gate", "booted"}
        BY <1>1, <2>2 DEF SafeInv, FrameInv, BootFrames
      <3>2. \A i \in DOMAIN stack : i = 1 \/ i \in 1+1..Len(stack)
        BY <1>1
      <3> QED BY <2>2, <3>1, <3>2
    <2> QED BY <1>1, <2>1, <2>2
  <1>3. HeldIds \subseteq {0}
    <2> SUFFICES ASSUME NEW i \in DOMAIN stack, Op(i) \in HoldOps PROVE Id(i) = 0
      BY DEF HeldIds
    <2> QED BY <1>2 DEF PlaceInv, Callers, Owned, CarryOps
  <1>4. \A c \in 1..MaxCommands : ~Failing(c)
    BY <1>1 DEF Failing
  <1>5. \A i \in DOMAIN stack' : Plain(stack'[i])
    <2>1. CASE stack' = <<>>
      BY <2>1
    <2>2. CASE stack' = <<Fr("halt")>>
      <3>1. Fr("halt") \in Frame /\ Bare(Fr("halt"))
        BY FrameData, BareData DEF Ops, EntryOps
      <3> DEFINE f == <<Fr("halt")>>
      <3>2. f \in Seq(Frame) /\ \A i \in 1..Len(f) : Plain(f[i])
        BY <3>1, BareOne DEF Plain
      <3>3. stack' = f
        BY <2>2
      <3> HIDE DEF f
      <3> QED BY <3>2, <3>3
    <2> QED BY <1>1, <2>1, <2>2
  <1>6. CASE FirstDialFailsReadonly
    <2> DEFINE C == DeferredIds \cup RequestIds(pending) \cup {}
    <2>1. MarkDisconnected(pending, {}, FALSE)
      BY <1>6 DEF FirstDialFailsReadonly
    <2>2. Reported(C) /\ RequestsFollow /\ deferred' = <<>>
      BY <2>1, ReportData DEF MarkDisconnected, RequestsFollow
    <2>3. /\ C \subseteq SentIds \cup DeferredIds \cup {0} /\ DeferredIds \subseteq C \cup {0}
          /\ SentIds \subseteq SentIds' \cup C \cup {0}
      BY DEF SentIds
    <2> HIDE DEF C
    <2> QED BY <1>1, <1>3, <1>4, <1>5, <2>2, <2>3, BareReplaces
  <1>7. CASE BootstrapFails
    <2>1. UNCHANGED <<hello, nextId, pending, deferred, reports>>
      BY <1>7 DEF BootstrapFails, barrierVars, requestVars, userVars
    <2>2. /\ Reported({}) /\ RequestsFollow /\ {} \subseteq SentIds \cup {0}
          /\ {} \subseteq SentIds \cup DeferredIds \cup {0}
          /\ SentIds \subseteq SentIds' \cup {} \cup {0}
      BY <2>1, ReportData DEF RequestsFollow, SentIds, RequestIds
    <2> QED BY <1>1, <1>3, <1>4, <1>5, <2>1, <2>2, BareReplaces
  <1> QED BY <1>6, <1>7

LEMMA TickPlaces ==
    ASSUME TypeOK, TypeOK', PlaceInv, NextEvent
    PROVE  PlaceInv' /\ Progress
  <1> DEFINE f == <<Fr("connect"), Fr("poll")>>
  <1>1. /\ stack = <<>> /\ stack' = ClockFrames \o f
        /\ UNCHANGED <<hello, nextId, pending, deferred, issued, reports>>
    BY DEF NextEvent, Idle, barrierVars, requestVars, userVars
  <1>2. f \in Seq(Frame) /\ \A i \in 1..Len(f) : Plain(f[i])
    <2> DEFINE a == Fr("connect")
               b == Fr("poll")
    <2>1. a \in Frame /\ Plain(a) /\ b \in Frame /\ Plain(b)
      BY FrameData, BareData DEF Ops, EntryOps, Plain, Fr
    <2> HIDE DEF a, b
    <2>2. f = <<a, b>>
      BY DEF a, b
    <2> HIDE DEF f
    <2>3. f \in Seq(Frame) /\ Len(f) = 2 /\ f[1] = a /\ f[2] = b /\ \A i \in 1..2 : i = 1 \/ i = 2
      BY <2>1, <2>2, TwoFrames
    <2> QED BY <2>1, <2>3
  <1>3. ClockFrames \in Seq(Frame) /\ \A i \in 1..Len(ClockFrames) : Plain(ClockFrames[i])
    BY ClockData DEF Plain, EntryOps
  <1> HIDE DEF f
  <1>4. stack' \in Seq(Frame) /\ \A i \in 1..Len(stack') : Plain(stack'[i])
    BY <1>1, <1>2, <1>3, BareJoin
  <1>5. \A i \in DOMAIN stack' : Plain(stack'[i])
    BY <1>4
  <1>6. HeldIds = {} /\ \A c \in 1..MaxCommands : ~Failing(c)
    BY <1>1 DEF HeldIds, Failing
  <1>7. /\ Reported({}) /\ RequestsFollow /\ {} \subseteq SentIds \cup {0}
        /\ {} \subseteq SentIds \cup DeferredIds \cup {0}
        /\ SentIds \subseteq SentIds' \cup {} \cup {0} /\ HeldIds \subseteq {0}
    BY <1>1, <1>6, ReportData DEF RequestsFollow, SentIds, RequestIds
  <1> QED BY <1>1, <1>5, <1>6, <1>7, BareReplaces

-----------------------------------------------------------------------------
(* The first of the queue leaves it. *)
LEMMA LeavesQueue ==
    ASSUME TypeOK, deferred # <<>>, deferred' = Tail(deferred),
           \A i, j \in DOMAIN deferred : deferred[i].id = deferred[j].id => i = j \/ deferred[i].id = 0
    PROVE  LET h == Head(deferred).id
           IN  /\ h \in DeferredIds /\ DeferredIds' \subseteq DeferredIds
               /\ \A c \in DeferredIds : c \in DeferredIds' \/ c = h
               /\ h = 0 \/ h \notin DeferredIds'
               /\ \A i, j \in DOMAIN deferred' :
                     deferred'[i].id = deferred'[j].id => i = j \/ deferred'[i].id = 0
  <1> DEFINE n == Len(deferred)
             h == Head(deferred).id
  <1>1. /\ n \in Nat \ {0} /\ DOMAIN deferred = 1..n /\ h = deferred[1].id
        /\ DOMAIN deferred' = 1..(n - 1) /\ \A i \in 1..(n - 1) : deferred'[i] = deferred[i + 1]
    BY DEF TypeOK
  <1> HIDE DEF n, h
  <1>2. \A i \in 1..(n - 1) : i + 1 \in 1..n /\ i + 1 # 1 /\ deferred'[i].id = deferred[i + 1].id
    BY <1>1
  <1>3. h \in DeferredIds /\ DeferredIds' \subseteq DeferredIds
    <2>1. 1 \in 1..n
      BY <1>1
    <2> QED BY <1>1, <1>2, <2>1 DEF DeferredIds
  <1>4. \A c \in DeferredIds : c \in DeferredIds' \/ c = h
    <2> SUFFICES ASSUME NEW i \in 1..n, i # 1 PROVE deferred[i].id \in DeferredIds'
      BY <1>1 DEF DeferredIds
    <2>1. i - 1 \in 1..(n - 1) /\ (i - 1) + 1 = i
      BY <1>1
    <2>2. deferred'[i - 1].id = deferred[i].id
      BY <1>2, <2>1
    <2> QED BY <1>1, <2>1, <2>2 DEF DeferredIds
  <1>5. h = 0 \/ h \notin DeferredIds'
    <2> SUFFICES ASSUME NEW i \in 1..(n - 1), deferred'[i].id = h, h # 0 PROVE FALSE
      BY <1>1 DEF DeferredIds
    <2>1. 1 \in 1..n /\ i + 1 \in 1..n /\ i + 1 # 1 /\ deferred[i + 1].id = deferred[1].id
      BY <1>1, <1>2
    <2> QED BY <1>1, <2>1
  <1>6. \A i, j \in 1..(n - 1) :
           deferred'[i].id = deferred'[j].id => i = j \/ deferred'[i].id = 0
    <2> SUFFICES ASSUME NEW i \in 1..(n - 1), NEW j \in 1..(n - 1), deferred'[i].id = deferred'[j].id
                 PROVE  i = j \/ deferred'[i].id = 0
      OBVIOUS
    <2>1. i + 1 = j + 1 \/ deferred[i + 1].id = 0
      BY <1>1, <1>2
    <2>2. i + 1 = j + 1 => i = j
      OBVIOUS
    <2> QED BY <1>2, <2>1, <2>2
  <1> QED BY <1>1, <1>3, <1>4, <1>5, <1>6 DEF h

(* The frames of a flush that sends. *)
LEMMA Pushed ==
    ASSUME TypeOK, Callers, stack # <<>>, Op(1) = "flush", NEW a \in Frame, stack' = <<a>> \o stack,
           a.op = "gate", NEW h, h = a.cmd.id, h = 0 \/ h \notin CarriedIds
    PROVE  /\ Callers' /\ stack' # <<>> /\ Op(1)' = "gate"
           /\ HeldIds' = HeldIds \cup {h} /\ CarriedIds' = CarriedIds \cup {h}
           /\ CallerIds' = CallerIds
  <1> DEFINE n == Len(stack)
  <1>1. /\ n \in Nat \ {0} /\ DOMAIN stack = 1..n
        /\ DOMAIN stack' = 1..(n + 1) /\ Len(stack') = n + 1 /\ stack' # <<>>
        /\ stack'[1] = a /\ \A i \in 1..n : stack'[i + 1] = stack[i]
    <2>1. /\ stack \in Seq(Frame) /\ n \in Nat \ {0} /\ DOMAIN stack = 1..n
      BY TailData DEF TypeOK
    <2>2. /\ <<a>> \in Seq(Frame) /\ Len(<<a>>) = 1 /\ <<a>>[1] = a
      OBVIOUS
    <2>3. /\ stack' \in Seq(Frame) /\ Len(stack') = 1 + n
          /\ \A i \in 1..(1 + n) : stack'[i] = IF i <= 1 THEN <<a>>[i] ELSE stack[i - 1]
      BY <2>1, <2>2, ConcatProperties
    <2>4. stack'[1] = a /\ \A i \in 1..n : stack'[i + 1] = stack[i]
      BY <2>1, <2>2, <2>3
    <2>5. stack' # <<>>
      BY <2>1, <2>3
    <2> QED BY <2>1, <2>3, <2>4, <2>5
  <1>0. Len(stack) = n
    OBVIOUS
  <1> HIDE DEF n
  <1>2. /\ Op(1)' = "gate" /\ Id(1)' = h
        /\ \A i \in 1..n : Op(i + 1)' = Op(i) /\ Id(i + 1)' = Id(i)
    BY <1>1 DEF Op, Id
  <1>3. \A i \in 1..(n + 1) : i # 1 => i - 1 \in 1..n /\ Op(i)' = Op(i - 1) /\ Id(i)' = Id(i - 1)
    <2> SUFFICES ASSUME NEW i \in 1..(n + 1), i # 1
                 PROVE  i - 1 \in 1..n /\ Op(i)' = Op(i - 1) /\ Id(i)' = Id(i - 1)
      OBVIOUS
    <2>. PICK k \in 1..n : i = k + 1
      BY <1>1
    <2>1. i - 1 = k
      BY <1>1
    <2>2. Op(k + 1)' = Op(k) /\ Id(k + 1)' = Id(k)
      BY <1>2
    <2> QED BY <2>1, <2>2
  <1>4. OneHolder'
    <2> SUFFICES ASSUME NEW i \in 1..(n + 1), NEW j \in 1..(n + 1), Op(i)' \in CarryOps,
                        Op(j)' \in CarryOps, Id(i)' = Id(j)', Id(i)' # 0
                 PROVE  i = j
      BY <1>1 DEF OneHolder, CarryOps, HoldOps
    <2>1. CASE i # 1 /\ j # 1
      <3>1. \A k, l \in 1..n : Op(k) \in CarryOps /\ Op(l) \in CarryOps /\ Id(k) = Id(l)
                                    => k = l \/ Id(k) = 0
        BY <1>1 DEF Callers, OneHolder
      <3>2. i - 1 = j - 1
        BY <1>3, <2>1, <3>1
      <3> QED BY <1>1, <3>2
    <2>2. ASSUME NEW k \in 1..(n + 1), k # 1, Op(k)' \in CarryOps, Id(k)' = h, h # 0 PROVE FALSE
      <3>1. Op(k - 1) \in CarryOps /\ Id(k - 1) = h /\ k - 1 \in 1..n
        BY <1>3, <2>2
      <3> QED BY <1>1, <2>2, <3>1 DEF CarriedIds
    <2> QED BY <1>2, <2>1, <2>2
  <1>5. CallerLast'
    <2> SUFFICES ASSUME NEW i \in 1..(n + 1), Op(i)' = "returned"
                 PROVE  /\ i = n + 1 /\ Id(i)' # 0
                        /\ i > 1 => Op(i - 1)' \in CarryOps /\ Id(i - 1)' = Id(i)'
      BY <1>1 DEF CallerLast, CarryOps, HoldOps
    <2>. PICK k \in 1..n : i = k + 1 /\ Op(k) = "returned" /\ Id(i)' = Id(k)
      <3>1. i # 1 /\ i - 1 \in 1..n /\ i = (i - 1) + 1
        BY <1>1, <1>2
      <3> QED BY <1>3, <3>1
    <2>1. /\ k = n /\ Id(k) # 0
          /\ k > 1 => Op(k - 1) \in CarryOps /\ Id(k - 1) = Id(k)
      BY <1>0, <1>1 DEF Callers, CallerLast
    <2>2. k # 1
      OBVIOUS
    <2>3. i - 1 = k /\ k \in 1..(n + 1) /\ k > 1
      BY <1>1, <2>2
    <2>4. Op(k)' = Op(k - 1) /\ Id(k)' = Id(k - 1)
      BY <1>3, <2>2, <2>3
    <2> QED BY <2>1, <2>3, <2>4
  <1>6. Owned'
    <2> SUFFICES ASSUME NEW i \in 1..(n + 1), Op(i)' \in CarryOps, Id(i)' # 0
                 PROVE  \/ /\ i + 1 \in 1..(n + 1) /\ Op(i + 1)' = "returned"
                           /\ Id(i + 1)' = Id(i)'
                        \/ \E j \in 1..(n + 1) : j > i /\ Op(j)' = "flush"
      BY <1>1 DEF Owned, CarryOps, HoldOps
    <2>1. CASE i = 1
      <3>1. 1 \in 1..n /\ 1 + 1 = 2 /\ 2 \in 1..(n + 1) /\ 2 > 1
        BY <1>1
      <3>2. Op(2)' = "flush"
        BY <1>2, <3>1
      <3> QED BY <2>1, <3>1, <3>2
    <2>2. CASE i # 1
      <3>. PICK k \in 1..n : i = k + 1 /\ Op(k) \in CarryOps /\ Id(k) = Id(i)' /\ Id(k) # 0
        <4>1. i - 1 \in 1..n /\ i = (i - 1) + 1
          BY <1>1, <2>2
        <4> QED BY <1>3, <2>2, <4>1
      <3>1. CASE k + 1 \in 1..n /\ Op(k + 1) = "returned" /\ Id(k + 1) = Id(k)
        <4>1. Op(k + 1 + 1)' = "returned" /\ Id(k + 1 + 1)' = Id(k) /\ k + 1 + 1 \in 1..(n + 1)
          BY <1>1, <1>2, <3>1
        <4> QED BY <4>1
      <3>2. ASSUME NEW j \in 1..n, j > k, Op(j) = "flush"
            PROVE  \E l \in 1..(n + 1) : l > i /\ Op(l)' = "flush"
        <4>1. j + 1 \in 1..(n + 1) /\ j + 1 > i /\ Op(j + 1)' = "flush"
          BY <1>1, <1>2, <3>2
        <4> QED BY <4>1
      <3> QED BY <1>1, <3>1, <3>2 DEF Callers, Owned
    <2> QED BY <2>1, <2>2
  <1>7. \A i \in 1..n : i + 1 \in 1..(n + 1)
    BY <1>1
  <1>8. 1 \in 1..(n + 1)
    BY <1>1
  <1>9. HeldIds' = HeldIds \cup {h}
    <2>1. HeldIds' \subseteq HeldIds \cup {h}
      <3> SUFFICES ASSUME NEW i \in 1..(n + 1), Op(i)' \in HoldOps PROVE Id(i)' \in HeldIds \cup {h}
        BY <1>1 DEF HeldIds, HoldOps
      <3>1. CASE i = 1
        BY <1>2, <3>1
      <3>2. CASE i # 1
        <4>1. i - 1 \in 1..n /\ Op(i - 1) \in HoldOps /\ Id(i)' = Id(i - 1)
          BY <1>3, <3>2
        <4> QED BY <1>1, <4>1 DEF HeldIds
      <3> QED BY <3>1, <3>2
    <2>2. HeldIds \subseteq HeldIds'
      <3> SUFFICES ASSUME NEW i \in 1..n, Op(i) \in HoldOps PROVE Id(i) \in HeldIds'
        BY <1>1 DEF HeldIds
      <3> QED BY <1>1, <1>2, <1>7 DEF HeldIds, HoldOps
    <2>3. h \in HeldIds'
      BY <1>1, <1>2, <1>8 DEF HeldIds, HoldOps
    <2> QED BY <2>1, <2>2, <2>3
  <1>10. CarriedIds' = CarriedIds \cup {h}
    <2>1. CarriedIds' \subseteq CarriedIds \cup {h}
      <3> SUFFICES ASSUME NEW i \in 1..(n + 1), Op(i)' \in CarryOps PROVE Id(i)' \in CarriedIds \cup {h}
        BY <1>1 DEF CarriedIds, CarryOps, HoldOps
      <3>1. CASE i = 1
        BY <1>2, <3>1
      <3>2. CASE i # 1
        <4>1. i - 1 \in 1..n /\ Op(i - 1) \in CarryOps /\ Id(i)' = Id(i - 1)
          BY <1>3, <3>2
        <4> QED BY <1>1, <4>1 DEF CarriedIds
      <3> QED BY <3>1, <3>2
    <2>2. CarriedIds \subseteq CarriedIds'
      <3> SUFFICES ASSUME NEW i \in 1..n, Op(i) \in CarryOps PROVE Id(i) \in CarriedIds'
        BY <1>1 DEF CarriedIds
      <3> QED BY <1>1, <1>2, <1>7 DEF CarriedIds, CarryOps, HoldOps
    <2>3. h \in CarriedIds'
      BY <1>1, <1>2, <1>8 DEF CarriedIds, CarryOps, HoldOps
    <2> QED BY <2>1, <2>2, <2>3
  <1>11. CallerIds' = CallerIds
    <2>1. CallerIds' \subseteq CallerIds
      <3> SUFFICES ASSUME NEW i \in 1..(n + 1), Op(i)' = "returned" PROVE Id(i)' \in CallerIds
        BY <1>1 DEF CallerIds
      <3> QED BY <1>1, <1>2, <1>3 DEF CallerIds
    <2>2. CallerIds \subseteq CallerIds'
      <3> SUFFICES ASSUME NEW i \in 1..n, Op(i) = "returned" PROVE Id(i) \in CallerIds'
        BY <1>1 DEF CallerIds
      <3> QED BY <1>1, <1>2, <1>7 DEF CallerIds
    <2> QED BY <2>1, <2>2
  <1>12. EntryFirst'
    <2> SUFFICES ASSUME NEW i \in 1..(n + 1), NEW j \in 1..(n + 1), i < j, Op(i)' \in EntryOps
                 PROVE  Op(j)' # "transmit"
      BY <1>1 DEF EntryFirst, EntryOps
    <2>1. i # 1
      BY <1>2 DEF EntryOps
    <2>2. j # 1 /\ i - 1 < j - 1
      BY <1>1, <2>1
    <2>3. /\ i - 1 \in 1..n /\ Op(i)' = Op(i - 1)
          /\ j - 1 \in 1..n /\ Op(j)' = Op(j - 1)
      BY <1>3, <2>1, <2>2
    <2> QED BY <1>1, <2>2, <2>3 DEF Callers, EntryFirst
  <1> QED BY <1>1, <1>2, <1>4, <1>5, <1>6, <1>9, <1>10, <1>11, <1>12 DEF Callers

LEMMA FlushPlaces ==
    ASSUME TypeOK, TypeOK', PlaceInv, FlushSends
    PROVE  PlaceInv' /\ Progress
  <1> DEFINE c == Head(deferred)
             h == c.id
             a == FrCmd("gate", c)
  <1>1. /\ stack # <<>> /\ Op(1) = "flush" /\ raised = FALSE /\ raised' = FALSE
        /\ deferred # <<>> /\ deferred' = Tail(deferred) /\ stack' = <<a>> \o stack
        /\ UNCHANGED <<hello, nextId, pending, issued, reports>>
    BY RunningData DEF FlushSends, SendFrames, requestVars, userVars
  <1>2. c \in Command
    BY <1>1 DEF TypeOK
  <1>3. a \in Frame /\ a.op = "gate" /\ h = a.cmd.id
    BY <1>2, FrameData DEF Ops, FrCmd
  <1>4. /\ h \in DeferredIds /\ DeferredIds' \subseteq DeferredIds
        /\ \A d \in DeferredIds : d \in DeferredIds' \/ d = h
        /\ h = 0 \/ h \notin DeferredIds'
        /\ \A i, j \in DOMAIN deferred' :
              deferred'[i].id = deferred'[j].id => i = j \/ deferred'[i].id = 0
    BY <1>1, LeavesQueue DEF PlaceInv, Apart
  <1> HIDE DEF a, h
  <1>5. h = 0 \/ h \notin CarriedIds
    BY <1>4 DEF PlaceInv, Apart
  <1>6. /\ Callers' /\ stack' # <<>> /\ Op(1)' = "gate"
        /\ HeldIds' = HeldIds \cup {h} /\ CarriedIds' = CarriedIds \cup {h}
        /\ CallerIds' = CallerIds
    BY <1>1, <1>3, <1>5, Pushed DEF PlaceInv
  <1>7. SentIds' = SentIds /\ HelloIds'
    BY <1>1 DEF SentIds, RequestIds, HelloIds, PlaceInv
  <1>8. Known'
    BY <1>1, <1>4, <1>6, <1>7 DEF PlaceInv, Known
  <1>9. Apart'
    <2>1. \A d \in HeldIds' \ {0} : reports'[d] = 0 /\ d \notin SentIds'
      BY <1>1, <1>4, <1>6, <1>7 DEF PlaceInv, Apart
    <2>2. \A d \in CarriedIds' \ {0} : d \notin DeferredIds'
      BY <1>4, <1>6 DEF PlaceInv, Apart
    <2>3. \A d \in DeferredIds' \ {0} : reports'[d] = 0 /\ d \notin SentIds' /\ ~Failing(d)'
      BY <1>1, <1>4, <1>7 DEF PlaceInv, Apart, Failing
    <2> QED BY <1>4, <2>1, <2>2, <2>3 DEF Apart
  <1>10. \A d \in 1..issued : Live(d)' <=> Live(d)
    <2>1. \A d \in 1..issued : Failing(d) <=> Failing(d)'
      BY <1>1 DEF Failing
    <2> QED BY <1>1, <1>4, <1>6, <1>7, <2>1 DEF Live
  <1>11. CarriedLive'
    <2>1. h \in 0..issued /\ issued \in Nat /\ Live(h)
      BY <1>4, IdData DEF PlaceInv, Known, Live
    <2>2. \A d \in CarriedIds' \ {0} : d \in CarriedIds \/ (d \in 1..issued /\ Live(d))
      BY <1>6, <2>1
    <2> QED BY <1>10, <2>2, LiveCarried
  <1>12. Progress
    <2>1. (\A d \in 1..MaxCommands : reports[d] \in Nat) /\ issued \in Nat
      BY IdData
    <2> QED BY <1>1, <1>7, <1>10, <2>1 DEF Progress
  <1> QED BY <1>6, <1>7, <1>8, <1>9, <1>11, <1>12 DEF PlaceInv

(* The call of the event loop with a command of the store: the frame of     *)
(* send, and below it the frame that will report an Err.                    *)
LEMMA UserFrames ==
    ASSUME TypeOK, NEW k \in UserKinds, NEW s \in Sessions \cup {NoSession}, UserSends(k, s)
    PROVE  \E n \in {0, 1} :
              /\ DOMAIN stack' = 1..(n + 2) /\ Len(stack') = n + 2
              /\ \A i \in 1..n : Op(i)' = "clock"
              /\ Op(n + 1)' = "gate" /\ Id(n + 1)' = issued + 1
              /\ Op(n + 2)' = "returned" /\ Id(n + 2)' = issued + 1
  <1> DEFINE c == Cmd(k, s, issued + 1)
             a == FrCmd("gate", c)
             b == FrCmd("returned", c)
             f == <<a, b>>
  <1>1. c \in Command /\ c.id = issued + 1
    BY BackendAssumption
       DEF UserSends, TypeOK, BackendAssumption, Cmd, Command, SessionKinds
  <1>2. /\ a \in Frame /\ a.op = "gate" /\ a.cmd.id = issued + 1
        /\ b \in Frame /\ b.op = "returned" /\ b.cmd.id = issued + 1
    BY <1>1, FrameData DEF Ops, FrCmd
  <1>3. stack' = ClockFrames \o <<a>> \o <<b>>
    BY DEF UserSends, SendFrames
  <1> HIDE DEF a, b
  <1>4. PICK n \in {0, 1} : /\ ClockFrames \in Seq(Frame) /\ Len(ClockFrames) = n
                            /\ \A i \in 1..n : ClockFrames[i].op = "clock"
    BY ClockData
  <1>5. stack' = ClockFrames \o f
    <2>1. <<a>> \o <<b>> = <<a, b>> /\ <<a>> \in Seq(Frame) /\ <<b>> \in Seq(Frame)
      BY <1>2, JoinTwo
    <2>2. (ClockFrames \o <<a>>) \o <<b>> = ClockFrames \o (<<a>> \o <<b>>)
      BY <1>4, <2>1, ConcatAssociative
    <2> QED BY <1>3, <2>1, <2>2
  <1>6. f \in Seq(Frame) /\ Len(f) = 2 /\ f[1] = a /\ f[2] = b
    BY <1>2, TwoFrames
  <1> HIDE DEF f
  <1>7. /\ DOMAIN stack' = 1..(n + 2) /\ Len(stack') = n + 2
        /\ \A i \in 1..n : stack'[i] = ClockFrames[i]
        /\ \A i \in 1..2 : stack'[i + n] = f[i]
    <2> DEFINE g == ClockFrames
    <2>1. g \in Seq(Frame) /\ Len(g) = n /\ stack' = g \o f /\ Len(g) + Len(f) = n + 2
      BY <1>4, <1>5, <1>6
    <2> HIDE DEF g
    <2>2. /\ Len(g \o f) = Len(g) + Len(f) /\ DOMAIN (g \o f) = 1..(Len(g) + Len(f))
          /\ \A i \in 1..Len(g) : (g \o f)[i] = g[i]
          /\ \A i \in 1..Len(f) : (g \o f)[i + Len(g)] = f[i]
      BY <1>6, <2>1, JoinData
    <2>3. /\ DOMAIN stack' = 1..(n + 2) /\ Len(stack') = n + 2
          /\ \A i \in 1..n : stack'[i] = g[i]
          /\ \A i \in 1..2 : stack'[i + n] = f[i]
      BY <1>6, <2>1, <2>2
    <2> QED BY <2>3 DEF g
  <1>8. stack'[1 + n] = f[1] /\ stack'[2 + n] = f[2] /\ 1 + n = n + 1 /\ 2 + n = n + 2
    BY <1>4, <1>7
  <1>9. /\ Op(n + 1)' = "gate" /\ Id(n + 1)' = issued + 1
        /\ Op(n + 2)' = "returned" /\ Id(n + 2)' = issued + 1
        /\ \A i \in 1..n : Op(i)' = "clock"
    BY <1>2, <1>4, <1>6, <1>7, <1>8 DEF Op, Id
  <1> QED BY <1>4, <1>7, <1>9

LEMMA UserPlaces ==
    ASSUME TypeOK, TypeOK', PlaceInv, NEW k \in UserKinds, NEW s \in Sessions \cup {NoSession},
           UserSends(k, s)
    PROVE  PlaceInv' /\ Progress
  <1>1. /\ stack = <<>> /\ issued' = issued + 1
        /\ UNCHANGED <<hello, nextId, pending, deferred, reports>>
    BY DEF UserSends, Idle, barrierVars, requestVars
  <1>2. PICK n \in {0, 1} :
           /\ DOMAIN stack' = 1..(n + 2) /\ Len(stack') = n + 2
           /\ \A i \in 1..n : Op(i)' = "clock"
           /\ Op(n + 1)' = "gate" /\ Id(n + 1)' = issued + 1
           /\ Op(n + 2)' = "returned" /\ Id(n + 2)' = issued + 1
    BY UserFrames
  <1>3. /\ issued \in Nat /\ issued' <= MaxCommands /\ MaxCommands \in Nat
        /\ \A c \in 1..MaxCommands : reports[c] \in Nat
        /\ DeferredIds \subseteq 0..MaxCommands /\ SentIds \subseteq 0..MaxCommands
    <2>1. issued' <= MaxCommands
      BY BackendAssumption DEF BackendAssumption, TypeOK
    <2> QED BY <2>1, IdData
  <1>4. SentIds' = SentIds /\ DeferredIds' = DeferredIds /\ HelloIds'
    BY <1>1 DEF SentIds, RequestIds, DeferredIds, HelloIds, PlaceInv
  <1>5. \A i \in 1..(n + 2) : i \in 1..n \/ i = n + 1 \/ i = n + 2
    BY <1>2
  <1>6. \A i \in 1..(n + 2) : /\ Op(i)' \in CarryOps => i = n + 1
                              /\ Op(i)' = "returned" => i = n + 2
    BY <1>2, <1>5 DEF CarryOps, HoldOps
  <1>7. n + 1 \in 1..(n + 2) /\ n + 2 \in 1..(n + 2) /\ n + 1 # 0 /\ n + 2 > 1
        /\ (n + 1) + 1 = n + 2 /\ (n + 2) - 1 = n + 1 /\ issued + 1 # 0
    BY <1>2, <1>3
  <1>8. Callers'
    <2>1. OneHolder'
      BY <1>2, <1>6 DEF OneHolder, CarryOps, HoldOps
    <2>2. CallerLast'
      <3> SUFFICES ASSUME NEW i \in 1..(n + 2), Op(i)' = "returned"
                   PROVE  /\ i = n + 2 /\ Id(i)' # 0
                          /\ i > 1 => Op(i - 1)' \in CarryOps /\ Id(i - 1)' = Id(i)'
        BY <1>2 DEF CallerLast, CarryOps, HoldOps
      <3>1. i = n + 2 /\ i - 1 = n + 1
        BY <1>6, <1>7
      <3>2. Id(i)' = issued + 1
        BY <1>2, <3>1
      <3>3. Op(i - 1)' = "gate" /\ Id(i - 1)' = issued + 1
        BY <1>2, <3>1
      <3> QED BY <1>7, <3>1, <3>2, <3>3 DEF CarryOps, HoldOps
    <2>3. Owned'
      <3> SUFFICES ASSUME NEW i \in 1..(n + 2), Op(i)' \in CarryOps
                   PROVE  /\ i + 1 \in 1..(n + 2) /\ Op(i + 1)' = "returned"
                          /\ Id(i + 1)' = Id(i)'
        BY <1>2 DEF Owned, CarryOps, HoldOps
      <3>1. i = n + 1 /\ i + 1 = n + 2
        BY <1>6, <1>7
      <3> QED BY <1>2, <1>7, <3>1
    <2>4. EntryFirst'
      <3>1. \A j \in 1..(n + 2) : Op(j)' # "transmit"
        BY <1>2, <1>5
      <3> QED BY <1>2, <3>1 DEF EntryFirst, EntryOps
    <2> QED BY <2>1, <2>2, <2>3, <2>4 DEF Callers
  <1>9. /\ HeldIds' = {issued + 1} /\ CarriedIds' = {issued + 1} /\ CallerIds' = {issued + 1}
    <2>1. HeldIds' = {issued + 1}
      BY <1>2, <1>6, <1>7 DEF HeldIds, CarryOps, HoldOps
    <2>2. CarriedIds' = {issued + 1}
      BY <1>2, <1>6, <1>7 DEF CarriedIds, CarryOps, HoldOps
    <2>3. CallerIds' = {issued + 1}
      BY <1>2, <1>6, <1>7 DEF CallerIds
    <2> QED BY <2>1, <2>2, <2>3
  <1>10. /\ issued + 1 \notin SentIds /\ issued + 1 \notin DeferredIds
         /\ reports[issued + 1] = 0
    BY <1>1, <1>3 DEF PlaceInv, Known
  <1>11. \A c : ~Failing(c) /\ ~Failing(c)'
    <2>1. Op(1)' # "returned"
      <3>1. 1 \in 1..(n + 2) /\ 1 # n + 2
        BY <1>2
      <3> QED BY <1>6, <3>1
    <2> QED BY <1>1, <2>1 DEF Failing
  <1>12. Known'
    <2>1. 0..issued \subseteq 0..(issued + 1) /\ issued + 1 \in 0..(issued + 1)
      BY <1>3
    <2>2. \A c \in 1..MaxCommands : c > issued + 1 => c > issued
      BY <1>3
    <2> QED BY <1>1, <1>4, <1>9, <2>1, <2>2 DEF PlaceInv, Known
  <1>13. Apart'
    BY <1>1, <1>4, <1>9, <1>10, <1>11 DEF PlaceInv, Apart
  <1>14. \A c \in 1..issued : Live(c)' <=> Live(c)
    <2>1. \A c \in 1..issued : c # issued + 1
      BY <1>3
    <2>2. HeldIds = {}
      BY <1>1 DEF HeldIds
    <2> QED BY <1>1, <1>4, <1>9, <1>11, <2>1, <2>2 DEF Live
  <1>15. \A c \in {issued + 1} : Live(c)'
    BY <1>9 DEF Live
  <1>16. CarriedLive'
    BY <1>9, <1>15 DEF CarriedLive
  <1>17. Progress
    <2>1. \A c \in 1..issued' : c > issued => c = issued + 1
      BY <1>1, <1>3
    <2>2. \A c \in 1..issued' : c > issued => Live(c)'
      BY <1>15, <2>1
    <2> QED BY <1>1, <1>3, <1>4, <1>14, <2>2 DEF Progress
  <1> QED BY <1>4, <1>8, <1>12, <1>13, <1>16, <1>17 DEF PlaceInv

-----------------------------------------------------------------------------
(* The barrier's request is an open of the barrier's session. *)
BarrierKept ==
    \/ pending' \subseteq pending /\ nextId' = nextId /\ barrier' \in {barrier, NoBarrier}
    \/ pending' = {} /\ nextId' = 0 /\ barrier' = NoBarrier

LEMMA BarrierSteps ==
    ASSUME TypeOK, [Next]_vars
    PROVE  BarrierKept \/ HelloSent \/ Transmits \/ TransmitReconnects
  <1>1. ASSUME NEW reqs, NEW again, NEW locked, MarkDisconnected(reqs, again, locked)
        PROVE  BarrierKept
    BY <1>1 DEF MarkDisconnected, BarrierKept
  <1>2. CASE Clock
    BY <1>1, <1>2
       DEF Clock, ClockQuiet, HelloExpires, OpenExpires, FailSessionOpenBarrier, BarrierKept,
           barrierVars, requestVars
  <1>3. CASE Gate
    BY <1>3 DEF Gate, GateRefuses, GatePasses, BarrierKept, barrierVars, requestVars
  <1>4. CASE EnsureConnected
    BY <1>1, <1>4
       DEF EnsureConnected, AlreadyConnected, DialRefused, DialFails, Dials, HelloSendFails,
           RefreshCapabilities, ReplayResolve, ReopenStarts, NothingToReopen, ReopenSent,
           BarrierKept, barrierVars, requestVars
  <1>5. CASE Admit
    BY <1>1, <1>5
       DEF Admit, AdmitDefers, AdmitRejects, AdmitOpensFirst, Requeue, TransmitFails, TransmitsLate,
           TransmitFailsLate, ReconnectForTransmitFails, BarrierKept, barrierVars, requestVars
  <1>6. CASE Flush
    BY <1>6 DEF Flush, FlushSends, FlushEnds, BarrierKept, barrierVars, requestVars
  <1>7. CASE Read
    <2>1. CASE PollsNothing \/ ReadFindsNoLink \/ ReadsSkip \/ ReadsNotification
               \/ \E lockedOut \in BOOLEAN : ReadsLinkEnd(lockedOut)
      BY <1>1, <2>1
         DEF PollsNothing, ReadFindsNoLink, ReadsSkip, ReadsNotification, ReadsLinkEnd,
             BarrierKept, barrierVars, requestVars
    <2>2. ASSUME NEW r \in pending,
                 OpenConfirmedMidChain(r) \/ OpenConfirmedLast(r) \/ OpenRejected(r) \/ OpenGarbled(r)
          PROVE  BarrierKept
      BY <1>1, <2>2
         DEF OpenConfirmedMidChain, OpenConfirmedLast, OpenConfirmed, OpenRejected, OpenGarbled,
             FailSessionOpenBarrier, ReadsAnswer, BarrierKept
    <2>3. ASSUME NEW r \in pending, NEW ans \in Answers, PlainAnswer(r, ans) \/ HelloAnswered(r, ans)
          PROVE  BarrierKept
      BY <2>3 DEF PlainAnswer, HelloAnswered, ReadsAnswer, BarrierKept, barrierVars
    <2> QED BY <1>7, <2>1, <2>2, <2>3 DEF Read
  <1>8. CASE Returns
    BY <1>1, <1>8
       DEF Returns, Unwind, SendReturns, FirstDialReturns, FirstDialFailsReadonly, BootstrapFails,
           Booted, BarrierKept, barrierVars, requestVars
  <1>9. CASE EventLoop
    BY <1>9 DEF EventLoop, UserSends, NextEvent, BarrierKept, barrierVars, requestVars
  <1>10. CASE BackoffElapses \/ Halted \/ UNCHANGED vars
    BY <1>10 DEF BackoffElapses, Halted, vars, BarrierKept, barrierVars, requestVars
  <1> QED
    BY <1>2, <1>3, <1>4, <1>5, <1>6, <1>7, <1>8, <1>9, <1>10 DEF Next, Handler

LEMMA BarrierStep ==
    ASSUME TypeOK, HelloIds, BarrierOpens, [Next]_vars
    PROVE  BarrierOpens'
  <1>1. /\ nextId \in Nat /\ barrier.id \in Nat
        /\ \A r \in pending : r.id \in Nat \ {0} /\ r.id <= nextId
    BY IdData DEF TypeOK, Barrier, NoBarrier, HelloIds
  <1>2. NoBarrier.id = 0
    BY DEF NoBarrier
  <1>3. CASE BarrierKept
    BY <1>1, <1>2, <1>3 DEF BarrierKept, BarrierOpens
  (* A request gets a number that no other request has, nor the barrier. *)
  <1>4. ASSUME NEW r, r.id = nextId + 1, pending' = pending \cup {r}, nextId' = r.id,
               \/ barrier' = barrier
               \/ barrier' = [id |-> r.id, sess |-> r.cmd.sess] /\ IsOpen(r.cmd)
        PROVE  BarrierOpens'
    <2>1. CASE barrier' = barrier
      BY <1>1, <1>4, <2>1 DEF BarrierOpens
    <2>2. CASE barrier' = [id |-> r.id, sess |-> r.cmd.sess] /\ IsOpen(r.cmd)
      <3>1. /\ barrier'.id = r.id /\ barrier'.sess = r.cmd.sess
            /\ \A q \in pending : q.id # r.id
        BY <1>1, <1>4, <2>2
      <3>2. \A q \in pending' : q.id = barrier'.id => q = r
        BY <1>4, <3>1
      <3> QED BY <1>1, <1>4, <2>2, <3>1, <3>2 DEF BarrierOpens
    <2> QED BY <1>4, <2>1, <2>2
  <1>5. CASE Transmits \/ TransmitReconnects
    <2> DEFINE c == Head(stack).cmd
               r == [id |-> nextId + 1, cmd |-> c]
    <2>1. /\ pending' = pending \cup {r} /\ nextId' = r.id
          /\ barrier' = IF IsOpen(c) THEN [id |-> r.id, sess |-> c.sess] ELSE barrier
      BY <1>5 DEF Transmits, TransmitReconnects, Track
    <2>2. r.id = nextId + 1 /\ r.cmd = c
      OBVIOUS
    <2> HIDE DEF r, c
    <2> QED BY <1>4, <2>1, <2>2
  <1>6. CASE HelloSent
    <2> DEFINE r == [id |-> nextId + 1, cmd |-> HelloCommand]
    <2>1. pending' = pending \cup {r} /\ nextId' = r.id /\ barrier' = barrier
      BY <1>6 DEF HelloSent
    <2>2. r.id = nextId + 1
      OBVIOUS
    <2> HIDE DEF r
    <2> QED BY <1>4, <2>1, <2>2
  <1> QED BY <1>3, <1>5, <1>6, BarrierSteps

LEMMA PlaceStep ==
    ASSUME TypeOK, TypeOK', SafeInv, PlaceInv, BarrierOpens, [Next]_vars
    PROVE  PlaceInv' /\ Progress
  <1>1. CASE Clock
    BY <1>1, QuietPlaces, AnswerCallCases, LossCases DEF Clock
  <1>2. CASE Gate
    BY <1>2, HeldCases, SendCases DEF Gate
  <1>3. CASE EnsureConnected
    BY <1>3, QuietPlaces, ReplayCases, TrackCases, LossCases DEF EnsureConnected
  <1>4. CASE Admit
    BY <1>4, HeldCases, SendCases, TrackCases, LossCases, QuietPlaces DEF Admit
  <1>5. CASE Flush
    BY <1>5, FlushPlaces, QuietPlaces DEF Flush
  <1>6. CASE Read
    BY <1>6, QuietPlaces, AnswerCases, AnswerCallCases, LossCases DEF Read
  <1>7. CASE Returns
    BY <1>7, QuietPlaces, CallerPlaces, BootCases DEF Returns
  <1>8. CASE EventLoop
    BY <1>8, UserPlaces, TickPlaces DEF EventLoop
  <1>9. CASE BackoffElapses \/ Halted \/ UNCHANGED vars
    <2>1. UNCHANGED <<hello, nextId, pending, deferred, stack, raised, issued, reports>>
      BY <1>9 DEF BackoffElapses, Halted, vars, barrierVars, requestVars, userVars
    <2>2. PlaceInv'
      BY <2>1 DEF PlaceInv, Callers, OneHolder, CallerLast, Owned, EntryFirst, EntryOps, Known, Apart,
                  CarriedLive, Live, HelloIds, Failing, Op, Id, HeldIds, CarriedIds, CallerIds,
                  DeferredIds, SentIds, RequestIds, CarryOps, HoldOps
    <2>3. \A c : Live(c)' <=> Live(c)
      BY <2>1 DEF Live, Failing, Op, Id, HeldIds, DeferredIds, SentIds, RequestIds, HoldOps
    <2>4. Progress
      <3>1. (\A c \in 1..MaxCommands : reports[c] \in Nat) /\ issued \in Nat
        BY IdData
      <3>2. \A c \in 1..issued' : ~(c > issued)
        BY <2>1, <3>1
      <3> QED BY <2>1, <2>3, <3>1, <3>2 DEF Progress, SentIds, RequestIds
    <2> QED BY <2>2, <2>4
  <1> QED
    BY <1>1, <1>2, <1>3, <1>4, <1>5, <1>6, <1>7, <1>8, <1>9 DEF Next, Handler

LEMMA PlaceInvariant == Spec => [](PlaceInv /\ BarrierOpens)
  <1>1. Init => BarrierOpens
    BY DEF Init, BarrierOpens, NoBarrier
  <1>2. TypeOK /\ TypeOK' /\ SafeInv /\ PlaceInv /\ BarrierOpens /\ [Next]_vars
           => PlaceInv' /\ BarrierOpens'
    BY PlaceStep, BarrierStep DEF PlaceInv
  <1> QED BY <1>1, <1>2, PlaceInit, SafeInvariant, TypeCorrect, PTL DEF Spec

-----------------------------------------------------------------------------
(* The mapping to CommandFate: what a fate says of the state.               *)
FateKnown ==
    \A c \in 1..MaxCommands :
        /\ FateOf(c) \in {"new", "held", "sent", "settled", "dropped"}
        /\ FateOf(c) = "new" <=> c > issued
        /\ FateOf(c) = "settled" <=> c <= issued /\ reports[c] > 0
        /\ FateOf(c) = "sent" <=> c <= issued /\ reports[c] = 0 /\ c \in SentIds
        /\ FateOf(c) = "dropped" <=> c <= issued /\ ~Live(c)

LEMMA FateData == TypeOK => FateKnown
  <1> SUFFICES ASSUME TypeOK, NEW c \in 1..MaxCommands
               PROVE  /\ FateOf(c) \in {"new", "held", "sent", "settled", "dropped"}
                      /\ FateOf(c) = "new" <=> c > issued
                      /\ FateOf(c) = "settled" <=> c <= issued /\ reports[c] > 0
                      /\ FateOf(c) = "sent" <=> c <= issued /\ reports[c] = 0 /\ c \in SentIds
                      /\ FateOf(c) = "dropped" <=> c <= issued /\ ~Live(c)
    BY DEF FateKnown
  <1>1. issued \in Nat /\ reports[c] \in Nat
    BY IdData
  <1>2. CASE c > issued
    BY <1>1, <1>2 DEF FateOf
  <1>3. CASE c <= issued /\ reports[c] > 0
    BY <1>1, <1>3 DEF FateOf, Live
  <1>4. CASE c <= issued /\ reports[c] = 0 /\ c \in SentIds
    BY <1>1, <1>4 DEF FateOf, SentIds, Live
  <1>5. CASE c <= issued /\ reports[c] = 0 /\ c \notin SentIds
    BY <1>1, <1>5 DEF FateOf, SentIds, Live
  <1> QED BY <1>1, <1>2, <1>3, <1>4, <1>5

(* At most one open is remembered, and it was sent. *)
LEMMA RememberedData ==
    /\ RememberedIds \subseteq SentIds
    /\ BarrierOpens => Fate!AtMostOne(RememberedIds \ {0})
    /\ BarrierOpens' => Fate!AtMostOne(RememberedIds \ {0})'
  <1>1. RememberedIds \subseteq SentIds
    BY DEF RememberedIds, SentIds, RequestIds
  <1>2. BarrierOpens => \A c, d \in RememberedIds : c = d
    BY DEF BarrierOpens, RememberedIds
  <1>3. BarrierOpens' => \A c, d \in RememberedIds' : c = d
    BY DEF BarrierOpens, RememberedIds
  <1> QED BY <1>1, <1>2, <1>3 DEF Fate!AtMostOne

(* A command goes from one fate only to a later one, or is the open that is *)
(* remembered.                                                              *)
LEMMA FateStep ==
    ASSUME TypeOK, TypeOK', PlaceInv, Progress, NEW c \in 1..MaxCommands
    PROVE  /\ FateOf(c)' \in {"new", "held", "sent", "settled", "dropped"}
           /\ \/ FateOf(c)' = FateOf(c)
              \/ FateOf(c) = "new" /\ FateOf(c)' = "held"
              \/ FateOf(c) = "held" /\ FateOf(c)' \in {"sent", "settled"}
              \/ FateOf(c) = "sent" /\ FateOf(c)' = "settled"
              \/ FateOf(c) = "sent" /\ FateOf(c)' = "dropped" /\ c \in RememberedIds
  <1> DEFINE f == FateOf(c)
             g == FateOf(c)'
  <1>1. /\ f \in {"new", "held", "sent", "settled", "dropped"}
        /\ f = "new" <=> c > issued
        /\ f = "settled" <=> c <= issued /\ reports[c] > 0
        /\ f = "sent" <=> c <= issued /\ reports[c] = 0 /\ c \in SentIds
        /\ f = "dropped" <=> c <= issued /\ ~Live(c)
    BY FateData DEF FateKnown
  <1>2. /\ g \in {"new", "held", "sent", "settled", "dropped"}
        /\ g = "new" <=> c > issued'
        /\ g = "settled" <=> c <= issued' /\ reports'[c] > 0
        /\ g = "sent" <=> c <= issued' /\ reports'[c] = 0 /\ c \in SentIds'
        /\ g = "dropped" <=> c <= issued' /\ ~Live(c)'
    <2>1. FateKnown'
      BY FateData, PTL
    <2> QED BY <2>1 DEF FateKnown
  <1> HIDE DEF f, g
  <1>3. /\ issued \in Nat /\ issued' \in Nat
        /\ reports[c] \in Nat /\ reports'[c] \in Nat /\ c \in Nat /\ c # 0
    BY DEF TypeOK
  <1>4. CASE c > issued
    <2>1. reports[c] = 0 /\ c \notin SentIds
      BY <1>3, <1>4 DEF PlaceInv, Known
    <2>2. issued' # issued => reports'[c] = 0 /\ c \notin SentIds'
      BY <2>1 DEF Progress, SentIds, RequestIds
    <2>3. f = "new"
      BY <1>1, <1>4
    <2>4. c <= issued' => c \in 1..issued' /\ Live(c)'
      BY <1>3, <1>4 DEF Progress
    <2>5. g \in {"new", "held"}
      BY <1>2, <1>3, <1>4, <2>2, <2>4
    <2> QED BY <2>3, <2>5 DEF f, g
  <1>5. CASE c <= issued
    <2>1. c <= issued' /\ ~(c > issued') /\ ~(c > issued) /\ c \in 1..issued
      BY <1>3, <1>5 DEF Progress
    <2>2. /\ reports'[c] >= reports[c]
          /\ c \in SentIds => c \in SentIds' \/ reports'[c] > 0 \/ ~Live(c)'
          /\ Live(c) => Live(c)' \/ c \in RememberedIds
          /\ Live(c)' => Live(c)
      <3>1. reports'[c] >= reports[c]
        BY DEF Progress
      <3>2. c \in SentIds => c \in SentIds' \/ reports'[c] > 0 \/ ~Live(c)'
        BY <1>3 DEF Progress
      <3>3. (Live(c) => Live(c)' \/ c \in RememberedIds) /\ (Live(c)' => Live(c))
        <4>1. \A d \in 1..issued : /\ Live(d) => Live(d)' \/ d \in RememberedIds
                                   /\ Live(d)' => Live(d)
          BY DEF Progress
        <4> QED BY <2>1, <4>1
      <3> QED BY <3>1, <3>2, <3>3
    <2>3. CASE reports[c] > 0
      <3>1. f = "settled" /\ g = "settled"
        BY <1>1, <1>2, <1>3, <1>5, <2>1, <2>2, <2>3
      <3> QED BY <3>1 DEF f, g
    <2>4. CASE reports[c] = 0 /\ c \in SentIds
      <3>1. reports'[c] = 0 \/ reports'[c] > 0
        BY <1>3
      <3>2. f = "sent" /\ Live(c)
        BY <1>1, <1>5, <2>4 DEF Live
      <3>3. g \in {"sent", "settled"} \/ (g = "dropped" /\ c \in RememberedIds)
        BY <1>2, <1>3, <2>1, <2>2, <2>4, <3>1, <3>2
      <3> QED BY <3>2, <3>3 DEF f, g
    <2>5. CASE reports[c] = 0 /\ c \notin SentIds /\ Live(c)
      <3>1. c \notin RememberedIds
        BY <2>5, RememberedData
      <3>2. f = "held" /\ g \notin {"new", "dropped"}
        BY <1>1, <1>2, <1>3, <1>5, <2>1, <2>2, <2>5, <3>1
      <3>3. g \in {"held", "sent", "settled"}
        BY <1>2, <3>2
      <3> QED BY <3>2, <3>3 DEF f, g
    <2>6. CASE ~Live(c)
      <3>1. f = "dropped" /\ g = "dropped"
        BY <1>1, <1>2, <2>1, <2>2, <2>6
      <3> QED BY <3>1 DEF f, g
    <2> QED BY <1>3, <2>3, <2>4, <2>5, <2>6
  <1> QED BY <1>3, <1>4, <1>5

(* For every limit, server and number of commands, and through any number   *)
(* of lost connections: no command of the store is put back once it was     *)
(* sent, or sent after it was reported, and none ends without an event of   *)
(* its own but one: the open that was sent, when it is not answered for in  *)
(* time and its session is the one the next connection opens (send,         *)
(* next_event and mark_disconnected implement CommandFate).                 *)
THEOREM FateIsKept == Spec => ImplementsCommandFate
  <1> DEFINE fate == [i \in 1..MaxCommands |-> FateOf(i)]
             remembered == RememberedIds \ {0}
  <1>1. Init => Fate!Init
    <2> SUFFICES ASSUME Init PROVE Fate!Init
      OBVIOUS
    <2>1. issued = 0 /\ pending = {}
      BY DEF Init
    <2>2. \A c \in 1..MaxCommands : FateOf(c) = "new"
      BY <2>1, BackendAssumption DEF FateOf, BackendAssumption
    <2>3. remembered = {}
      BY <2>1 DEF RememberedIds
    <2> QED BY <2>2, <2>3 DEF Fate!Init
  <1>2. ASSUME TypeOK, TypeOK', SafeInv, PlaceInv, BarrierOpens, BarrierOpens', [Next]_vars
        PROVE  Fate!Next
    <2>1. Progress /\ PlaceInv'
      BY <1>2, PlaceStep
    <2>2. \A c \in 1..MaxCommands :
             /\ FateOf(c)' \in {"new", "held", "sent", "settled", "dropped"}
             /\ \/ FateOf(c)' = FateOf(c)
                \/ FateOf(c) = "new" /\ FateOf(c)' = "held"
                \/ FateOf(c) = "held" /\ FateOf(c)' \in {"sent", "settled"}
                \/ FateOf(c) = "sent" /\ FateOf(c)' = "settled"
                \/ FateOf(c) = "sent" /\ FateOf(c)' = "dropped" /\ c \in RememberedIds
      BY <1>2, <2>1, FateStep
    <2>3. remembered' \subseteq 1..MaxCommands
      <3>1. SentIds' \subseteq 0..MaxCommands
        BY <1>2 DEF TypeOK, SentIds, RequestIds, Request, Command
      <3>2. RememberedIds' \subseteq SentIds'
        BY DEF RememberedIds, SentIds, RequestIds
      <3> QED BY <3>1, <3>2
    <2>4. Fate!AtMostOne(remembered')
      BY <1>2, RememberedData DEF Fate!AtMostOne
    <2>5. \A c \in 1..MaxCommands : c # 0
      OBVIOUS
    <2> QED BY <2>2, <2>3, <2>4, <2>5 DEF Fate!Next, Fate!Fates, Fate!Later, Fate!Dropped
  <1>3. TypeOK /\ TypeOK' /\ SafeInv /\ PlaceInv /\ BarrierOpens /\ BarrierOpens' /\ [Next]_vars
           => [Fate!Next]_<<fate, remembered>>
    BY <1>2
  <1> QED
    BY <1>1, <1>3, PlaceInvariant, SafeInvariant, TypeCorrect, PTL
       DEF Spec, ImplementsCommandFate, Fate!Spec

(* For every limit, server and number of commands: no request goes to a     *)
(* server after its command was reported to the store (send tracks only     *)
(* what a handler still holds).                                             *)
THEOREM ReportIsFinal == Spec => NeverSentAfterReport
  <1>1. TypeOK /\ TypeOK' /\ SafeInv /\ PlaceInv /\ BarrierOpens /\ [Next]_vars
           => [\A r \in pending' \ pending : r.cmd.id # 0 => reports[r.cmd.id] = 0]_vars
    BY PlaceStep DEF Progress
  <1> QED
    BY <1>1, PlaceInvariant, SafeInvariant, TypeCorrect, PTL DEF Spec, NeverSentAfterReport
=============================================================================
