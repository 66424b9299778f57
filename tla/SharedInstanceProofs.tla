------------------------- MODULE SharedInstanceProofs -------------------------
(***************************************************************************)
(* Proofs about the discovery of a shared server: for any number of clients *)
(* and servers, servers compete only if one of them was left to itself, and *)
(* a client uses only a server that spoke to it while it owned the          *)
(* directory.                                                               *)
(***************************************************************************)
EXTENDS SharedInstance, TLAPS

(* A server that owns the directory has its lock, so there is one of them.  *)
OwnersHold ==
    \A s \in Servers : owner = s <=> server[s] \in {"owner", "serving"}

(* A server that is starting was left, or a search waits for it.            *)
StartersAreWaitedFor ==
    \A s \in Starting : s \in left \/ \E c \in Clients : child[c] = s

(* Past its probe, a search meets no owner but its own child and servers    *)
(* that were left: those it waits for would hold the startup lock.          *)
OnlyLeftIntrude ==
    \A c \in Clients : (place[c] = "spawns" \/ child[c] # None) /\ owner \in Servers =>
        owner = child[c] \/ owner \in left

SearchInv ==
    /\ TypeOK /\ OwnersHold /\ StartersAreWaitedFor /\ OnlyLeftIntrude
    /\ CompetitorsWereLeft

LEMMA SearchInit == Init => SearchInv
  BY NamesAssumption DEF Init, SearchInv, TypeOK, OwnersHold, StartersAreWaitedFor, OnlyLeftIntrude,
     CompetitorsWereLeft, Starting, Locked, Over, Errors

LEMMA ReturnStep ==
  ASSUME SearchInv, NEW c \in Clients, NEW at \in Over, place[c] \in Locked, owner # c,
         Returns(c, at), UNCHANGED <<late, polling, owner, serverVars>>,
         UNCHANGED <<asked, answer>>
  PROVE  SearchInv'
<1> USE NamesAssumption DEF SearchInv, TypeOK, OwnersHold, StartersAreWaitedFor, OnlyLeftIntrude,
     CompetitorsWereLeft, Starting, Locked, Over, Errors, Returns, At, serverVars
<1>1. TypeOK'
  OBVIOUS
<1>2. OwnersHold' /\ CompetitorsWereLeft'
  OBVIOUS
<1>3. StartersAreWaitedFor'
  OBVIOUS
<1>4. OnlyLeftIntrude'
  OBVIOUS
<1> QED BY <1>1, <1>2, <1>3, <1>4

LEMMA GoStep ==
  ASSUME SearchInv, NEW c \in Clients, NEW at \in {"probes", "polls", "reads", "asks"},
         place[c] \in {"reads", "asks", "polls"}, GoesOn(c, at),
         UNCHANGED <<late, polling, owner, serverVars>>,
         asked' \in [Clients -> Servers \cup {None}], answer' \in [Clients -> {"none", "same", "other"}],
         at = "asks" => asked'[c] \in Servers,
         \A d \in Clients \ {c} : asked'[d] = asked[d],
         at = "probes" => c \notin polling
  PROVE  SearchInv'
<1> USE NamesAssumption DEF SearchInv, TypeOK, OwnersHold, StartersAreWaitedFor, OnlyLeftIntrude,
     CompetitorsWereLeft, Starting, Locked, Over, Errors, GoesOn, At, serverVars
<1>1. \A d \in Clients : place'[d] = "asks" => asked'[d] \in Servers
  OBVIOUS
<1>2. TypeOK'
  <2>1. /\ start' \in Clients \cup {None} /\ place' \in [Clients -> Locked \cup Over \cup {"new", "locks"}]
        /\ child' \in [Clients -> Servers \cup {None}] /\ left' \subseteq Servers
        /\ lostTo' \in [Servers -> Clients \cup Servers \cup {None}]
        /\ server' \in [Servers -> {"none", "starting", "owner", "serving", "exited"}]
    OBVIOUS
  <2>2. /\ owner' \in Clients \cup Servers \cup {None} /\ record' \in Servers \cup {None, Bad}
        /\ late' \subseteq Clients /\ polling' \subseteq Clients
    OBVIOUS
  <2>3. \A d \in Clients :
          /\ start' = d <=> place'[d] \in Locked
          /\ owner' = d <=> place'[d] = "probed"
          /\ child'[d] # None => d \in polling' /\ place'[d] \in {"reads", "asks", "polls"}
    OBVIOUS
  <2> QED BY <1>1, <2>1, <2>2, <2>3
<1>3. OwnersHold' /\ CompetitorsWereLeft'
  OBVIOUS
<1>4. StartersAreWaitedFor' /\ OnlyLeftIntrude'
  OBVIOUS
<1> QED BY <1>2, <1>3, <1>4

LEMMA SearchStep ==
  ASSUME SearchInv, NEW c \in Clients, SearchSteps(c)
  PROVE  SearchInv'
<1> USE NamesAssumption DEF SearchInv, TypeOK, OwnersHold, StartersAreWaitedFor, OnlyLeftIntrude,
     CompetitorsWereLeft, Starting, Locked, Over, Errors, At, serverVars
<1>1. CASE Locks(c)
  BY <1>1 DEF Locks
<1>2. CASE Busy(c)
  BY <1>2 DEF Busy
<1>3. CASE ReadInstance(c)
  BY <1>3, ReturnStep, GoStep DEF ReadInstance, FoundNobody
<1>4. CASE Verify(c)
  BY <1>4, ReturnStep DEF Verify
<1>5. CASE VerifyFails(c)
  BY <1>5, ReturnStep, GoStep DEF VerifyFails, FoundNobody
<1>6. CASE Probe(c)
  BY <1>6 DEF Probe
<1>7. CASE Unlock(c)
  BY <1>7 DEF Unlock
<1>8. CASE Spawn(c)
  <2> PICK s \in Servers :
          /\ server[s] = "none" /\ server' = [server EXCEPT ![s] = "starting"]
          /\ child' = [child EXCEPT ![c] = s]
    BY <1>8 DEF Spawn
  <2>1. TypeOK' /\ OwnersHold' /\ CompetitorsWereLeft'
    BY <1>8 DEF Spawn
  <2>2. StartersAreWaitedFor'
    BY <1>8 DEF Spawn
  <2>3. OnlyLeftIntrude'
    BY <1>8 DEF Spawn
  <2> QED BY <2>1, <2>2, <2>3
<1>9. CASE Fails(c)
  BY <1>9, ReturnStep DEF Fails
<1>10. CASE Poll(c)
  BY <1>10, ReturnStep, GoStep DEF Poll
<1> QED BY <1>1, <1>2, <1>3, <1>4, <1>5, <1>6, <1>7, <1>8, <1>9, <1>10 DEF SearchSteps

(* Deadlines, kills and answers. *)
LEMMA ClientStep ==
  ASSUME SearchInv, NEW c \in Clients, Discover(c) \/ DeadlinePasses(c) \/ Killed(c) \/ Answers(c)
  PROVE  SearchInv'
<1> USE NamesAssumption DEF SearchInv, TypeOK, OwnersHold, StartersAreWaitedFor, OnlyLeftIntrude,
     CompetitorsWereLeft, Starting, Locked, Over, Errors, At, serverVars
<1>1. CASE Discover(c)
  BY <1>1 DEF Discover
<1>2. CASE DeadlinePasses(c)
  BY <1>2 DEF DeadlinePasses
<1>3. CASE Killed(c)
  <2>1. TypeOK' /\ OwnersHold' /\ CompetitorsWereLeft'
    BY <1>3 DEF Killed
  <2>2. StartersAreWaitedFor' /\ OnlyLeftIntrude'
    BY <1>3 DEF Killed
  <2> QED BY <2>1, <2>2
<1>4. CASE Answers(c)
  BY <1>4 DEF Answers
<1> QED BY <1>1, <1>2, <1>3, <1>4

(* A server that begins, or finds the directory owned: if a search waits    *)
(* for it, that search is past its probe and holds the startup lock, so the *)
(* owner is no probe of another search, and no other search's child.        *)
LEMMA ServerStep ==
  ASSUME SearchInv, NEW s \in Servers, ByHand(s) \/ Owns(s) \/ Loses(s) \/ Serves(s) \/ Dies(s)
  PROVE  SearchInv'
<1> USE NamesAssumption DEF SearchInv, TypeOK, OwnersHold, StartersAreWaitedFor, OnlyLeftIntrude,
     CompetitorsWereLeft, Starting, Locked, Over, Errors, clientVars
<1>1. CASE ByHand(s)
  BY <1>1 DEF ByHand
<1>2. CASE Owns(s)
  <2>1. TypeOK' /\ OwnersHold' /\ StartersAreWaitedFor' /\ CompetitorsWereLeft'
    BY <1>2 DEF Owns
  <2>2. s \in left \/ \E c \in Clients : child[c] = s
    BY <1>2 DEF Owns
  <2>3. \A c, d \in Clients :
           (place[c] = "spawns" \/ child[c] # None) /\ child[d] = s => c = d
    OBVIOUS
  <2>4. OnlyLeftIntrude'
    BY <1>2, <2>2, <2>3 DEF Owns
  <2> QED BY <2>1, <2>4
<1>3. CASE Loses(s)
  <2>1. TypeOK' /\ OwnersHold' /\ StartersAreWaitedFor' /\ OnlyLeftIntrude'
    BY <1>3 DEF Loses
  <2>2. s \in left \/ owner \in left
    <3> SUFFICES ASSUME s \notin left PROVE owner \in left
      OBVIOUS
    <3>1. PICK c \in Clients : child[c] = s
      BY <1>3 DEF Loses
    <3>2. owner \notin Clients
      BY <3>1
    <3>3. owner \in Servers /\ owner # s
      BY <1>3, <3>2 DEF Loses
    <3> QED BY <3>1, <3>3
  <2>3. CompetitorsWereLeft'
    BY <1>3, <2>2 DEF Loses
  <2> QED BY <2>1, <2>3
<1>4. CASE Serves(s)
  BY <1>4 DEF Serves
<1>5. CASE Dies(s)
  BY <1>5 DEF Dies
<1> QED BY <1>1, <1>2, <1>3, <1>4, <1>5

(* The invariant all results rest on. *)
THEOREM SearchInvariant == Spec => []SearchInv
<1>1. SearchInv /\ [Next]_vars => SearchInv'
  <2> SUFFICES ASSUME SearchInv, [Next]_vars PROVE SearchInv'
    OBVIOUS
  <2>1. CASE Next
    BY <2>1, SearchStep, ClientStep, ServerStep DEF Next
  <2>2. CASE UNCHANGED vars
    BY <2>2 DEF vars, clientVars, serverVars, SearchInv, TypeOK, OwnersHold,
       StartersAreWaitedFor, OnlyLeftIntrude, CompetitorsWereLeft, Starting
  <2> QED BY <2>1, <2>2
<1> QED BY SearchInit, <1>1, PTL DEF Spec

(* Locks, children and records are what TypeOK says, for any number of      *)
(* clients and servers.                                                     *)
THEOREM TypeCorrect == Spec => []TypeOK
BY SearchInvariant, PTL DEF SearchInv

(* Two servers of one directory compete only if one of them was left.       *)
THEOREM OnlyTheLeftCompete == Spec => []CompetitorsWereLeft
BY SearchInvariant, PTL DEF SearchInv

-----------------------------------------------------------------------------
(* Steps of a search and of the operator: only Verify makes a client use a  *)
(* server, and it is the one that answered.                                 *)
LEMMA ClientSimulates ==
  ASSUME SearchInv, NEW c \in Clients,
         Discover(c) \/ SearchSteps(c) \/ DeadlinePasses(c) \/ Killed(c) \/ Answers(c)
  PROVE  [Promise!Next]_(Promise!vars)
<1> USE NamesAssumption DEF SearchInv, TypeOK, OwnersHold, Locked, At, Promise!vars
<1>1. CASE Verify(c)
  <2>1. Promise!Use(c)
    BY <1>1 DEF Verify, Returns, serverVars, Promise!Use
  <2> QED BY <2>1 DEF Promise!Next
<1>2. CASE Answers(c)
  <2>1. CASE answer' = [answer EXCEPT ![c] = "same"] /\ server[asked[c]] = "serving"
    <3>1. owner = asked[c] /\ asked[c] # None /\ server[owner] = "serving"
      BY <1>2, <2>1 DEF Answers
    <3>2. owner \in Servers /\ owner # None
      BY <3>1, <1>2 DEF Answers
    <3>3. Promise!Meet(c)
      <4> DEFINE met(d) == IF place[d] = "asks" /\ answer[d] = "same" THEN asked[d] ELSE None
      <4>1. /\ UNCHANGED <<place, asked, owner, server>> /\ place[c] = "asks"
            /\ answer' = [answer EXCEPT ![c] = "same"]
        BY <1>2, <2>1 DEF Answers, serverVars
      <4>2. met(c)' = owner
        BY <3>1, <4>1
      <4>3. \A d \in Clients \ {c} : met(d)' = met(d)
        BY <4>1
      <4>4. [d \in Clients |-> met(d)]' = [[d \in Clients |-> met(d)] EXCEPT ![c] = owner]
        BY <4>2, <4>3
      <4>5. UNCHANGED [d \in Clients |-> IF place[d] = "attached" THEN asked[d] ELSE None]
        BY <4>1
      <4> HIDE DEF met
      <4> QED BY <3>1, <3>2, <4>1, <4>4, <4>5 DEF Promise!Meet, met
    <3> QED BY <3>3 DEF Promise!Next
  <2>2. CASE answer' = [answer EXCEPT ![c] = "other"]
    BY <1>2, <2>2 DEF Answers, serverVars
  <2> QED BY <1>2, <2>1, <2>2 DEF Answers
<1>3. CASE Discover(c)
  <2>1. Promise!Forget(c)
    BY <1>3 DEF Discover, Promise!Forget, serverVars
  <2> QED BY <2>1 DEF Promise!Next
<1>4. CASE Killed(c)
  <2>1. /\ place \in [Clients -> Locked \cup {"locks", "new"} \cup Over]
        /\ place' = [place EXCEPT ![c] = "killed"] /\ UNCHANGED <<asked, answer, server>>
    BY <1>4 DEF Killed, serverVars
  <2>2. c \notin Servers /\ (owner' = owner \/ (owner = c /\ owner' = None))
    BY <1>4 DEF Killed
  <2>3. [d \in Clients |-> IF place'[d] = "asks" /\ answer'[d] = "same" THEN asked'[d] ELSE None]
        = [[d \in Clients |-> IF place[d] = "asks" /\ answer[d] = "same" THEN asked[d] ELSE None]
              EXCEPT ![c] = None]
    BY <2>1
  <2>4. [d \in Clients |-> IF place'[d] = "attached" THEN asked'[d] ELSE None]
        = [[d \in Clients |-> IF place[d] = "attached" THEN asked[d] ELSE None] EXCEPT ![c] = None]
    BY <2>1
  <2>5. UNCHANGED (IF owner \in Servers /\ server[owner] = "serving" THEN owner ELSE None)
    BY <2>1, <2>2
  <2>6. Promise!Forget(c)
    BY <2>3, <2>4, <2>5 DEF Promise!Forget
  <2> QED BY <2>6 DEF Promise!Next
<1>5. CASE ReadInstance(c) \/ VerifyFails(c)
  <2>1. place'[c] # "attached" /\ (place'[c] # "asks" \/ answer'[c] # "same")
    BY <1>5 DEF ReadInstance, VerifyFails, FoundNobody, Returns, GoesOn
  <2>2. \A d \in Clients \ {c} :
           place'[d] = place[d] /\ asked'[d] = asked[d] /\ answer'[d] = answer[d]
    BY <1>5 DEF ReadInstance, VerifyFails, FoundNobody, Returns, GoesOn
  <2>3. UNCHANGED <<owner, server>>
    BY <1>5 DEF ReadInstance, VerifyFails, serverVars
  <2>4. Promise!Forget(c)
    <3> DEFINE met(d) == IF place[d] = "asks" /\ answer[d] = "same" THEN asked[d] ELSE None
               uses(d) == IF place[d] = "attached" THEN asked[d] ELSE None
    <3>1. met(c)' = None /\ uses(c)' = None
      BY <2>1
    <3>2. \A d \in Clients \ {c} : met(d)' = met(d) /\ uses(d)' = uses(d)
      BY <2>2
    <3>3. [d \in Clients |-> met(d)]' = [[d \in Clients |-> met(d)] EXCEPT ![c] = None]
      BY <3>1, <3>2
    <3>4. [d \in Clients |-> uses(d)]' = [[d \in Clients |-> uses(d)] EXCEPT ![c] = None]
      BY <3>1, <3>2
    <3> QED BY <2>3, <3>3, <3>4 DEF Promise!Forget
  <2> QED BY <2>4 DEF Promise!Next
<1>6. CASE DeadlinePasses(c) \/ Locks(c) \/ Busy(c)
  BY <1>6 DEF DeadlinePasses, Locks, Busy, serverVars
<1>7. CASE Probe(c) \/ Unlock(c) \/ Fails(c) \/ Poll(c)
  BY <1>7 DEF Probe, Unlock, Fails, Poll, Returns, GoesOn, serverVars
<1>8. CASE Spawn(c)
  BY <1>8 DEF Spawn
<1> QED BY <1>1, <1>2, <1>3, <1>4, <1>5, <1>6, <1>7, <1>8 DEF SearchSteps

(* Servers begin and stop to serve, one at a time. *)
LEMMA ServerSimulates ==
  ASSUME SearchInv, NEW s \in Servers, ByHand(s) \/ Owns(s) \/ Loses(s) \/ Serves(s) \/ Dies(s)
  PROVE  [Promise!Next]_(Promise!vars)
<1> USE NamesAssumption DEF SearchInv, TypeOK, OwnersHold, clientVars, Promise!vars
<1>1. CASE ByHand(s) \/ Owns(s) \/ Loses(s)
  BY <1>1 DEF ByHand, Owns, Loses
<1>2. CASE Serves(s)
  <2>1. Promise!Serve(s)
    BY <1>2 DEF Serves, Promise!Serve
  <2> QED BY <2>1 DEF Promise!Next
<1>3. CASE Dies(s)
  BY <1>3 DEF Dies, Promise!Next, Promise!Stop
<1> QED BY <1>1, <1>2, <1>3

(* The discovery implements SharedServer. *)
THEOREM DiscoveryKeepsPromise == Spec => ImplementsSharedServer
<1>1. Init => Promise!Init
  BY NamesAssumption DEF Init, Promise!Init
<1>2. SearchInv /\ [Next]_vars => [Promise!Next]_(Promise!vars)
  <2> SUFFICES ASSUME SearchInv, [Next]_vars PROVE [Promise!Next]_(Promise!vars)
    OBVIOUS
  <2>1. CASE Next
    BY <2>1, ClientSimulates, ServerSimulates DEF Next
  <2>2. CASE UNCHANGED vars
    BY <2>2 DEF vars, clientVars, serverVars, Promise!vars
  <2> QED BY <2>1, <2>2
<1> QED BY SearchInvariant, <1>1, <1>2, PTL DEF Spec, ImplementsSharedServer, Promise!Spec
=============================================================================
